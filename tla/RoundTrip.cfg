CONSTANTS
  None = None
  NoType = NoType
  Invalid = Invalid
  TypeKinds <- MCTypeKinds
  CompressionAttrs = {c1}
  SEAttrs = {se1}

SPECIFICATION Spec

\* parse returns after its last stretch: a finished parse has no successor.
CHECK_DEADLOCK FALSE

INVARIANT RoundTrip
