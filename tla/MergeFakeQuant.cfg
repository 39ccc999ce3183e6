CONSTANTS
  None = None
  QuantTypes <- MCQuantTypes
  Functions <- MCFunctions
  Results = {2, 4}
  Inputs <- MCInputs

SPECIFICATION Spec

\* The pass returns once no pattern matches and no dead op is left.
CHECK_DEADLOCK FALSE

INVARIANT TypeOK
INVARIANT SemanticsPreserved
