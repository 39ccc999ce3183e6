CONSTANTS
  Throw = Throw

SPECIFICATION Spec

\* The walk ends after numSpatialDims calls or at a throw.
CHECK_DEADLOCK FALSE

INVARIANT SpatialDimsAgree
