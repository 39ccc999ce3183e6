CONSTANTS
  None = None
  TaskTypeOrder <- MCTaskTypeOrder
  GroupSize <- MCGroupSize
  TilesCount = 2
  MaxGroups = 3
  MaxOps = 3

SPECIFICATION Spec

\* The pass returns after the last tile's last task type.
CHECK_DEADLOCK FALSE

INVARIANT TypeOK
INVARIANT SlotsInBounds
INVARIANT AdjacentGroupsDisjoint
