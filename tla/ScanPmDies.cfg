SPECIFICATION Spec
CONSTANTS
  MaxScans = 2
  MaxRx = 3
  MayHappen <- MCPmDies
INVARIANT StayAwakeBalanced
CHECK_DEADLOCK FALSE
