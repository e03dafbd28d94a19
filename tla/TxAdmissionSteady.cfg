CONSTANTS
  Capacity = 16
  DefaultCap = 3
  SingleCap = 13
  CombCap = 7
  NCpu = 2
SPECIFICATION SteadySpec
INVARIANTS PutNeverFails
CHECK_DEADLOCK FALSE
