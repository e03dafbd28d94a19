CONSTANTS
  Capacity = 16
  DefaultCap = 3
  SingleCap = 13
  CombCap = 7
  NCpu = 2
SPECIFICATION FairSpec
INVARIANTS TypeOK InterfaceBounded StoppedHoldsFrames
PROPERTY StoppedIsWoken
CHECK_DEADLOCK FALSE
