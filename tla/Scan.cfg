SPECIFICATION FairSpec
CONSTANTS
  MaxScans = 2
  MaxRx = 3
  MayHappen <- MCMayHappen
INVARIANTS TypeOK OperLockExact ScanHoldsExact NoSecondRequest NeverOrphaned SuccessIsReported
PROPERTIES ScanEnds OperationsEnd
CHECK_DEADLOCK FALSE
