SPECIFICATION FairSpec
CONSTANTS
  MaxSta = 2
  MaxMc = 2
  FwLinks = {0, 2}
INVARIANTS TypeOK Announced WindowHasFrames OnItsWay
PROPERTIES WindowAnnounced McastEnds
