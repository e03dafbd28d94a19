CONSTANTS
  None = None
  sta = sta
  ap = ap
  f1 = f1
  f2 = f2
  f3 = f3
  i1 = i1
  i2 = i2
  Item = {i1, i2}
  Frame = {f1, f2, f3}
  Vif <- MCVif
  Link = {0, 1}
  VifOf <- MCVifOf
  LinkOf <- MCLinkOf
  QueueCap <- MCQueueCap
  NCpu = 0
  GenMod = 3
  EapolTries = 1
  ActionTries = 2
SYMMETRY ItemSymmetry
SPECIFICATION Spec
INVARIANT BhFrameRemovable
CHECK_DEADLOCK FALSE
