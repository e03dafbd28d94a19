CONSTANTS
  None = None
  Cmd = Cmd
  confirmed = confirmed
  unconfirmed = unconfirmed
  t1 = t1
  t2 = t2
  Frame = {confirmed, unconfirmed}
  NeedConfirm = {confirmed}
  VifOf <- MCVifOf
  Locker = {t1, t2}
  LockerVif <- MCLockerVif
  NumBufs = 2
  Remover = {t2}
SPECIFICATION FairSpec
INVARIANTS TypeOK BuffersExact NoOverrun OneLateFrame FlushLeavesOneAtMost CommandGoesNext NoLostWakeup
PROPERTY LockingEnds
