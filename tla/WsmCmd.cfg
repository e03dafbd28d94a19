SPECIFICATION FairSpec
CONSTANTS
  s1 = s1
  s2 = s2
  c1 = c1
  c2 = c2
  c3 = c3
  setKey = setKey
  writeMib = writeMib
  NoCmd = NoCmd
  None = None
  Sender = {s1, s2}
  Call = {c1, c2, c3}
  Op <- MCOp
INVARIANTS TypeOK NoStalePtr RestartReleases
PROPERTIES ImplementsRpc CallsEnd
