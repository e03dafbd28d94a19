SPECIFICATION Spec
CONSTANTS
  MaxSta = 1
  MaxMc = 2
  FwLinks = {}
PROPERTIES TimeoutMeansSent
