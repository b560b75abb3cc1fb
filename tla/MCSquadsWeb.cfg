SPECIFICATION Spec
CONSTANTS
  Configs <- MCConfigs
  Contents <- MCContents
  KeyLen = 32
  MaxIndex = 2
  MaxBuilt = 5
  Procs = {p1}
  Cluster = "devnet"
  Orders <- MCOrders
  MaxAmount = 1000
  Life = 1
  MaxRetries = 1
  MaxPolls = 2
  MaxOrders = 2
  MaxHeight = 4
INVARIANT
  WebCreatesAsConfigured
CHECK_DEADLOCK FALSE
