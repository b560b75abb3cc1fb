CONSTANTS
  Blocks = {0, 1}
  CounterWrap = 3
  Neighbours <- MCNeighbours
  alice = alice
  bob = bob
  Sessions <- MCSessions
  Params <- MCParams
  MetadataInterval = 3
  FrameWrap = 5
  Limits = {0, 4}
  MaxRuns = 2
  None = None
  Failed = Failed
  CameraError = CameraError
SPECIFICATION FairSpec
INVARIANTS
  FailureHasACause
PROPERTIES
  ReceiveReturns
  Delivers
CHECK_DEADLOCK FALSE
