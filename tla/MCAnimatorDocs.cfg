SPECIFICATION HooksSpec
CONSTANTS
  None = None
  Total = 2
  MaxInputs = 3
  Sendable = {1, 3}
  MaxCalls = 3
  NoScan = NoScan
  Needed = 1
  Sender = 2
  MaxChanges = 2
PROPERTIES
  FramesDrawn
CHECK_DEADLOCK FALSE
