SPECIFICATION Spec
CONSTANTS
  TxLens <- MCTxLens
  Components = 4
  MaxCalls = 3
  MaxGarbage = 2
INVARIANTS
  ChunksAsDocumented
CHECK_DEADLOCK FALSE
