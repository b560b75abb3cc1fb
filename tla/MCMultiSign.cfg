CONSTANTS
  cli = cli
  page = page
  twice = twice
  pay = pay
  swap = swap
  ann = ann
  ben = ben
  cat = cat
  Sessions <- MCSessions
  OnPage = {page}
  Txs = {pay, swap}
  Signers = {ann, ben, cat}
  Tx <- MCTx
  SignerList <- MCSignerList
  Threshold <- MCThreshold
  Keys <- MCKeys
SPECIFICATION FairMultiSpec
INVARIANTS
  OneTransaction
  CompleteIsQuorum
  OrchestratorSound
PROPERTIES
  AbleFinish
CHECK_DEADLOCK FALSE
