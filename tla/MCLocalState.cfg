SPECIFICATION LocalSpec
CONSTANTS
  r1 = r1
  r2 = r2
  r3 = r3
  n1 = n1
  n2 = n2
  Processes = {p1, p2}
  Requests <- MCRequests
  Nonces <- MCNonces
  Nonce <- MCNonce
  Ours <- MCRequests
  Signable = {r1, r2}
  MaxFaults = 2
  Tasks = {t1, t2}
  Keys = {k1}
  MaxKeyCalls = 4
  NoKey = NoKey
  Procs = {p1, p2, p3}
  Labels = {l1}
  KeyFiles = {f1}
  MaxCommands = 4
  Nothing = Nothing
  TotalBlocks = 4
  FrameSeeds <- MCSeeds
  Cover <- MCCover
  MaxFrames = 7
  Unknown = Unknown
SYMMETRY Alike
INVARIANTS
  SerialUseIsSafe
  RefusedWasAnswered
  ListedAsReported
  NoKeyTwice
  PrintedKeyKept
  DecodesAllItCan
CHECK_DEADLOCK FALSE
