SPECIFICATION Spec
CONSTANTS
  P <- MCP
  T = 2
  MaxAttempts = 2
  MaxRestarts = 1
  MaxLate = 1
  Messages = {m1, m2}
  MaxNonces = 2
  MaxPackages = 2
INVARIANTS
  KeysAgreeUnlessRestarted
  QuorumSigned
PROPERTIES
  EveryoneFinishes
