SPECIFICATION Spec
CONSTANTS
  k1 = k1
  k2 = k2
  t1 = t1
  t2 = t2
  None = None
  Calls <- MCCalls
  Kind <- MCKind
INVARIANTS
  NoCallForgotten
  ConnectingIsInFlight
PROPERTIES
  AnswerUsedOnce
  OwnAnswer
  EveryCallSettles
CHECK_DEADLOCK FALSE
