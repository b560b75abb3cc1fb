CONSTANTS
  K = 4
  Seeds <- MCSeeds
  Neighbours <- MCNeighbours
  Sessions = {alice}
  MaxEarly = 2
SPECIFICATION FairSpec
INVARIANTS
  CompleteIsWhole
PROPERTIES
  ImplementsPeeling
  CallsReturn
