SPECIFICATION Spec
CONSTANTS
  Number <- MCNumber
  KMax <- MCKMax
  HMax <- MCHMax
  Wanted <- MCWanted
  MaxRows = 4
  MaxTerms = 30
INVARIANTS FabInv NeighborsConsecutive Complete BestIsClosest
PROPERTY CallEnds
CHECK_DEADLOCK FALSE
