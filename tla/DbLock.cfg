SPECIFICATION FairSpec
CONSTANTS
  Proc = {p1, p2, p3}
  None = None
  MaxDepth = 2
  MaxSteps = 2
INVARIANTS FlagAgrees Undisturbed
PROPERTIES MutexSpec EveryoneIsServed
