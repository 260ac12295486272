SPECIFICATION FairSpec
CONSTANTS
  Pid = {p1, p2}
  MaxClock = 5
  Short <- MCShort
INVARIANTS Unique SortsByTime
PROPERTIES  SpinEnds
