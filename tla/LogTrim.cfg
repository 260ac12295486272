SPECIFICATION LogSpec
CONSTANTS
  Script = {a, b}
  MaxEntries = 2
  MaxIdx = 7
SYMMETRY Runs
INVARIANTS RecentKept TrimmedToLimit
PROPERTY IndexNotReused
