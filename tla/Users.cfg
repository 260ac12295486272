SPECIFICATION UsersSpec
CONSTANTS
  Proc = {p1, p2}
  None = None
  Userid = {u1, u2}
  Absent = Absent
  MaxDepth = 2
  MaxSteps = 4
  MaxRows = 2
  Record <- MCRecord
SYMMETRY Interchangeable
INVARIANTS UniqueUnlessBlind IndexIsMine 
