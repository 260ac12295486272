CONSTANTS
  Page = {p1, p2}
  None = None
  Password = {w1, w2, w3, w4}
  NoPassword = NoPassword
  TempLifetime = 1
  MaxPage = 1
  MaxTime = 4
SPECIFICATION Spec
SYMMETRY Interchangeable
INVARIANTS  ChangeFinal
