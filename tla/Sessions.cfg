CONSTANTS
  Browser = {b1}
  User = {u1}
  Ip = {i1, i2}
  Page = {p1, p2}
  Sid = {s1}
  NoSid = NoSid
  Lifetime = 2
  ReapTime = 3
  MaxPage = 1
  MaxTime = 5
SPECIFICATION Spec
SYMMETRY Interchangeable
INVARIANTS LogoutFinal InUseNotExpired HomeOnly
PROPERTIES IdleLimit  LifeSpec
