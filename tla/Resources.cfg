SPECIFICATION Spec
CONSTANTS
  Proc = {p1, p2, p3}
  None = None
  Text <- MCText
  Edits <- MCEdits
  FirstRows <- MCFirstRows
  Interval = 2
  MaxRows = 3
  MaxSguid = 6
SYMMETRY ProcSymmetry
 
PROPERTIES NoLostUpdate StampsGrow
