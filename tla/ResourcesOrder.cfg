SPECIFICATION Spec
CONSTANTS
  Proc = {p1}
  None = None
  Text <- MCText
  Edits <- MCEdits
  FirstRows <- MCFirstRows
  Interval = 2
  MaxRows = 2
  MaxSguid = 6
PROPERTY OrderSurvivesDeath
