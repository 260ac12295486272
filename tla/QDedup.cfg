\* Two runs on trees of three files and up to four listed names, one change by others.
CONSTANTS
  Name <- MCName
  Place <- MCPlace
  Content <- MCContent
  Path <- MCPath
  NoFile = 0
  MaxRuns = 2
  MaxEdits = 1
SPECIFICATION Spec
INVARIANTS NothingLost ToldAll StatsRight
