CONSTANTS
  MaxFiles = 2
  QueueLimit = 4
  MaxCommands = 2
SPECIFICATION FairSpec
CHECK_DEADLOCK FALSE
INVARIANTS ChildrenApart CompleteIsComplete  
PROPERTIES AbortedOnRequest StopServed 
