SPECIFICATION FairSpec
CONSTANTS
  MaxFd = 3
  MaxConnections = 3
  MaxAppOpens = 2
INVARIANTS
  TypeOK
  WorkersJoined
  HooksPaired

  
  
CHECK_DEADLOCK FALSE
