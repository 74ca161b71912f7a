SPECIFICATION Spec
CONSTANTS
  MaxFd = 2
  MaxConnections = 1
  MaxAppOpens = 1
INVARIANT ClosesOnlyClient
CHECK_DEADLOCK FALSE
