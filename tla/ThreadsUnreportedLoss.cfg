SPECIFICATION Spec
CONSTANTS
  MaxFd = 2
  MaxConnections = 2
  MaxAppOpens = 0
INVARIANT LossReported
CHECK_DEADLOCK FALSE
