SPECIFICATION Spec
CONSTANTS
  Callers = {a}
  Ids = {i1}
  NoId = noId
  ReuseIds = FALSE
  DelayBeforeDrop = 10
  ThreadSleep = 1
  KeepAliveNbSpin = 0
  MaxMessages = 1
  MaxConnections = 1
  MaxInbox = 1
PROPERTY DroppedAfterDelay
CHECK_DEADLOCK FALSE
