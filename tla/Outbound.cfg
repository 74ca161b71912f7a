SPECIFICATION FairSpec
CONSTANTS
  Callers = {a, b}
  Ids = {i1, i2}
  NoId = noId
  ReuseIds = FALSE
  DelayBeforeDrop = 2
  ThreadSleep = 1
  KeepAliveNbSpin = 1
  MaxMessages = 2
  MaxConnections = 2
  MaxInbox = 1
INVARIANTS
  TypeOK
  OneOwner
  PopsWhatItRead
  
  
  
PROPERTIES
  ImplementsService
  
CHECK_DEADLOCK FALSE
