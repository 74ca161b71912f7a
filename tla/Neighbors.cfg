SPECIFICATION FairSpec
CONSTANTS
  Threads = {spinner, worker}
  SpinThread = spinner
  Agents = {1, 2}
  MaxMessages = 2
  MaxSessions = 2
INVARIANTS
  TypeOK
  FreshlyAddressed
  UpdatesOnceInOrder
PROPERTY AnswerReachesCallback
CHECK_DEADLOCK FALSE
