SPECIFICATION FairSpec
CONSTANTS
  Names = {f}
  Garbage = garbage
  Indices = {1}
  AskPastEnd = TRUE
  RegisterAnytime = TRUE
  MaxRegistrations = 2
  MaxRequests = 2
  MaxSessions = 2
INVARIANTS
  ReturnProtocol
  NoHandleLost
  RegistryOutlivesCallbacks
PROPERTIES
  ReturnsSent
  DestructionEnds
CHECK_DEADLOCK FALSE
