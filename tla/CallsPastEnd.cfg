SPECIFICATION Spec
CONSTANTS
  Names = {f, g}
  Garbage = garbage
  Indices = {1}
  AskPastEnd = TRUE
  RegisterAnytime = FALSE
  MaxRegistrations = 1
  MaxRequests = 1
  MaxSessions = 1
INVARIANT GrowTogether
CHECK_DEADLOCK FALSE
