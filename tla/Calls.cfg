SPECIFICATION Spec
CONSTANTS
  Names = {f, g}
  Garbage = garbage
  Indices = {0, 1, 4}
  AskPastEnd = FALSE
  RegisterAnytime = FALSE
  MaxRegistrations = 2
  MaxRequests = 3
  MaxSessions = 1
SYMMETRY Symmetry
INVARIANTS
  TypeOK
  GrowTogether
  
  EnumerationStable
  NoHandleLost
CHECK_DEADLOCK FALSE
