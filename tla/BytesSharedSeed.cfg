SPECIFICATION Spec
CONSTANTS
  Robots = {1, 2}
  Sizes = {3}
  PayloadMaxSize = 2
  SharedSeed = TRUE
  LateCallback = FALSE
  MaxPayloads <- OneEach
  MaxFaults = 0
INVARIANT WholePayload
CHECK_DEADLOCK FALSE
