SPECIFICATION Spec
CONSTANTS
  Robots = {1}
  Sizes = {2, 3}
  PayloadMaxSize = 2
  SharedSeed = FALSE
  LateCallback = FALSE
  MaxPayloads <- OneEach
  MaxFaults = 0
INVARIANT WholePayload
CHECK_DEADLOCK FALSE
