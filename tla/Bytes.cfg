SPECIFICATION FairSpec
CONSTANTS
  Robots = {1, 2}
  Sizes = {0, 1, 5}
  PayloadMaxSize = 2
  SharedSeed = FALSE
  LateCallback = TRUE
  MaxPayloads <- TwoOfTheFirst
  MaxFaults = 2
INVARIANTS
  TypeOK
  WholePayload
  NoPartialDelivery
  NoLeakedAccumulator
PROPERTIES
  ImplementsChannel
  EventuallyDelivered
CHECK_DEADLOCK FALSE
