CONSTANTS
  Connections = {c1, c2}
  Addresses = {a1}
  Jobs = {"identity", "availability", "displays", "stream"}
  Offers <- MCOffers
  Displays <- MCDisplays
  Samples = 2
  FailureLimit = 1
  MaxTracked = 1
SPECIFICATION MCSpec
INVARIANTS
  OneStream
  InStep
PROPERTIES
  SlotReturns
CHECK_DEADLOCK FALSE
