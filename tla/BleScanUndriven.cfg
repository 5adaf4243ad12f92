SPECIFICATION Spec
CONSTANTS
  p1 = p1
  p2 = p2
  pro2 = pro2
  max = max
  Peripherals <- OnePeripheral
  Models <- TwoModels
  Driven = FALSE
  Unreliable = FALSE
  MaxQueue = 1
PROPERTIES
  NearbyIsFound
