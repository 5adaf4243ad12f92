SPECIFICATION Spec
CONSTANTS
  p1 = p1
  p2 = p2
  pro2 = pro2
  max = max
  Peripherals <- TwoPeripherals
  Models <- TwoModels
  Driven = TRUE
  Unreliable = TRUE
  MaxQueue = 1
INVARIANTS
  TypeOK
PROPERTIES
  
  PollsEnd
