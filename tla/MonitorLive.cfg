SPECIFICATION Spec
CONSTANTS
  pods = pods
  headset = headset
  Devices <- PodsAndHeadset
  AirPods <- JustPods
  InitUp <- None
  InitUuids <- AnyUuids
  EarlyMoves = FALSE
  Unreliable = FALSE
  MaxChanges = 6
INVARIANTS
  ConfirmedAreHeld
PROPERTIES
  ConnectIsReported
  DisconnectIsReported
CHECK_DEADLOCK FALSE
