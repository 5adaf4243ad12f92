SPECIFICATION Spec
CONSTANTS
  pods = pods
  headset = headset
  Devices <- JustPods
  AirPods <- JustPods
  InitUp <- JustPods
  InitUuids <- Known
  EarlyMoves = FALSE
  Unreliable = FALSE
  MaxChanges = 3
PROPERTIES
  DisconnectIsReported
CHECK_DEADLOCK FALSE
