SPECIFICATION DaemonSpec
CONSTANTS
  pods = pods
  headset = headset
  Devices <- PodsAndHeadset
  AirPods <- JustPods
  InitUp <- PodsAndHeadset
  InitUuids <- AnyUuids
  EarlyMoves = TRUE
  Unreliable = TRUE
  MaxChanges = 5
  GivenAddresses <- AnyOption
  RetryCounts <- NoneOrThree
INVARIANTS
  DaemonTypeOK
  DisconnectsMatch
  ConfirmedAreHeld
  OnlyAirPodsReported
  SessionHasAddress
  GivesUpInTime
PROPERTIES
  ToldIsTried
  AttemptsEnd
  WatchEnds
CHECK_DEADLOCK FALSE
