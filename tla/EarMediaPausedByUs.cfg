SPECIFICATION MediaSpec
CONSTANTS
  Toolsets <- WpctlOnly
  SinkIds <- Ids
  NoSink = NoSink
  OwnKinds <- NamedAirPods
  OtherKinds <- OneKind
  DesktopMoves <- AllMoves
  DesktopBusy = FALSE
  Unreliable = FALSE
PROPERTIES
  PausedByUsMeansWePaused
