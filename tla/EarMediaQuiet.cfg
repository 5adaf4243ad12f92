SPECIFICATION MediaSpec
CONSTANTS
  Toolsets <- EveryToolset
  SinkIds <- Ids
  NoSink = NoSink
  OwnKinds <- EitherName
  OtherKinds <- BothKinds
  DesktopMoves <- AllMoves
  DesktopBusy = FALSE
  Unreliable = FALSE
PROPERTIES
  WearerIsServed
