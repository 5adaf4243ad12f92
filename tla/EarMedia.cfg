SPECIFICATION MediaSpec
CONSTANTS
  Toolsets <- EveryToolset
  SinkIds <- Ids
  NoSink = NoSink
  OwnKinds <- EitherName
  OtherKinds <- BothKinds
  DesktopMoves <- AllMoves
  DesktopBusy = TRUE
  Unreliable = TRUE
INVARIANTS
  MediaTypeOK
  ControlFlow
PROPERTIES
  ImplementsPolicy
  RoutesOnce
  HandlersReturn
