SPECIFICATION Spec
CONSTANTS
  Toolsets <- WpctlOnly
  SinkIds <- OneId
  NoSink = NoSink
  OwnKinds <- NamedAirPods
  OtherKinds <- NoKinds
  DesktopMoves <- PlaybackMoves
  DesktopBusy = TRUE
  Unreliable = TRUE
  Texts <- SomeTexts
  NoText = ""
  Batteries <- SomeBatteries
  NoBattery = "flat"
  Keys <- SomeKeys
  NoKey = NoKey
  MediaOptions <- EitherWay
  Worlds <- WornWorlds
  Reported <- EarAndName
  Extras <- JustErrors
  Chatty = TRUE
  MaxInbox = 1
INVARIANTS
  ControllerSeesState
  QuietOutsideLoop
PROPERTIES
  UsesController
  LinkLossEnds
  HandshakeEnds
