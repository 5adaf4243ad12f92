SPECIFICATION Spec
CONSTANTS
  Toolsets <- NoTools
  SinkIds <- NoIds
  NoSink = NoSink
  OwnKinds <- NoKinds
  OtherKinds <- NoKinds
  DesktopMoves <- NoMoves
  DesktopBusy = TRUE
  Unreliable = FALSE
  Texts <- SomeTexts
  NoText = ""
  Batteries <- SomeBatteries
  NoBattery = "flat"
  Keys <- SomeKeys
  NoKey = NoKey
  MediaOptions <- WithoutMedia
  Worlds <- QuietWorlds
  Reported <- StateAspects
  Extras <- JustErrors
  Chatty = TRUE
  MaxInbox = 2
INVARIANTS
  SessionTypeOK
  SubscribedInLoop
  Mirror
