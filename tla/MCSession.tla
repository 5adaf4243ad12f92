------------------------------ MODULE MCSession ------------------------------
(* Small instances of Session. *)
EXTENDS Session, TLC

(* One toolset and one sink: EarMedia is checked in full by its own runs. *)
WpctlOnly == {{"wpctl", "playerctl"}}
OneId == {1}
NamedAirPods == {"airpods"}
NoKinds == {}
NoMoves == {}
PlaybackMoves == {"playback"}

SomeTexts == {"", "pods", "A3047"}
SomeBatteries == {"flat", "full"}
SomeKeys == {"k1", "k2"}

World(b, p, s, mode, ca, key) ==
  [deviceName |-> "pods", modelNumber |-> "A3047", manufacturer |-> "",
   model |-> "AirPodsPro2Usbc", battery |-> b, noiseControl |-> mode,
   conversationalAwareness |-> ca, primaryInEar |-> p, secondaryInEar |-> s,
   oneBudAnc |-> ca, irk |-> key, encKey |-> "k2"]

(* Battery, noise mode, one-bud ANC and keys vary; the pods stay put.      *)
QuietWorlds ==
  {World("full", FALSE, FALSE, "Off", FALSE, "k1"),
   World("flat", FALSE, FALSE, "Adaptive", FALSE, "k1"),
   World("flat", FALSE, FALSE, "Off", TRUE, "k2")}

(* No pod, the secondary pod or both in ear.                               *)
WornWorlds ==
  {World("full", FALSE, FALSE, "Off", FALSE, "k1"),
   World("full", FALSE, TRUE, "Off", FALSE, "k1"),
   World("full", TRUE, TRUE, "Off", FALSE, "k1")}

StateAspects == {"battery", "onebud", "keys"}
EarAndName == {"ear", "metadata"}
JustErrors == {[t |-> "ParseError"]}
NoIds == {}
NoTools == {{}}
WithoutMedia == {FALSE}
EitherWay == BOOLEAN
=============================================================================
