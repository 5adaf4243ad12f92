--------------------------- MODULE MCBluezMonitor ---------------------------
(* Small instances of BluezMonitor. *)
EXTENDS BluezMonitor

CONSTANTS pods, headset

PodsAndHeadset == {pods, headset}
JustPods == {pods}
None == {}
AnyUuids == UuidSets
Known == {"airpods"}
=============================================================================
