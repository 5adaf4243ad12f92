------------------------------ MODULE MCDaemon ------------------------------
(* A small instance of Daemon. *)
EXTENDS Daemon

CONSTANTS pods, headset

PodsAndHeadset == {pods, headset}
JustPods == {pods}
AnyUuids == UuidSets
AnyOption == {"absent", "right", "malformed"}
NoneOrThree == {0, 3}
=============================================================================
