----------------------------- MODULE MediaPolicy -----------------------------
(***************************************************************************)
(* What the ear-detection feature promises the user, without any of the    *)
(* machinery that carries it out: the README's "automatic play/pause" and  *)
(* the A2DP activation of EarMediaController (librepods-cli/src/main.rs).  *)
(*                                                                         *)
(* `mode' is what the daemon has done to the desktop so far; `inEar' is    *)
(* whether the last report had a pod in an ear; `playing' is the player.   *)
(* EarMedia is shown to implement this module.                             *)
(***************************************************************************)
VARIABLES mode, inEar, playing

policyVars == <<mode, inEar, playing>>

PolicyInit ==
  /\ mode = "unrouted"
  /\ inEar = FALSE
  /\ playing \in BOOLEAN

(* The pods say where they are; nothing else happens in this step.         *)
Report ==
  /\ inEar' \in BOOLEAN
  /\ UNCHANGED <<mode, playing>>

(* Audio is routed once, and only for somebody wearing a pod.              *)
Route ==
  /\ mode = "unrouted"
  /\ inEar
  /\ mode' = "routed"
  /\ UNCHANGED <<inEar, playing>>

(* Playback stops only after routing and with both pods out.               *)
AutoPause ==
  /\ mode \in {"routed", "paused"}
  /\ ~inEar
  /\ mode' = "paused"
  /\ playing' \in {playing, FALSE}
  /\ UNCHANGED inEar

(* Playback restarts only to undo an AutoPause and with a pod back in.     *)
AutoResume ==
  /\ mode = "paused"
  /\ inEar
  /\ mode' = "routed"
  /\ playing' \in {playing, TRUE}
  /\ UNCHANGED inEar

(* The user may press play or pause at any moment.                         *)
UserPlayback ==
  /\ playing' = ~playing
  /\ UNCHANGED <<mode, inEar>>

PolicyNext == Report \/ Route \/ AutoPause \/ AutoResume \/ UserPlayback

PolicySpec == PolicyInit /\ [][PolicyNext]_policyVars
=============================================================================
