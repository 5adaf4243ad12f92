------------------------------ MODULE EarMedia ------------------------------
(***************************************************************************)
(* Ear detection driving the desktop's audio: EarMediaController           *)
(* (librepods-cli/src/main.rs) on top of LinuxMediaControl                 *)
(* (librepods-linux/src/media.rs).                                         *)
(*                                                                         *)
(* LinuxMediaControl works by running wpctl, pactl, playerctl or dbus-send *)
(* and waiting for them.  Every command is a step of its own (`phase'), so *)
(* the desktop - the user, other programs, the sound server - may change   *)
(* between two commands of one handler.  A command that cannot be spawned  *)
(* or exits with an error is the failing alternative of its step.          *)
(***************************************************************************)
EXTENDS Naturals, FiniteSets

CONSTANTS
  Toolsets,      \* the sets of installed tools to consider
  SinkIds,       \* numeric ids the sound server gives to sinks
  NoSink,        \* no sink (cache empty, no default output)
  OwnKinds,      \* how the AirPods' own sink may be named: "airpods" in the
                 \* name, or "renamed" without it
  OtherKinds,    \* other sinks of the desktop: "other", "twin" (a second pair)
  DesktopMoves,  \* what the desktop does on its own in this instance
  DesktopBusy,   \* may the desktop move in the middle of a handler?
  Unreliable     \* may a command fail for a reason of its own?

Tools == {"wpctl", "pactl", "playerctl"}
Moves == {"playback", "default", "sink", "card"}

ASSUME MediaAssumption ==
  /\ Toolsets \subseteq SUBSET Tools
  /\ NoSink \notin SinkIds
  /\ OwnKinds \subseteq {"airpods", "renamed"}
  /\ OtherKinds \subseteq {"other", "twin"}
  /\ DesktopMoves \subseteq Moves
  /\ DesktopBusy \in BOOLEAN
  /\ Unreliable \in BOOLEAN

VARIABLES
  tools,           \* the installed tools, probed once by LinuxMediaControl::new
  sinkCache,       \* wpctl_sink_id
  audioActivated,  \* audio_activated
  pausedByUs,      \* paused_by_us
  handler,         \* the controller method running
  phase,           \* the command it is about to run
  inEar,           \* any_pod_in_ear() of the device state
  node,            \* the sound server's sinks: what each id stands for
  defaultSink,     \* its default output
  card,            \* the AirPods' card and its profile
  playing          \* the media player

controllerVars == <<tools, sinkCache, audioActivated, pausedByUs, inEar>>
desktopVars == <<node, defaultSink, card, playing>>
mediaVars == <<controllerVars, handler, phase, desktopVars>>

Phases == {"idle", "find_sink", "set_default",
           "find_card", "set_profile", "list_sinks", "set_default_sink",
           "resume_check", "play", "pause_check", "pause",
           "remove_find_card", "remove_profile"}
Handlers == {"none", "metadata", "ear", "cleanup", "dropped"}
Kinds == {"free", "airpods", "renamed", "other", "twin"}

MediaTypeOK ==
  /\ tools \in Toolsets
  /\ sinkCache \in SinkIds \union {NoSink}
  /\ audioActivated \in BOOLEAN
  /\ pausedByUs \in BOOLEAN
  /\ handler \in Handlers
  /\ phase \in Phases
  /\ inEar \in BOOLEAN
  /\ node \in [SinkIds -> Kinds]
  /\ defaultSink \in SinkIds \union {NoSink}
  /\ card \in {"absent", "off", "a2dp"}
  /\ playing \in BOOLEAN

-----------------------------------------------------------------------------
(* What the daemon reads off the desktop.                                  *)

DetectBackend(installed) ==
  CASE "wpctl" \in installed -> "WirePlumber"
    [] "wpctl" \notin installed /\ "pactl" \in installed -> "PulseAudio"
    [] OTHER -> "None"

Backend == DetectBackend(tools)

(* A sink is known by the AirPods' address in it, or by "airpods" in its   *)
(* name: a second pair has that too, and a renamed pair has not.           *)
(* `pactl' prints addresses, and `wpctl status' names.                     *)
ByAddress(kind) == kind \in {"airpods", "renamed"}
ByName(kind) == kind \in {"airpods", "twin"}

AirPodsListed == \E id \in SinkIds : ByAddress(node[id])

(* What is_airpods_active_sink() may answer.  Of `wpctl inspect' it reads  *)
(* one line, the node's name (an address) or its description (a name),     *)
(* whichever is printed first.                                             *)
IsAirpodsActiveSink ==
  IF defaultSink = NoSink THEN {FALSE}
  ELSE CASE Backend = "WirePlumber" ->
              {ByAddress(node[defaultSink]), ByName(node[defaultSink])}
         [] Backend = "PulseAudio" -> {ByAddress(node[defaultSink])}
         [] OTHER -> {FALSE}

-----------------------------------------------------------------------------
(* Control flow of the controller.                                         *)

Ended(h) == IF h = "cleanup" THEN "dropped" ELSE "none"

(* Mistake: method and command exchanged. *)
EnterExchanged(h, p) == phase' = h /\ handler' = p

(* Method h goes on with command p, or returns when p is "idle".           *)
Enter(h, p) ==
  /\ phase' = p
  /\ handler' = IF p = "idle" THEN Ended(h) ELSE h

Goto(p) == Enter(handler, p)

(* Mistake: on_ear_detection returns when there is nothing to activate. *)
AlwaysReturn(h) == "idle"

(* on_ear_detection goes on to the resume test after try_activate, whether *)
(* or not the activation worked; on_metadata returns.                      *)
AfterActivation(h) ==
  IF h = "ear" /\ pausedByUs THEN "resume_check" ELSE "idle"

(* The first command of activate_audio.                                    *)
ActivateAudio(h) ==
  CASE Backend = "WirePlumber" ->
         IF sinkCache # NoSink THEN "set_default" ELSE "find_sink"
    [] Backend = "PulseAudio" -> "find_card"
    [] OTHER -> AfterActivation(h)

TryActivate(h) ==
  IF audioActivated THEN AfterActivation(h) ELSE ActivateAudio(h)

(* Mistake: a failed activation is tried again at once. *)
ActivationRetries == Goto(ActivateAudio(handler)) /\ UNCHANGED audioActivated

ActivationFails == Goto(AfterActivation(handler)) /\ UNCHANGED audioActivated

ActivationSucceeds == Goto(AfterActivation(handler)) /\ audioActivated' = TRUE

(* A command fails, or cannot be spawned at all: activate_audio returns    *)
(* Err and try_activate goes on without it.                                *)
CommandFails ==
  /\ ActivationFails
  /\ UNCHANGED <<tools, sinkCache, pausedByUs, inEar, desktopVars>>

OnMetadata ==
  /\ handler = "none"
  /\ Enter("metadata", IF inEar THEN TryActivate("metadata") ELSE "idle")
  /\ UNCHANGED <<controllerVars, desktopVars>>

(* Mistake: pause before audio was ever activated. *)
MayAlwaysPause == TRUE

MayPause == audioActivated

(* Mistake: only the primary pod counts. *)
OnPrimaryDetection(primary, secondary) ==
  /\ handler = "none"
  /\ inEar' = primary
  /\ Enter("ear", IF primary THEN TryActivate("ear")
                  ELSE IF MayPause THEN "pause_check" ELSE "idle")
  /\ UNCHANGED <<tools, sinkCache, audioActivated, pausedByUs, desktopVars>>

OnEarDetection(primary, secondary) ==
  /\ handler = "none"
  /\ inEar' = (primary \/ secondary)
  /\ Enter("ear", IF primary \/ secondary THEN TryActivate("ear")
                  ELSE IF MayPause THEN "pause_check" ELSE "idle")
  /\ UNCHANGED <<tools, sinkCache, audioActivated, pausedByUs, desktopVars>>

Cleanup ==
  /\ handler = "none"
  /\ Enter("cleanup", IF audioActivated /\ Backend = "PulseAudio"
                      THEN "remove_find_card" ELSE "idle")
  /\ UNCHANGED <<controllerVars, desktopVars>>

-----------------------------------------------------------------------------
(* The commands.                                                           *)

(* `wpctl status': the id of some matching sink is remembered, ours or not *)
(* (which one the list has first is the sound server's choice).            *)
WpctlFindSink ==
  /\ phase = "find_sink"
  /\ \/ /\ \E id \in SinkIds : ByName(node[id]) /\ sinkCache' = id
        /\ Goto("set_default")
        /\ UNCHANGED <<tools, audioActivated, pausedByUs, inEar, desktopVars>>
     \/ (Unreliable \/ \A id \in SinkIds : ~ByName(node[id])) /\ CommandFails

(* `wpctl set-default <id>': an id that names no sink is an error.         *)
WpctlSetDefault ==
  /\ phase = "set_default"
  /\ \/ /\ node[sinkCache] # "free"
        /\ defaultSink' = sinkCache
        /\ ActivationSucceeds
        /\ UNCHANGED <<tools, sinkCache, pausedByUs, inEar, node, card, playing>>
     \/ (Unreliable \/ node[sinkCache] = "free") /\ CommandFails

(* `pactl list short cards'.                                               *)
PactlFindCard ==
  /\ phase = "find_card"
  /\ \/ /\ card # "absent"
        /\ Goto("set_profile")
        /\ UNCHANGED <<controllerVars, desktopVars>>
     \/ (Unreliable \/ card = "absent") /\ CommandFails

(* `pactl set-card-profile <card> a2dp-sink' and the 500 ms sleep.         *)
PactlSetProfile ==
  /\ phase = "set_profile"
  /\ \/ /\ card # "absent"
        /\ card' = "a2dp"
        /\ Goto("list_sinks")
        /\ UNCHANGED <<controllerVars, node, defaultSink, playing>>
     \/ (Unreliable \/ card = "absent") /\ CommandFails

(* `pactl list short sinks': no sink of ours in the list is not an error.  *)
PactlListSinks ==
  /\ phase = "list_sinks"
  /\ \/ /\ AirPodsListed
        /\ Goto("set_default_sink")
        /\ UNCHANGED <<controllerVars, desktopVars>>
     \/ /\ ~AirPodsListed
        /\ ActivationSucceeds
        /\ UNCHANGED <<tools, sinkCache, pausedByUs, inEar, desktopVars>>
     \/ Unreliable /\ CommandFails

(* `pactl set-default-sink <name>': the result is ignored.                 *)
PactlSetDefaultSink ==
  /\ phase = "set_default_sink"
  /\ \/ \E id \in SinkIds : ByAddress(node[id]) /\ defaultSink' = id
     \/ (Unreliable \/ ~AirPodsListed) /\ UNCHANGED defaultSink
  /\ ActivationSucceeds
  /\ UNCHANGED <<tools, sinkCache, pausedByUs, inEar, node, card, playing>>

(* is_airpods_active_sink() before play() or pause(); a failing command    *)
(* counts as "no".                                                         *)
ActiveSinkCheck(check, next) ==
  /\ phase = check
  /\ \/ TRUE \in IsAirpodsActiveSink /\ Goto(next)
     \/ (Unreliable \/ FALSE \in IsAirpodsActiveSink) /\ Goto("idle")
  /\ UNCHANGED <<controllerVars, desktopVars>>

ResumeCheck == ActiveSinkCheck("resume_check", "play")
PauseCheck == ActiveSinkCheck("pause_check", "pause")

(* A player command may leave the player as it is: no player, an error.    *)
Ineffective == IF Unreliable THEN {playing} ELSE {}

(* play(): paused_by_us is cleared whatever the command did.               *)
Play ==
  /\ phase = "play"
  /\ playing' \in {TRUE} \union Ineffective
  /\ pausedByUs' = FALSE
  /\ Goto("idle")
  /\ UNCHANGED <<tools, sinkCache, audioActivated, inEar, node, defaultSink, card>>

(* pause() is Err only if playerctl is installed and cannot be spawned; a  *)
(* player that was not playing, and an exit code, are both Ok.             *)
PauseReturns(ok) == ok \/ (Unreliable /\ "playerctl" \in tools)

Pause ==
  /\ phase = "pause"
  /\ \E ok \in BOOLEAN :
       /\ PauseReturns(ok)
       /\ playing' \in IF ok THEN {FALSE} \union Ineffective ELSE {playing}
       /\ pausedByUs' = (pausedByUs \/ ok)
  /\ Goto("idle")
  /\ UNCHANGED <<tools, sinkCache, audioActivated, inEar, node, defaultSink, card>>

-----------------------------------------------------------------------------
(* The sound server.                                                       *)

Present == {id \in SinkIds : node[id] # "free"}

(* The sinks in `gone' disappear; the server picks another default.        *)
Vanish(gone) ==
  /\ node' = [id \in SinkIds |-> IF id \in gone THEN "free" ELSE node[id]]
  /\ defaultSink' \in IF defaultSink \notin gone THEN {defaultSink}
                      ELSE IF Present \subseteq gone THEN {NoSink}
                      ELSE Present \ gone

(* remove_audio_output under PulseAudio: both results are ignored.         *)
RemoveFindCard ==
  /\ phase = "remove_find_card"
  /\ \/ card # "absent" /\ Goto("remove_profile")
     \/ (Unreliable \/ card = "absent") /\ Goto("idle")
  /\ UNCHANGED <<controllerVars, desktopVars>>

RemoveProfile ==
  /\ phase = "remove_profile"
  /\ \/ /\ card # "absent"
        /\ card' = "off"
        /\ Vanish({id \in SinkIds : ByAddress(node[id])})
     \/ /\ Unreliable \/ card = "absent"
        /\ UNCHANGED <<card, node, defaultSink>>
  /\ Goto("idle")
  /\ UNCHANGED <<controllerVars, playing>>

Command ==
  \/ WpctlFindSink \/ WpctlSetDefault
  \/ PactlFindCard \/ PactlSetProfile \/ PactlListSinks \/ PactlSetDefaultSink
  \/ ResumeCheck \/ Play \/ PauseCheck \/ Pause
  \/ RemoveFindCard \/ RemoveProfile

-----------------------------------------------------------------------------
(* The desktop on its own.                                                 *)

DesktopMay(move) ==
  /\ move \in DesktopMoves
  /\ DesktopBusy \/ phase = "idle"

UserTogglesPlayback ==
  /\ DesktopMay("playback")
  /\ playing' = ~playing
  /\ UNCHANGED <<controllerVars, handler, phase, node, defaultSink, card>>

UserSelectsSink ==
  /\ DesktopMay("default")
  /\ defaultSink' \in Present
  /\ UNCHANGED <<controllerVars, handler, phase, node, card, playing>>

(* A new sink takes a free id, maybe one that an earlier sink had, and the *)
(* server may make it the default.  The AirPods have one sink at most,     *)
(* and only while their card is in the A2DP profile.                       *)
SinkAppears ==
  /\ DesktopMay("sink")
  /\ \E id \in SinkIds, kind \in OwnKinds \union OtherKinds :
       /\ node[id] = "free"
       /\ ByAddress(kind) => card = "a2dp" /\ ~AirPodsListed
       /\ node' = [node EXCEPT ![id] = kind]
       /\ defaultSink' \in {defaultSink, id}
  /\ UNCHANGED <<controllerVars, handler, phase, card, playing>>

SinkVanishes ==
  /\ DesktopMay("sink")
  /\ \E id \in Present : Vanish({id})
  /\ UNCHANGED <<controllerVars, handler, phase, card, playing>>

CardChanges ==
  /\ DesktopMay("card")
  /\ ~AirPodsListed
  /\ card' \in {"absent", "off", "a2dp"} \ {card}
  /\ UNCHANGED <<controllerVars, handler, phase, node, defaultSink, playing>>

Desktop == UserTogglesPlayback \/ UserSelectsSink \/ SinkAppears
           \/ SinkVanishes \/ CardChanges

-----------------------------------------------------------------------------
MediaInit ==
  /\ tools \in Toolsets
  /\ sinkCache = NoSink
  /\ audioActivated = FALSE
  /\ pausedByUs = FALSE
  /\ handler = "none"
  /\ phase = "idle"
  /\ inEar = FALSE
  /\ card \in {"absent", "off", "a2dp"}
  /\ node \in [SinkIds -> OwnKinds \union OtherKinds \union {"free"}]
  /\ Cardinality({id \in SinkIds : ByAddress(node[id])}) <= 1
  /\ AirPodsListed => card = "a2dp"
  /\ defaultSink \in IF Present = {} THEN {NoSink} ELSE Present
  /\ playing \in BOOLEAN

(* The receive loop calls the controller: any report, in any order.        *)
Call ==
  \/ OnMetadata /\ ~audioActivated
  \/ \E primary, secondary \in BOOLEAN : OnEarDetection(primary, secondary)
  \/ Cleanup

MediaNext == Call \/ Command \/ Desktop

MediaSafety == MediaInit /\ [][MediaNext]_mediaVars

(* Commands are waited for and return; nobody has to call the controller,  *)
(* and the desktop does not have to do anything.                           *)
MediaSpec == MediaSafety /\ WF_mediaVars(Command)

-----------------------------------------------------------------------------
(* Properties.                                                             *)

(* The controller implements MediaPolicy: audio is routed once and for a   *)
(* wearer, playback is stopped only with both pods out after routing, and  *)
(* restarted only to undo that with a pod back in an ear.                  *)
PolicyMode ==
  CASE ~audioActivated -> "unrouted"
    [] audioActivated /\ pausedByUs -> "paused"
    [] OTHER -> "routed"

Policy == INSTANCE MediaPolicy WITH mode <- PolicyMode

ImplementsPolicy == Policy!PolicySpec

(* The commands of activate_audio.                                         *)
Activation == {"find_sink", "set_default", "find_card", "set_profile",
               "list_sinks", "set_default_sink"}

(* What the controller's methods take for granted when a command returns:  *)
(* audio is activated at most once, and only for a pod in an ear; it is    *)
(* paused by us only after that; play() is reached only with a pod in an   *)
(* ear and something of ours to undo, pause() only with both pods out      *)
(* (EarMediaController, main.rs).                                          *)
ControlFlow ==
  /\ phase = "idle" <=> handler \in {"none", "dropped"}
  /\ phase \in Activation =>
       handler \in {"metadata", "ear"} /\ ~audioActivated /\ inEar
  /\ phase = "set_default" => sinkCache # NoSink
  /\ phase \in {"resume_check", "play"} => handler = "ear" /\ pausedByUs /\ inEar
  /\ phase \in {"pause_check", "pause"} =>
       handler = "ear" /\ audioActivated /\ ~inEar
  /\ phase \in {"remove_find_card", "remove_profile"} => handler = "cleanup"
  /\ pausedByUs => audioActivated

(* After its activation the controller leaves the default output alone, so *)
(* a user who moves audio elsewhere keeps it there (try_activate's         *)
(* "idempotent after first success"); only cleanup may take it away.       *)
RoutesOnce ==
  [][audioActivated /\ handler \in {"metadata", "ear"}
       /\ phase' # phase => defaultSink' = defaultSink]_mediaVars

(* The output is the AirPods' own sink, and not one like it.               *)
DefaultIsAirPods == defaultSink # NoSink /\ ByAddress(node[defaultSink])

(* Nothing on the desktop can be taken for the AirPods but the AirPods,    *)
(* and they are there: under WirePlumber their sink must be one named      *)
(* after AirPods, and the only one.                                        *)
AirPodsFound ==
  /\ AirPodsListed
  /\ Backend # "None"
  /\ Backend = "WirePlumber" =>
       \A id \in SinkIds : ByName(node[id]) <=> ByAddress(node[id])

(* on_ear_detection returns, after a command or without having run any.    *)
EarHandlerEnds ==
  /\ handler' = "none"
  /\ \/ handler = "ear"
     \/ \E primary, secondary \in BOOLEAN : OnEarDetection(primary, secondary)

(* With commands that work, a desktop that keeps still and an AirPods sink *)
(* that can be found, a report with a pod in an ear ends with audio        *)
(* activated, on the sink of these AirPods if it was that report that      *)
(* activated it, and with nothing left paused by us while that sink is the *)
(* output (activate_audio's "set AirPods as default output", media.rs:103, *)
(* and README "automatic play/pause based on ear detection").              *)
WearerIsServed ==
  [][EarHandlerEnds /\ inEar' /\ AirPodsFound =>
       /\ audioActivated'
       /\ ~audioActivated => DefaultIsAirPods'
       /\ DefaultIsAirPods' => ~pausedByUs']_mediaVars

(* Every handler returns, however its commands end, and the receive loop   *)
(* gets the thread back.                                                   *)
HandlersReturn == (phase # "idle") ~> (phase = "idle")

(* "whether we auto-paused" (main.rs:240): paused_by_us is set by a step   *)
(* that stopped the player.                                                *)
PausedByUsMeansWePaused ==
  [][~pausedByUs /\ pausedByUs' => playing /\ ~playing']_mediaVars
=============================================================================
