--------------------------- MODULE EarMediaProofs ---------------------------
(***************************************************************************)
(* Proofs about EarMedia, for every set of tools, sinks and desktop moves: *)
(* its types, the control flow of its controller, that audio is routed     *)
(* once, and that it implements MediaPolicy.  All of these rest on         *)
(* MediaInv, the inductive invariant.  MediaSafety is MediaSpec without    *)
(* its fairness.                                                           *)
(***************************************************************************)
EXTENDS EarMedia, TLAPS

(* The inductive invariant: ControlFlow rules out, phase by phase, the     *)
(* steps that would break the types or the policy.                         *)
MediaInv == MediaTypeOK /\ ControlFlow

(* The backend is one of three, whatever is installed.                     *)
LEMMA BackendType == Backend \in {"WirePlumber", "PulseAudio", "None"}
BY DEF Backend, DetectBackend

(* The initial states satisfy the invariant.                               *)
LEMMA MediaInitInv == ASSUME MediaAssumption, MediaInit PROVE MediaInv
<1>1. MediaTypeOK
  BY DEF MediaAssumption, MediaInit, MediaTypeOK, Phases, Handlers, Kinds, Present
<1>2. ControlFlow
  BY DEF MediaInit, ControlFlow, Activation
<1> QED
  BY <1>1, <1>2 DEF MediaInv

(* Sinks that vanish leave a well-typed sound server.                      *)
LEMMA VanishType ==
  ASSUME MediaTypeOK, NEW gone, Vanish(gone)
  PROVE  /\ node' \in [SinkIds -> Kinds]
         /\ defaultSink' \in SinkIds \union {NoSink}
BY DEF MediaTypeOK, Vanish, Present, Kinds

(* The controller's methods preserve the invariant.                        *)
LEMMA CallInv == ASSUME MediaAssumption, MediaInv, Call PROVE MediaInv'
<1> USE DEF MediaInv, MediaTypeOK, ControlFlow, Activation, controllerVars,
            desktopVars, Enter, Ended, Phases, Handlers
<1>1. CASE OnMetadata /\ ~audioActivated
  BY <1>1, BackendType DEF OnMetadata, TryActivate, ActivateAudio, AfterActivation
<1>2. ASSUME NEW p \in BOOLEAN, NEW s \in BOOLEAN, OnEarDetection(p, s)
      PROVE  MediaInv'
  BY <1>2, BackendType
  DEF OnEarDetection, TryActivate, ActivateAudio, AfterActivation, MayPause
<1>3. CASE Cleanup
  BY <1>3 DEF Cleanup
<1> QED
  BY <1>1, <1>2, <1>3 DEF Call

(* An activation that fails leaves everything as it was and goes on.       *)
LEMMA CommandFailsInv ==
  ASSUME MediaInv, phase \in Activation, CommandFails
  PROVE  MediaInv'
<1>1. /\ phase' \in {"resume_check", "idle"}
      /\ phase' = "resume_check" => handler = "ear" /\ pausedByUs
      /\ handler' = IF phase' = "idle" THEN "none" ELSE handler
  BY DEF CommandFails, ActivationFails, Goto, Enter, Ended, AfterActivation,
         MediaInv, ControlFlow
<1>2. UNCHANGED <<tools, sinkCache, audioActivated, pausedByUs, inEar,
                  node, defaultSink, card, playing>>
  BY DEF CommandFails, ActivationFails, desktopVars
<1> QED
  BY <1>1, <1>2 DEF MediaInv, MediaTypeOK, ControlFlow, Activation, Phases, Handlers

(* So do the commands, whether they work or fail.                          *)
LEMMA CommandInv == ASSUME MediaAssumption, MediaInv, Command PROVE MediaInv'
<1> USE DEF MediaInv, MediaTypeOK, ControlFlow, Activation, Phases, Handlers
<1>a. CASE phase \in Activation /\ CommandFails
  BY <1>a, CommandFailsInv
<1>b. ASSUME phase' \in Activation, phase \in Activation, UNCHANGED handler,
             sinkCache' \in SinkIds \union {NoSink},
             phase' = "set_default" => sinkCache' # NoSink,
             card' \in {"absent", "off", "a2dp"},
             UNCHANGED <<tools, audioActivated, pausedByUs, inEar, node,
                         defaultSink, playing>>
      PROVE  MediaInv'
  BY <1>b
<1>c. ASSUME phase \in Activation, audioActivated' = TRUE,
             handler' = (IF phase' = "idle" THEN "none" ELSE handler),
             phase' \in {"resume_check", "idle"},
             phase' = "resume_check" => handler = "ear" /\ pausedByUs,
             defaultSink' \in SinkIds \union {NoSink},
             UNCHANGED <<tools, sinkCache, pausedByUs, inEar, node, card, playing>>
      PROVE  MediaInv'
  BY <1>c
<1> USE DEF controllerVars, desktopVars, Goto, Enter, Ended, AfterActivation,
            ActivationSucceeds
<1>1. CASE WpctlFindSink
  <2>1. CASE ~CommandFails
    BY <1>1, <1>b, <2>1 DEF WpctlFindSink, MediaAssumption
  <2> QED
    BY <1>1, <1>a, <2>1 DEF WpctlFindSink
<1>2. CASE WpctlSetDefault
  <2>1. CASE ~CommandFails
    BY <1>2, <1>c, <2>1 DEF WpctlSetDefault
  <2> QED
    BY <1>2, <1>a, <2>1 DEF WpctlSetDefault
<1>3. CASE PactlFindCard
  <2>1. CASE ~CommandFails
    BY <1>3, <1>b, <2>1 DEF PactlFindCard
  <2> QED
    BY <1>3, <1>a, <2>1 DEF PactlFindCard
<1>4. CASE PactlSetProfile
  <2>1. CASE ~CommandFails
    BY <1>4, <1>b, <2>1 DEF PactlSetProfile
  <2> QED
    BY <1>4, <1>a, <2>1 DEF PactlSetProfile
<1>5. CASE PactlListSinks
  <2>1. CASE ~CommandFails /\ AirPodsListed
    BY <1>5, <1>b, <2>1 DEF PactlListSinks
  <2>2. CASE ~CommandFails /\ ~AirPodsListed
    BY <1>5, <1>c, <2>2 DEF PactlListSinks
  <2> QED
    BY <1>5, <1>a, <2>1, <2>2 DEF PactlListSinks
<1>6. CASE PactlSetDefaultSink
  BY <1>6 DEF PactlSetDefaultSink
<1>7. CASE ResumeCheck
  BY <1>7 DEF ResumeCheck, ActiveSinkCheck
<1>8. CASE Play
  BY <1>8 DEF Play, Ineffective
<1>9. CASE PauseCheck
  BY <1>9 DEF PauseCheck, ActiveSinkCheck
<1>10. CASE Pause
  BY <1>10 DEF Pause, Ineffective
<1>11. CASE RemoveFindCard
  BY <1>11 DEF RemoveFindCard
<1>12. CASE RemoveProfile
  BY <1>12, VanishType DEF RemoveProfile
<1> QED
  BY <1>1, <1>2, <1>3, <1>4, <1>5, <1>6, <1>7, <1>8, <1>9, <1>10, <1>11, <1>12
  DEF Command

(* And the desktop, which touches none of the controller's variables.      *)
LEMMA DesktopInv == ASSUME MediaAssumption, MediaInv, Desktop PROVE MediaInv'
<1> USE DEF MediaInv, MediaTypeOK, ControlFlow, Activation, controllerVars
<1>1. CASE UserTogglesPlayback
  BY <1>1 DEF UserTogglesPlayback
<1>2. CASE UserSelectsSink
  BY <1>2 DEF UserSelectsSink, Present
<1>3. CASE SinkAppears
  <2>1. PICK id \in SinkIds, kind \in OwnKinds \union OtherKinds :
          /\ node' = [node EXCEPT ![id] = kind]
          /\ defaultSink' \in {defaultSink, id}
    BY <1>3 DEF SinkAppears
  <2>2. kind \in Kinds
    BY DEF MediaAssumption, Kinds
  <2> QED
    BY <1>3, <2>1, <2>2 DEF SinkAppears
<1>4. CASE SinkVanishes
  BY <1>4, VanishType DEF SinkVanishes
<1>5. CASE CardChanges
  BY <1>5 DEF CardChanges
<1> QED
  BY <1>1, <1>2, <1>3, <1>4, <1>5 DEF Desktop

(* And so does a step of other variables.                                  *)
LEMMA MediaStutterInv ==
  ASSUME MediaInv, UNCHANGED mediaVars PROVE MediaInv'
BY DEF MediaInv, MediaTypeOK, ControlFlow, mediaVars, controllerVars, desktopVars

(* Hence every step preserves the invariant.                               *)
LEMMA MediaStepInv ==
  ASSUME MediaAssumption, MediaInv, [MediaNext]_mediaVars PROVE MediaInv'
BY CallInv, CommandInv, DesktopInv, MediaStutterInv DEF MediaNext

-----------------------------------------------------------------------------
(* The variables of EarMedia keep their types, and the controller never    *)
(* runs a command out of place (main.rs EarMediaController).               *)
THEOREM MediaInvariant == MediaSafety => []MediaInv
<1>1. MediaInit => MediaInv
  BY MediaInitInv, MediaAssumption
<1>2. MediaInv /\ [MediaNext]_mediaVars => MediaInv'
  BY MediaStepInv, MediaAssumption
<1> QED
  BY <1>1, <1>2, PTL DEF MediaSafety

(* The flags of EarMediaController, the cached sink id and what the        *)
(* desktop has keep their types (media.rs wpctl_sink_id: no id, or one     *)
(* the sound server has given).                                            *)
THEOREM MediaTypes == MediaSafety => []MediaTypeOK
<1>1. MediaInv => MediaTypeOK
  BY DEF MediaInv
<1> QED
  BY <1>1, MediaInvariant, PTL

(* The control flow of EarMediaController: play, pause and the activation  *)
(* commands are run only where MediaPolicy allows their effect.            *)
THEOREM MediaControlFlow == MediaSafety => []ControlFlow
<1>1. MediaInv => ControlFlow
  BY DEF MediaInv
<1> QED
  BY <1>1, MediaInvariant, PTL

-----------------------------------------------------------------------------
(* The default output is touched by the commands of an activation and of   *)
(* cleanup, and by nothing else the controller does.                       *)
LEMMA RoutesOnceStep ==
  ASSUME MediaInv, [MediaNext]_mediaVars,
         audioActivated, handler \in {"metadata", "ear"}, phase' # phase
  PROVE  defaultSink' = defaultSink
<1> USE DEF MediaInv, ControlFlow, Activation, desktopVars
<1>1. CASE Call
  BY <1>1 DEF Call, OnMetadata, OnEarDetection, Cleanup
<1>2. CASE Command
  BY <1>2 DEF Command, WpctlFindSink, WpctlSetDefault, PactlFindCard,
     PactlSetProfile, PactlListSinks, PactlSetDefaultSink, ResumeCheck,
     PauseCheck, ActiveSinkCheck, Play, Pause, RemoveFindCard, RemoveProfile
<1>3. CASE Desktop
  BY <1>3 DEF Desktop, UserTogglesPlayback, UserSelectsSink, SinkAppears,
     SinkVanishes, CardChanges
<1> QED
  BY <1>1, <1>2, <1>3 DEF MediaNext, mediaVars

(* Once activated, the controller never moves the default output again     *)
(* (try_activate is idempotent), whatever sinks and cards come and go.     *)
THEOREM RoutesOnceHolds == MediaSafety => RoutesOnce
<1>1. MediaInv /\ [MediaNext]_mediaVars =>
        [audioActivated /\ handler \in {"metadata", "ear"}
           /\ phase' # phase => defaultSink' = defaultSink]_mediaVars
  BY RoutesOnceStep
<1> QED
  BY <1>1, MediaInvariant, PTL DEF MediaSafety, RoutesOnce

-----------------------------------------------------------------------------
(* The mode MediaPolicy sees depends on the two flags only.                *)
LEMMA ModeUnchanged ==
  ASSUME UNCHANGED <<audioActivated, pausedByUs>> PROVE PolicyMode' = PolicyMode
BY DEF PolicyMode

(* A call of the controller does no more than report where the pods are.   *)
LEMMA PolicyCall ==
  ASSUME MediaInv, Call PROVE [Policy!PolicyNext]_Policy!policyVars
<1> USE ModeUnchanged DEF controllerVars, desktopVars, Policy!policyVars
<1>1. CASE OnMetadata /\ ~audioActivated
  BY <1>1 DEF OnMetadata
<1>2. ASSUME NEW p \in BOOLEAN, NEW s \in BOOLEAN, OnEarDetection(p, s)
      PROVE  Policy!Report
  BY <1>2 DEF OnEarDetection, Policy!Report
<1>3. CASE Cleanup
  BY <1>3 DEF Cleanup
<1> QED
  BY <1>1, <1>2, <1>3 DEF Call, Policy!PolicyNext

(* An activation that works is the policy's Route; a pause that returns Ok *)
(* its AutoPause; a play its AutoResume; every other command a stutter.    *)
LEMMA PolicyCommand ==
  ASSUME MediaInv, Command PROVE [Policy!PolicyNext]_Policy!policyVars
<1> USE ModeUnchanged
    DEF controllerVars, desktopVars, Policy!policyVars, MediaInv, ControlFlow,
        Activation
<1>a. ASSUME ~audioActivated, audioActivated', inEar,
             UNCHANGED <<pausedByUs, inEar, playing>>
      PROVE  Policy!Route
  BY <1>a DEF Policy!Route, PolicyMode
<1>b. ASSUME UNCHANGED <<audioActivated, pausedByUs, inEar, playing>>
      PROVE  UNCHANGED Policy!policyVars
  BY <1>b
<1>1. CASE WpctlFindSink
  BY <1>1, <1>b DEF WpctlFindSink, CommandFails, ActivationFails
<1>2. CASE WpctlSetDefault
  BY <1>2, <1>a, <1>b DEF WpctlSetDefault, CommandFails, ActivationFails,
     ActivationSucceeds, Policy!PolicyNext
<1>3. CASE PactlFindCard
  BY <1>3, <1>b DEF PactlFindCard, CommandFails, ActivationFails
<1>4. CASE PactlSetProfile
  BY <1>4, <1>b DEF PactlSetProfile, CommandFails, ActivationFails,
     ActivationSucceeds
<1>5. CASE PactlListSinks
  BY <1>5, <1>a, <1>b DEF PactlListSinks, CommandFails, ActivationFails,
     ActivationSucceeds, Policy!PolicyNext
<1>6. CASE PactlSetDefaultSink
  BY <1>6, <1>a DEF PactlSetDefaultSink, ActivationSucceeds, Policy!PolicyNext
<1>7. CASE ResumeCheck \/ PauseCheck
  BY <1>7, <1>b DEF ResumeCheck, PauseCheck, ActiveSinkCheck
<1>8. CASE Play
  BY <1>8 DEF Play, Ineffective, PolicyMode, Policy!AutoResume, Policy!PolicyNext
<1>9. CASE Pause
  <2>1. PICK ok \in BOOLEAN :
          /\ playing' \in IF ok THEN {FALSE} \union Ineffective ELSE {playing}
          /\ pausedByUs' = (pausedByUs \/ ok)
    BY <1>9 DEF Pause
  <2>2. CASE ok
    BY <1>9, <2>1, <2>2
    DEF Pause, Ineffective, PolicyMode, Policy!AutoPause, Policy!PolicyNext
  <2>3. CASE ~ok
    BY <1>9, <1>b, <2>1, <2>3 DEF Pause, MediaTypeOK
  <2> QED
    BY <2>2, <2>3
<1>10. CASE RemoveFindCard \/ RemoveProfile
  BY <1>10, <1>b DEF RemoveFindCard, RemoveProfile
<1> QED
  BY <1>1, <1>2, <1>3, <1>4, <1>5, <1>6, <1>7, <1>8, <1>9, <1>10 DEF Command

(* The desktop is the user of the policy, or a stutter.                    *)
LEMMA PolicyDesktop ==
  ASSUME Desktop PROVE [Policy!PolicyNext]_Policy!policyVars
<1> USE ModeUnchanged DEF controllerVars, Policy!policyVars
<1>1. CASE UserTogglesPlayback
  BY <1>1 DEF UserTogglesPlayback, Policy!UserPlayback, Policy!PolicyNext
<1>2. CASE UserSelectsSink \/ SinkAppears \/ SinkVanishes \/ CardChanges
  BY <1>2 DEF UserSelectsSink, SinkAppears, SinkVanishes, CardChanges
<1> QED
  BY <1>1, <1>2 DEF Desktop

(* Every step is one of the policy's, or a stutter.                        *)
LEMMA PolicyStep ==
  ASSUME MediaInv, [MediaNext]_mediaVars
  PROVE  [Policy!PolicyNext]_Policy!policyVars
<1>1. CASE UNCHANGED mediaVars
  BY <1>1, ModeUnchanged DEF mediaVars, controllerVars, desktopVars, Policy!policyVars
<1> QED
  BY <1>1, PolicyCall, PolicyCommand, PolicyDesktop DEF MediaNext

(* EarMediaController over LinuxMediaControl implements MediaPolicy: every *)
(* run, with any tools installed, any sinks and a desktop that interferes  *)
(* between two commands, is a run of the policy.                           *)
THEOREM MediaImplementsPolicy == MediaSafety => ImplementsPolicy
<1>1. MediaInit => Policy!PolicyInit
  BY DEF MediaInit, Policy!PolicyInit, PolicyMode
<1>2. MediaInv /\ [MediaNext]_mediaVars => [Policy!PolicyNext]_Policy!policyVars
  BY PolicyStep
<1> QED
  BY <1>1, <1>2, MediaInvariant, PTL
  DEF MediaSafety, ImplementsPolicy, Policy!PolicySpec

-----------------------------------------------------------------------------
(* What makes an activation succeed when it is begun: each command belongs *)
(* to the backend that runs it, the AirPods' sink comes with its card, and *)
(* a cached sink id is one just looked up, or is not needed any more.      *)
ActivationWorks ==
  /\ phase \in {"find_sink", "set_default"} => Backend = "WirePlumber"
  /\ phase \in {"find_card", "set_profile", "list_sinks", "set_default_sink"} =>
       Backend = "PulseAudio"
  /\ AirPodsListed => card = "a2dp"
  /\ phase = "set_default" => ByName(node[sinkCache])
  /\ sinkCache # NoSink /\ ~audioActivated => phase = "set_default"

LEMMA ActivationCall ==
  ASSUME ActivationWorks, MediaInv, Call PROVE ActivationWorks'
<1> USE BackendType DEF ActivationWorks, controllerVars, desktopVars, Enter, Backend,
    AirPodsListed
<1>1. CASE OnMetadata
  BY <1>1 DEF OnMetadata, TryActivate, ActivateAudio, AfterActivation, MediaInv, ControlFlow
<1>2. ASSUME NEW p \in BOOLEAN, NEW s \in BOOLEAN, OnEarDetection(p, s)
      PROVE  ActivationWorks'
  BY <1>2 DEF OnEarDetection, TryActivate, ActivateAudio, AfterActivation, MediaInv, ControlFlow
<1>3. CASE Cleanup
  BY <1>3 DEF Cleanup, MediaInv, ControlFlow
<1> QED
  BY <1>1, <1>2, <1>3 DEF Call

LEMMA ActivationCommand ==
  ASSUME ~Unreliable, ActivationWorks, MediaInv, Command PROVE ActivationWorks'
<1> USE DEF ActivationWorks, MediaInv, ControlFlow, Activation, controllerVars,
            desktopVars, Backend, AirPodsListed, Goto, Enter, AfterActivation,
            CommandFails, ActivationFails, ActivationSucceeds, ByName
<1>1. CASE WpctlFindSink
  BY <1>1 DEF WpctlFindSink
<1>2. CASE WpctlSetDefault
  BY <1>2 DEF WpctlSetDefault
<1>3. CASE PactlFindCard
  BY <1>3 DEF PactlFindCard
<1>4. CASE PactlSetProfile
  BY <1>4 DEF PactlSetProfile
<1>5. CASE PactlListSinks
  BY <1>5 DEF PactlListSinks
<1>6. CASE PactlSetDefaultSink
  BY <1>6 DEF PactlSetDefaultSink
<1>7. CASE ResumeCheck \/ PauseCheck
  BY <1>7 DEF ResumeCheck, PauseCheck, ActiveSinkCheck
<1>8. CASE Play \/ Pause
  BY <1>8 DEF Play, Pause
<1>9. CASE RemoveFindCard
  BY <1>9 DEF RemoveFindCard
<1>10. CASE RemoveProfile
  BY <1>10 DEF RemoveProfile, Vanish, ByAddress
<1> QED
  BY <1>1, <1>2, <1>3, <1>4, <1>5, <1>6, <1>7, <1>8, <1>9, <1>10 DEF Command

LEMMA ActivationDesktop ==
  ASSUME ~DesktopBusy, ActivationWorks, MediaInv, Desktop PROVE ActivationWorks'
<1> USE DEF ActivationWorks, controllerVars, Backend, AirPodsListed, DesktopMay
<1>1. CASE UserTogglesPlayback \/ UserSelectsSink
  BY <1>1 DEF UserTogglesPlayback, UserSelectsSink
<1>2. CASE SinkAppears
  <2>1. PICK id \in SinkIds, kind \in OwnKinds \union OtherKinds :
          /\ ByAddress(kind) => card = "a2dp"
          /\ node' = [node EXCEPT ![id] = kind]
    BY <1>2 DEF SinkAppears
  <2>2. (AirPodsListed)' => AirPodsListed \/ ByAddress(kind)
    BY <2>1 DEF MediaInv, MediaTypeOK
  <2> QED
    BY <1>2, <2>1, <2>2 DEF SinkAppears
<1>3. CASE SinkVanishes
  BY <1>3 DEF SinkVanishes, Vanish, ByAddress
<1>4. CASE CardChanges
  BY <1>4 DEF CardChanges
<1> QED
  BY <1>1, <1>2, <1>3, <1>4 DEF Desktop

LEMMA ActivationInvariant ==
  ASSUME ~DesktopBusy, ~Unreliable PROVE MediaSafety => [](MediaInv /\ ActivationWorks)
<1>1. MediaInit => ActivationWorks
  BY DEF MediaInit, ActivationWorks
<1>2. MediaInv /\ ActivationWorks /\ [MediaNext]_mediaVars => ActivationWorks'
  <2>1. ActivationWorks /\ UNCHANGED mediaVars => ActivationWorks'
    BY DEF ActivationWorks, mediaVars, controllerVars, desktopVars, Backend, AirPodsListed
  <2> QED
    BY <2>1, ActivationCall, ActivationCommand, ActivationDesktop DEF MediaNext
<1> QED
  BY <1>1, <1>2, MediaInvariant, PTL DEF MediaSafety

(* A command with which on_ear_detection returns to a wearer.              *)
LEMMA ServedByCommand ==
  ASSUME ~Unreliable, MediaInv, ActivationWorks, Command,
         handler = "ear", handler' = "none", inEar', AirPodsFound
  PROVE  /\ audioActivated'
         /\ ~audioActivated => DefaultIsAirPods'
         /\ DefaultIsAirPods' => ~pausedByUs'
<1> USE DEF MediaInv, ControlFlow, Activation, controllerVars, desktopVars, Goto,
            Enter, Ended, AfterActivation, CommandFails, ActivationFails,
            ActivationSucceeds, ActivationWorks, Backend, AirPodsFound
<1>1. CASE WpctlFindSink
  BY <1>1 DEF WpctlFindSink, AirPodsListed
<1>2. CASE WpctlSetDefault
  <2>1. /\ sinkCache \in SinkIds /\ sinkCache # NoSink
        /\ ByAddress(node[sinkCache])
    BY <1>2 DEF WpctlSetDefault, MediaTypeOK
  <2>2. node[sinkCache] # "free"
    BY <2>1 DEF ByAddress
  <2> QED
    BY <1>2, <2>1, <2>2 DEF WpctlSetDefault, DefaultIsAirPods
<1>3. CASE PactlFindCard \/ PactlSetProfile \/ PactlListSinks
  BY <1>3 DEF PactlFindCard, PactlSetProfile, PactlListSinks
<1>4. CASE PactlSetDefaultSink
  <2>1. PICK id \in SinkIds : ByAddress(node[id]) /\ defaultSink' = id
    BY <1>4 DEF PactlSetDefaultSink
  <2>2. id # NoSink
    BY MediaAssumption DEF MediaAssumption
  <2> QED
    BY <1>4, <2>1, <2>2 DEF PactlSetDefaultSink, DefaultIsAirPods
<1>5. CASE ResumeCheck
  <2>1. UNCHANGED <<node, defaultSink, tools, audioActivated>> /\ audioActivated
    BY <1>5 DEF ResumeCheck, ActiveSinkCheck
  <2>2. ASSUME DefaultIsAirPods PROVE FALSE \notin IsAirpodsActiveSink
    BY <2>2, BackendType DEF DefaultIsAirPods, IsAirpodsActiveSink, MediaTypeOK
  <2>3. FALSE \in IsAirpodsActiveSink
    BY <1>5 DEF ResumeCheck, ActiveSinkCheck
  <2> QED
    BY <2>1, <2>2, <2>3 DEF DefaultIsAirPods
<1>6. CASE Play
  BY <1>6 DEF Play
<1>7. CASE PauseCheck \/ Pause \/ RemoveFindCard \/ RemoveProfile
  BY <1>7 DEF PauseCheck, Pause, ActiveSinkCheck, RemoveFindCard, RemoveProfile
<1> QED
  BY <1>1, <1>2, <1>3, <1>4, <1>5, <1>6, <1>7 DEF Command

(* A report that needs no command: nothing is left to do.                  *)
LEMMA ServedAtOnce ==
  ASSUME MediaInv, NEW p \in BOOLEAN, NEW s \in BOOLEAN, OnEarDetection(p, s),
         handler' = "none", inEar', Backend # "None"
  PROVE  audioActivated /\ audioActivated' /\ ~pausedByUs'
BY BackendType
DEF OnEarDetection, Enter, Ended, TryActivate, ActivateAudio, AfterActivation,
    MediaInv, ControlFlow

(* A report with a pod in an ear ends with audio activated, on the sink of *)
(* these AirPods if that report activated it, and with nothing left paused *)
(* by us while they are the output: with commands that work, a desktop     *)
(* that keeps still and a sink that nothing is mistaken for there is no    *)
(* way through the commands of either backend on which the wearer is       *)
(* forgotten (try_activate and maybe_resume, main.rs).                     *)
THEOREM WearersAreServed ==
  ASSUME ~DesktopBusy, ~Unreliable PROVE MediaSafety => WearerIsServed
<1>1. MediaInv /\ ActivationWorks /\ [MediaNext]_mediaVars =>
        [EarHandlerEnds /\ inEar' /\ AirPodsFound =>
           /\ audioActivated'
           /\ ~audioActivated => DefaultIsAirPods'
           /\ DefaultIsAirPods' => ~pausedByUs']_mediaVars
  <2> SUFFICES ASSUME MediaInv, ActivationWorks, MediaNext, EarHandlerEnds, inEar',
                      AirPodsFound
               PROVE  /\ audioActivated'
                      /\ ~audioActivated => DefaultIsAirPods'
                      /\ DefaultIsAirPods' => ~pausedByUs'
    OBVIOUS
  <2>1. CASE \E primary, secondary \in BOOLEAN : OnEarDetection(primary, secondary)
    BY <2>1, ServedAtOnce DEF EarHandlerEnds, AirPodsFound
  <2>2. CASE handler = "ear" /\ handler' = "none"
    <3>1. ~Call
      BY <2>2 DEF Call, OnMetadata, OnEarDetection, Cleanup
    <3>2. ~Desktop
      BY <2>2 DEF Desktop, DesktopMay, UserTogglesPlayback, UserSelectsSink,
                  SinkAppears, SinkVanishes, CardChanges
    <3> QED
      BY <2>2, <3>1, <3>2, ServedByCommand DEF MediaNext
  <2> QED
    BY <2>1, <2>2 DEF EarHandlerEnds
<1> QED
  BY <1>1, ActivationInvariant, PTL DEF MediaSafety, WearerIsServed
=============================================================================
