------------------------------- MODULE Session -------------------------------
(***************************************************************************)
(* One connection: run_connection (librepods-cli/src/main.rs) over an      *)
(* L2CAP socket (librepods-linux/src/l2cap.rs), with the audio controller  *)
(* of EarMedia, talking to a pair of AirPods.                              *)
(*                                                                         *)
(* The thread sends the three handshake packets, each after one received   *)
(* packet, and then applies every packet to the state and calls the        *)
(* controller; it receives nothing while a controller command runs.  The   *)
(* AirPods are an external device, modelled from what the code expects:    *)
(* they take commands in order, acknowledge the first two, and from the    *)
(* third on report each aspect of themselves that changed.                 *)
(***************************************************************************)
EXTENDS EarMedia, DeviceState

CONSTANTS
  MediaOptions,  \* with (TRUE) or without (--no-media) the controller
  Worlds,        \* what the AirPods' own state may be
  Reported,      \* the aspects they report
  Extras,        \* packets that carry no aspect and may come at any time
  Chatty,        \* do they send before they are subscribed to?
  MaxInbox       \* bound on the reports waiting in the socket

Aspects == {"battery", "ear", "noise", "ca", "onebud", "metadata", "keys"}

ASSUME SessionAssumption ==
  /\ MediaOptions \subseteq BOOLEAN
  /\ Worlds \subseteq [deviceName: Texts, modelNumber: Texts,
                       manufacturer: Texts, model: Models,
                       battery: Batteries, noiseControl: NoiseModes,
                       conversationalAwareness: BOOLEAN,
                       primaryInEar: BOOLEAN, secondaryInEar: BOOLEAN,
                       oneBudAnc: BOOLEAN, irk: Keys, encKey: Keys]
  /\ \A w \in Worlds : w.model = ModelFromNumber(w.modelNumber)
  /\ Reported \subseteq Aspects
  /\ Extras \subseteq OtherPackets
  /\ Chatty \in BOOLEAN
  /\ MaxInbox \in Nat

VARIABLES
  pc,         \* where run_connection is
  hasMedia,   \* was it given a LinuxMediaControl?
  st,         \* the DeviceState
  connected,  \* L2capLinux::connected
  link,       \* the L2CAP channel itself
  outbox,     \* packets on their way to the AirPods
  inbox,      \* packets in the socket's receive queue
  stage,      \* how far the AirPods are in the handshake
  dev,        \* the AirPods' own state
  unsent      \* aspects they have yet to report

hostVars == <<pc, hasMedia, st, connected>>
wireVars == <<link, outbox, inbox>>
deviceVars == <<stage, dev, unsent>>
sessionVars == <<hostVars, wireVars, deviceVars>>
vars == <<sessionVars, mediaVars>>

Commands == {"HANDSHAKE", "SET_SPECIFIC_FEATURES", "REQUEST_NOTIFICATIONS"}

SessionTypeOK ==
  /\ pc \in {"start", "await_handshake_ack", "await_features_ack",
             "receive_loop", "failed", "done"}
  /\ hasMedia \in MediaOptions
  /\ st \in States
  /\ connected \in BOOLEAN
  /\ link \in {"up", "down"}
  /\ outbox \in Seq(Commands)
  /\ inbox \in Seq(Packets)
  /\ stage \in {"fresh", "acked", "featured", "subscribed"}
  /\ dev \in Worlds
  /\ unsent \subseteq Reported

-----------------------------------------------------------------------------
(* The AirPods (external).                                                 *)

(* What a state says about one aspect.                                     *)
Aspect(s, a) ==
  CASE a = "battery" -> <<s.battery>>
    [] a = "ear" -> <<s.primaryInEar, s.secondaryInEar>>
    [] a = "noise" -> <<s.noiseControl>>
    [] a = "ca" -> <<s.conversationalAwareness>>
    [] a = "onebud" -> <<s.oneBudAnc>>
    [] a = "metadata" ->
         <<s.deviceName, s.modelNumber, s.manufacturer, s.model>>
    [] a = "keys" -> <<s.irk, s.encKey>>

KeyEntry(type, whole, data) == [type |-> type, whole |-> whole, data |-> data]

(* The packets that report aspect a of state s.  Keys come as magic cloud  *)
(* keys, or as proximity keys with an entry of another length among them.  *)
ReportsOf(s, a) ==
  CASE a = "battery" -> {[t |-> "Battery", info |-> s.battery]}
    [] a = "ear" -> {[t |-> "EarDetection", primary |-> s.primaryInEar,
                      secondary |-> s.secondaryInEar]}
    [] a = "noise" -> {[t |-> "NoiseControl", mode |-> s.noiseControl]}
    [] a = "ca" -> {[t |-> "ControlCommand", id |-> "ConversationDetectConfig",
                     on |-> s.conversationalAwareness]}
    [] a = "onebud" -> {[t |-> "ControlCommand", id |-> "OneBudAncMode",
                         on |-> s.oneBudAnc]}
    [] a = "metadata" -> {[t |-> "Metadata", name |-> s.deviceName,
                           modelNumber |-> s.modelNumber,
                           manufacturer |-> s.manufacturer]}
    [] a = "keys" -> {[t |-> "MagicCloudKeys", irk |-> s.irk, encKey |-> s.encKey],
                      [t |-> "ProximityKeys",
                       keys |-> <<KeyEntry("EncKey", TRUE, s.encKey),
                                  KeyEntry("Irk", TRUE, s.irk),
                                  KeyEntry("EncKey", FALSE, s.irk)>>]}

(* The aspect a packet is about.                                           *)
About(p) ==
  CASE p.t = "Battery" -> "battery"
    [] p.t = "EarDetection" -> "ear"
    [] p.t = "NoiseControl" -> "noise"
    [] p.t = "ControlCommand" /\ p.id = "ConversationDetectConfig" -> "ca"
    [] p.t = "ControlCommand" /\ p.id = "OneBudAncMode" -> "onebud"
    [] p.t = "Metadata" -> "metadata"
    [] p.t \in {"ProximityKeys", "MagicCloudKeys"} -> "keys"
    [] OTHER -> "none"

DeviceMaySend ==
  /\ link = "up"
  /\ Chatty \/ stage = "subscribed"
  /\ Len(inbox) < MaxInbox

(* A command out of order is silently ignored.                             *)
DeviceTakes ==
  /\ link = "up"
  /\ outbox # <<>>
  /\ outbox' = Tail(outbox)
  /\ \/ /\ Head(outbox) = "HANDSHAKE" /\ stage = "fresh"
        /\ stage' = "acked"
        /\ inbox' = Append(inbox, [t |-> "HandshakeAck"])
        /\ UNCHANGED unsent
     \/ /\ Head(outbox) = "SET_SPECIFIC_FEATURES" /\ stage = "acked"
        /\ stage' = "featured"
        /\ inbox' = Append(inbox, [t |-> "FeaturesAck"])
        /\ UNCHANGED unsent
     \/ /\ Head(outbox) = "REQUEST_NOTIFICATIONS" /\ stage = "featured"
        /\ stage' = "subscribed"
        /\ unsent' = Reported
        /\ UNCHANGED inbox
     \/ /\ <<Head(outbox), stage>> \notin {<<"HANDSHAKE", "fresh">>,
             <<"SET_SPECIFIC_FEATURES", "acked">>,
             <<"REQUEST_NOTIFICATIONS", "featured">>}
        /\ UNCHANGED <<stage, inbox, unsent>>
  /\ UNCHANGED <<hostVars, link, dev, mediaVars>>

DeviceReports ==
  /\ DeviceMaySend
  /\ \E a \in unsent :
       /\ \E p \in ReportsOf(dev, a) : inbox' = Append(inbox, p)
       /\ unsent' = unsent \ {a}
  /\ UNCHANGED <<hostVars, link, outbox, stage, dev, mediaVars>>

DeviceSendsExtra ==
  /\ DeviceMaySend
  /\ \E p \in Extras : inbox' = Append(inbox, p)
  /\ UNCHANGED <<hostVars, link, outbox, deviceVars, mediaVars>>

(* The wearer moves a pod, a battery drains, a stem is pressed...          *)
DeviceChanges ==
  /\ dev' \in Worlds
  /\ unsent' = unsent \union
               {a \in Reported : Aspect(dev', a) # Aspect(dev, a)}
  /\ UNCHANGED <<hostVars, wireVars, stage, mediaVars>>

LinkDrops ==
  /\ link = "up"
  /\ link' = "down"
  /\ UNCHANGED <<hostVars, outbox, inbox, deviceVars, mediaVars>>

-----------------------------------------------------------------------------
(* The socket.                                                             *)

(* send(): an Err once the channel is down.                                *)
SendOk == connected /\ link = "up"

(* recv() returns the first packet waiting.                                *)
Incoming == Head(inbox)
RecvOk == connected /\ inbox # <<>> /\ inbox' = Tail(inbox)

(* recv() fails: a zero read once the queue is empty clears `connected', a *)
(* read error, which may overtake queued packets, does not.                *)
RecvFails ==
  /\ link = "down"
  /\ \/ inbox = <<>> /\ connected' = FALSE
     \/ UNCHANGED connected
  /\ UNCHANGED <<hasMedia, st, wireVars, deviceVars>>

-----------------------------------------------------------------------------
(* run_connection.                                                         *)

(* Send command c and go on, or return the error.                          *)
SendThen(c, next) ==
  \/ /\ SendOk
     /\ outbox' = Append(outbox, c)
     /\ pc' = next
  \/ /\ ~SendOk
     /\ pc' = "failed"
     /\ UNCHANGED outbox

SendHandshake ==
  /\ pc = "start"
  /\ SendThen("HANDSHAKE", "await_handshake_ack")
  /\ UNCHANGED <<hasMedia, st, connected, link, inbox, deviceVars, mediaVars>>

(* Any packet that parses stands for the awaited acknowledgement; it is    *)
(* not applied to the state.                                               *)
HandshakeReply(at, c, next) ==
  /\ pc = at
  /\ RecvOk
  /\ IF Incoming.t = "ParseError" THEN pc' = "failed" /\ UNCHANGED outbox
                                  ELSE SendThen(c, next)
  /\ UNCHANGED <<hasMedia, st, connected, link, deviceVars, mediaVars>>

(* Mistake: the second handshake packet is skipped. *)
SkipsFeatures ==
  HandshakeReply("await_handshake_ack", "REQUEST_NOTIFICATIONS",
                 "await_features_ack")

HandshakeAck ==
  HandshakeReply("await_handshake_ack", "SET_SPECIFIC_FEATURES",
                 "await_features_ack")

FeaturesAck ==
  HandshakeReply("await_features_ack", "REQUEST_NOTIFICATIONS", "receive_loop")

(* Mistake: a failing recv() is tried again. *)
HandshakeRetries ==
  /\ pc \in {"await_handshake_ack", "await_features_ack"}
  /\ RecvFails
  /\ UNCHANGED <<pc, mediaVars>>

HandshakeFails ==
  /\ pc \in {"await_handshake_ack", "await_features_ack"}
  /\ RecvFails
  /\ pc' = "failed"
  /\ UNCHANGED mediaVars

IsFirstMetadata(p) == p.t = "Metadata" /\ hasMedia /\ ~audioActivated

(* The controller is called after the state has changed.                   *)
CallController(p) ==
  IF IsFirstMetadata(p) THEN OnMetadata
  ELSE IF p.t = "EarDetection" /\ hasMedia
    THEN OnEarDetection(p.primary, p.secondary)
    ELSE UNCHANGED mediaVars

Receive ==
  /\ pc = "receive_loop"
  /\ phase = "idle"
  /\ RecvOk
  /\ st' = ApplyToState(st, Incoming)
  /\ CallController(Incoming)
  /\ UNCHANGED <<pc, hasMedia, connected, link, outbox, deviceVars>>

(* Mistakes: the receive loop ends with an early return, without cleanup,  *)
(* or by forgetting what the controller did.                               *)
ReceiveReturns ==
  /\ pc = "receive_loop" /\ phase = "idle"
  /\ RecvFails
  /\ pc' = "failed"
  /\ UNCHANGED mediaVars

ReceiveSkipsCleanup ==
  /\ pc = "receive_loop" /\ phase = "idle"
  /\ RecvFails
  /\ pc' = "done"
  /\ UNCHANGED mediaVars

ReceiveForgets ==
  /\ pc = "receive_loop" /\ phase = "idle"
  /\ RecvFails
  /\ pc' = "done"
  /\ audioActivated' = FALSE /\ pausedByUs' = FALSE
  /\ UNCHANGED <<tools, sinkCache, inEar, handler, phase, desktopVars>>

(* Leaving the loop always runs the controller's cleanup.                  *)
ReceiveFails ==
  /\ pc = "receive_loop"
  /\ phase = "idle"
  /\ RecvFails
  /\ pc' = "done"
  /\ IF hasMedia THEN Cleanup ELSE UNCHANGED mediaVars

ControllerStep == Command /\ UNCHANGED sessionVars
DesktopStep == Desktop /\ UNCHANGED sessionVars

Host == \/ SendHandshake \/ HandshakeAck \/ FeaturesAck \/ HandshakeFails
        \/ Receive \/ ReceiveFails \/ ControllerStep

AirPods == DeviceTakes \/ DeviceReports \/ DeviceSendsExtra \/ DeviceChanges

Init ==
  /\ MediaInit
  /\ pc = "start"
  /\ hasMedia \in MediaOptions
  /\ st = DefaultState
  /\ connected = TRUE
  /\ link = "up"
  /\ outbox = <<>>
  /\ inbox = <<>>
  /\ stage = "fresh"
  /\ dev \in Worlds
  /\ unsent = Reported

Next == Host \/ AirPods \/ LinkDrops \/ DesktopStep

(* The thread runs whenever it can, its commands return, and AirPods in    *)
(* range take the commands they are sent.                                  *)
Fairness == WF_vars(Host) /\ WF_vars(DeviceTakes)

Safety == Init /\ [][Next]_vars

Spec == Safety /\ Fairness

-----------------------------------------------------------------------------
(* Properties.                                                             *)

IsSubscribed == pc = "receive_loop" /\ stage = "subscribed"

(* The AirPods are subscribed to only by a thread in its receive loop: the *)
(* third handshake packet is on its way to them no sooner.                 *)
SubscribedInLoop ==
  pc \notin {"receive_loop", "done"} =>
    /\ stage # "subscribed"
    /\ \A i \in DOMAIN outbox : outbox[i] # "REQUEST_NOTIFICATIONS"

(* Nothing the AirPods reported is lost or overtaken on its way into the   *)
(* DeviceState: an aspect they have reported is either up to date in it or *)
(* the last packet about it that still waits will bring it up to date      *)
(* (run_connection's loop and apply_to_state, with every packet swallowed  *)
(* by the handshake).                                                      *)
Mirrors(a) ==
  \/ /\ \A i \in DOMAIN inbox : About(inbox[i]) # a
     /\ Aspect(st, a) = Aspect(dev, a)
  \/ \E i \in DOMAIN inbox :
       /\ inbox[i] \in ReportsOf(dev, a)
       /\ \A j \in DOMAIN inbox : j > i => About(inbox[j]) # a

Mirror == IsSubscribed => \A a \in Reported \ unsent : Mirrors(a)

(* The controller acts on the ear status of the DeviceState, and on none   *)
(* other: what it was last told is what any_pod_in_ear() says.             *)
ControllerSeesState == inEar = (hasMedia /\ AnyPodInEar(st))

(* Nothing is routed, played or paused outside the receive loop: before    *)
(* the handshake is over the controller does not run, and after a failed   *)
(* one there is nothing to clean up.                                       *)
QuietOutsideLoop ==
  pc \notin {"receive_loop", "done"} =>
    ~audioActivated /\ ~pausedByUs /\ phase = "idle" /\ handler = "none"

(* run_connection calls the controller only as EarMedia lets it be called, *)
(* so what EarMedia promises holds of a session.                           *)
UsesController == MediaSafety

(* A lost link ends the session, and a controller is cleaned up first      *)
(* ("Cleanup", main.rs run_connection).                                    *)
LinkLossEnds ==
  (link = "down") ~>
    /\ pc \in {"failed", "done"}
    /\ phase = "idle"
    /\ pc = "done" /\ hasMedia => handler = "dropped"

(* Whatever the AirPods send in between, the handshake gets to the receive *)
(* loop or fails: nobody waits for a packet that never comes.              *)
HandshakeEnds == (pc = "start") ~> (pc \in {"receive_loop", "failed"})
=============================================================================
