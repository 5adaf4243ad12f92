---------------------------- MODULE SessionProofs ----------------------------
(***************************************************************************)
(* Proofs about Session, for every set of device states, reported aspects, *)
(* stray packets and every queue bound: its types, that the DeviceState    *)
(* mirrors the AirPods, and that the promises of EarMedia hold in it.      *)
(***************************************************************************)
EXTENDS Session, EarMediaProofs, WellFoundedInduction

-----------------------------------------------------------------------------
(* The order of the naturals is well-founded.                              *)
LEMMA LessIsWellFounded ==
  IsWellFoundedOn({ss \in Nat \X Nat : ss[1] < ss[2]}, Nat)
BY NatLessThanWellFounded DEF OpToRel

(* Max of some positions of a sequence is the last of them.                *)
LEMMA MaxOfPositions ==
  ASSUME NEW n \in Nat, NEW S, S \subseteq 1..n, S # {}
  PROVE  /\ Max(S) \in S
         /\ \A j \in S : j <= Max(S)
<1> DEFINE T == {k \in 0..n : n - k \in S}
           R == {ss \in Nat \X Nat : ss[1] < ss[2]}
<1>1. T \subseteq Nat
  OBVIOUS
<1>2. T # {}
  <2>1. PICK j \in S : TRUE
    OBVIOUS
  <2>2. j \in 1..n
    BY <2>1
  <2>3. n - j \in 0..n /\ n - (n - j) = j
    BY <2>2
  <2>4. n - j \in T
    BY <2>1, <2>3
  <2> QED
    BY <2>4
<1>3. PICK k \in T : \A l \in T : ~(<<l, k>> \in R)
  <2> HIDE DEF T, R
  <2>1. IsWellFoundedOn(R, Nat)
    BY LessIsWellFounded DEF R
  <2> QED
    BY <1>1, <1>2, <2>1, WFMin
<1>4. \A l \in T : ~(l < k)
  BY <1>1, <1>3
<1>5. \A j \in S : j \in 1..n /\ n - j \in 0..n /\ n - (n - j) = j
  OBVIOUS
<1>6. \A j \in S : n - j \in T
  BY <1>5
<1>7. n - k \in S /\ \A j \in S : n - k >= j
  BY <1>4, <1>5, <1>6
<1>8. \E x \in S : \A y \in S : x >= y
  BY <1>7
<1> HIDE DEF T, R
<1>9. Max(S) \in S /\ \A y \in S : Max(S) >= y
  BY <1>8 DEF Max
<1> QED
  BY <1>5, <1>9

(* LastKey yields a key, or what there was.                                *)
LEMMA LastKeyType ==
  ASSUME NEW keys \in Seq(KeyEntries), NEW type, NEW old \in Keys \union {NoKey}
  PROVE  LastKey(keys, type, old) \in Keys \union {NoKey}
<1> DEFINE whole == {i \in DOMAIN keys : keys[i].type = type /\ keys[i].whole}
<1>1. CASE whole = {}
  BY <1>1 DEF LastKey
<1>2. CASE whole # {}
  <2>1. Len(keys) \in Nat /\ whole \subseteq 1..Len(keys)
    OBVIOUS
  <2>2. Max(whole) \in whole
    BY <1>2, <2>1, MaxOfPositions
  <2>3. keys[Max(whole)] \in KeyEntries
    BY <2>2
  <2> QED
    BY <1>2, <2>3 DEF LastKey, KeyEntries
<1> QED
  BY <1>1, <1>2

(* Every model number stands for some model.                               *)
LEMMA ModelType == ASSUME NEW number PROVE ModelFromNumber(number) \in Models
BY DEF ModelFromNumber, Models

(* ApplyToState yields a state again.                                      *)
LEMMA ApplyType ==
  ASSUME NEW s \in States, NEW p \in Packets PROVE ApplyToState(s, p) \in States
<1> USE DEF States, Packets, StatePackets, OtherPackets
<1>1. CASE p.t = "ProximityKeys"
  <2>1. p.keys \in Seq(KeyEntries)
    BY <1>1
  <2> QED
    BY <1>1, <2>1, LastKeyType DEF ApplyToState
<1>2. CASE p.t = "Metadata"
  BY <1>2, ModelType DEF ApplyToState
<1>3. CASE p.t \notin {"ProximityKeys", "Metadata"}
  BY <1>3 DEF ApplyToState
<1> QED
  BY <1>1, <1>2, <1>3

-----------------------------------------------------------------------------
(* Reports and the aspects they are about.                                 *)

(* A report is a packet about the aspect it reports.                       *)
LEMMA ReportsArePackets ==
  ASSUME NEW w \in Worlds, NEW a \in Aspects, NEW p \in ReportsOf(w, a)
  PROVE  p \in Packets /\ About(p) = a
<1>1. w \in [deviceName: Texts, modelNumber: Texts, manufacturer: Texts,
             model: Models, battery: Batteries, noiseControl: NoiseModes,
             conversationalAwareness: BOOLEAN, primaryInEar: BOOLEAN,
             secondaryInEar: BOOLEAN, oneBudAnc: BOOLEAN,
             irk: Keys, encKey: Keys]
  BY SessionAssumption
<1> USE <1>1 DEF Packets, StatePackets, OtherPackets
<1>2. CASE a = "battery"
  BY <1>2 DEF ReportsOf, About
<1>3. CASE a = "ear"
  BY <1>3 DEF ReportsOf, About
<1>4. CASE a = "noise"
  BY <1>4 DEF ReportsOf, About
<1>5. CASE a = "ca"
  BY <1>5 DEF ReportsOf, About, CommandIds
<1>6. CASE a = "onebud"
  BY <1>6 DEF ReportsOf, About, CommandIds
<1>7. CASE a = "metadata"
  BY <1>7 DEF ReportsOf, About
<1>8. CASE a = "keys"
  <2> DEFINE x == KeyEntry("EncKey", TRUE, w.encKey)
             y == KeyEntry("Irk", TRUE, w.irk)
             z == KeyEntry("EncKey", FALSE, w.irk)
  <2>1. x \in KeyEntries /\ y \in KeyEntries /\ z \in KeyEntries
    BY DEF KeyEntry, KeyEntries
  <2>2. <<x, y, z>> \in Seq(KeyEntries)
    <3> HIDE DEF x, y, z
    <3> QED
      BY <2>1
  <2>3. p \in {[t |-> "MagicCloudKeys", irk |-> w.irk, encKey |-> w.encKey],
               [t |-> "ProximityKeys", keys |-> <<x, y, z>>]}
    BY <1>8 DEF ReportsOf
  <2> HIDE DEF x, y, z
  <2>4. p \in [t: {"MagicCloudKeys"}, irk: Keys, encKey: Keys]
            \union [t: {"ProximityKeys"}, keys: Seq(KeyEntries)]
    <3>1. CASE p = [t |-> "MagicCloudKeys", irk |-> w.irk, encKey |-> w.encKey]
      BY <3>1
    <3> DEFINE keys == <<x, y, z>>
    <3> HIDE DEF keys
    <3>2. CASE p = [t |-> "ProximityKeys", keys |-> keys]
      BY <2>2, <3>2 DEF keys
    <3> QED
      BY <2>3, <3>1, <3>2 DEF keys
  <2>5. About(p) = "keys"
    BY <2>3 DEF About
  <2> QED
    BY <1>8, <2>4, <2>5
<1> QED
  BY <1>2, <1>3, <1>4, <1>5, <1>6, <1>7, <1>8 DEF Aspects

(* Applying a report brings its aspect up to date.                         *)
LEMMA ReportApplied ==
  ASSUME NEW s \in States, NEW w \in Worlds, NEW a \in Aspects,
         NEW p \in ReportsOf(w, a)
  PROVE  Aspect(ApplyToState(s, p), a) = Aspect(w, a)
<1> USE DEF States
<1>2. CASE a = "battery"
  BY <1>2 DEF ReportsOf, Aspect, ApplyToState
<1>3. CASE a = "ear"
  BY <1>3 DEF ReportsOf, Aspect, ApplyToState
<1>4. CASE a = "noise"
  BY <1>4 DEF ReportsOf, Aspect, ApplyToState
<1>5. CASE a = "ca"
  BY <1>5 DEF ReportsOf, Aspect, ApplyToState
<1>6. CASE a = "onebud"
  BY <1>6 DEF ReportsOf, Aspect, ApplyToState
<1>7. CASE a = "metadata"
  <2>1. w.model = ModelFromNumber(w.modelNumber)
    BY SessionAssumption
  <2> QED
    BY <1>7, <2>1 DEF ReportsOf, Aspect, ApplyToState
<1>8. CASE a = "keys"
  <2> DEFINE keys == <<KeyEntry("EncKey", TRUE, w.encKey),
                       KeyEntry("Irk", TRUE, w.irk),
                       KeyEntry("EncKey", FALSE, w.irk)>>
  <2>9. DOMAIN keys = {1, 2, 3}
    OBVIOUS
  <2>0. /\ DOMAIN keys = {1, 2, 3}
        /\ keys[1].type = "EncKey" /\ keys[1].whole /\ keys[1].data = w.encKey
        /\ keys[2].type = "Irk" /\ keys[2].whole /\ keys[2].data = w.irk
        /\ keys[3].type = "EncKey" /\ ~keys[3].whole
    BY <2>9 DEF KeyEntry
  <2> HIDE DEF keys
  <2>1. ASSUME NEW old PROVE LastKey(keys, "Irk", old) = w.irk
    <3>1. {i \in DOMAIN keys : keys[i].type = "Irk" /\ keys[i].whole} = {2}
      BY <2>0
    <3>2. Max({2}) = 2
      <4>1. {2} \subseteq 1..3 /\ {2} # {} /\ 3 \in Nat
        OBVIOUS
      <4>2. Max({2}) \in {2}
        BY <4>1, MaxOfPositions
      <4> QED
        BY <4>2
    <3>3. LastKey(keys, "Irk", old) = keys[Max({2})].data
      BY <3>1, {2} # {} DEF LastKey
    <3> QED
      BY <2>0, <3>2, <3>3
  <2>2. ASSUME NEW old PROVE LastKey(keys, "EncKey", old) = w.encKey
    <3>1. {i \in DOMAIN keys : keys[i].type = "EncKey" /\ keys[i].whole} = {1}
      BY <2>0
    <3>2. Max({1}) = 1
      <4>1. {1} \subseteq 1..3 /\ {1} # {} /\ 3 \in Nat
        OBVIOUS
      <4>2. Max({1}) \in {1}
        BY <4>1, MaxOfPositions
      <4> QED
        BY <4>2
    <3>3. LastKey(keys, "EncKey", old) = keys[Max({1})].data
      BY <3>1, {1} # {} DEF LastKey
    <3> QED
      BY <2>0, <3>2, <3>3
  <2>3. CASE p = [t |-> "MagicCloudKeys", irk |-> w.irk, encKey |-> w.encKey]
    BY <1>8, <2>3 DEF Aspect, ApplyToState
  <2>4. CASE p = [t |-> "ProximityKeys", keys |-> keys]
    <3>1. ApplyToState(s, p) = [s EXCEPT !.irk = LastKey(keys, "Irk", s.irk),
                                         !.encKey = LastKey(keys, "EncKey", s.encKey)]
      BY <2>4 DEF ApplyToState
    <3>2. ApplyToState(s, p) = [s EXCEPT !.irk = w.irk, !.encKey = w.encKey]
      BY <2>1, <2>2, <3>1
    <3> QED
      BY <1>8, <3>2 DEF Aspect
  <2> QED
    BY <1>8, <2>3, <2>4 DEF ReportsOf, keys
<1> QED
  BY <1>2, <1>3, <1>4, <1>5, <1>6, <1>7, <1>8 DEF Aspects

(* A packet about something else leaves an aspect alone.                   *)
LEMMA OtherAspect ==
  ASSUME NEW s \in States, NEW p \in Packets, NEW a \in Aspects, About(p) # a
  PROVE  Aspect(ApplyToState(s, p), a) = Aspect(s, a)
<1> USE DEF States
<1>1. CASE p.t = "Battery"
  BY <1>1 DEF About, Aspects, Aspect, ApplyToState
<1>2. CASE p.t = "EarDetection"
  BY <1>2 DEF About, Aspects, Aspect, ApplyToState
<1>3. CASE p.t = "NoiseControl"
  BY <1>3 DEF About, Aspects, Aspect, ApplyToState
<1>4. CASE p.t = "ControlCommand"
  BY <1>4 DEF About, Aspects, Aspect, ApplyToState
<1>5. CASE p.t = "Metadata"
  BY <1>5 DEF About, Aspects, Aspect, ApplyToState
<1>6. CASE p.t = "ProximityKeys"
  BY <1>6 DEF About, Aspects, Aspect, ApplyToState
<1>7. CASE p.t = "MagicCloudKeys"
  BY <1>7 DEF About, Aspects, Aspect, ApplyToState
<1>8. CASE p \in OtherPackets
  <2>1. ApplyToState(s, p) = s
    BY <1>8 DEF OtherPackets, ApplyToState
  <2> QED
    BY <2>1
<1> QED
  BY <1>1, <1>2, <1>3, <1>4, <1>5, <1>6, <1>7, <1>8 DEF Packets, StatePackets

(* What is reported of an aspect depends on that aspect only.              *)
LEMMA ReportsDetermined ==
  ASSUME NEW v \in Worlds, NEW w \in Worlds, NEW a \in Aspects,
         Aspect(v, a) = Aspect(w, a)
  PROVE  ReportsOf(v, a) = ReportsOf(w, a)
<1>2. CASE a = "battery"
  BY <1>2 DEF ReportsOf, Aspect
<1>3. CASE a = "ear"
  BY <1>3 DEF ReportsOf, Aspect
<1>4. CASE a = "noise"
  BY <1>4 DEF ReportsOf, Aspect
<1>5. CASE a = "ca"
  BY <1>5 DEF ReportsOf, Aspect
<1>6. CASE a = "onebud"
  BY <1>6 DEF ReportsOf, Aspect
<1>7. CASE a = "metadata"
  BY <1>7 DEF ReportsOf, Aspect
<1>8. CASE a = "keys"
  <2>1. v.irk = w.irk /\ v.encKey = w.encKey
    BY <1>8 DEF Aspect
  <2> QED
    BY <1>8, <2>1 DEF ReportsOf
<1> QED
  BY <1>2, <1>3, <1>4, <1>5, <1>6, <1>7, <1>8 DEF Aspects

-----------------------------------------------------------------------------
(* Types.                                                                  *)

(* The initial states are well typed.                                      *)
LEMMA SessionInitTypes == Init => SessionTypeOK
<1>1. DefaultState \in States
  BY StateAssumption DEF DefaultState, States, Models, NoiseModes
<1>2. <<>> \in Seq(Commands) /\ <<>> \in Seq(Packets)
  OBVIOUS
<1> QED
  BY <1>1, <1>2 DEF Init, SessionTypeOK

(* Every step of a session preserves its types.                            *)
LEMMA SessionNextTypes == SessionTypeOK /\ [Next]_vars => SessionTypeOK'
<1> SUFFICES ASSUME SessionTypeOK, [Next]_vars PROVE SessionTypeOK'
  OBVIOUS
<1>a. /\ [t |-> "HandshakeAck"] \in Packets /\ [t |-> "FeaturesAck"] \in Packets
      /\ Extras \subseteq Packets
  BY SessionAssumption DEF Packets, OtherPackets
<1>b. \A c \in Commands : Append(outbox, c) \in Seq(Commands)
  BY DEF SessionTypeOK
<1>c. \A p \in Packets : Append(inbox, p) \in Seq(Packets)
  BY DEF SessionTypeOK
<1>d. outbox # <<>> => Tail(outbox) \in Seq(Commands)
  BY DEF SessionTypeOK
<1>e. inbox # <<>> => Incoming \in Packets /\ Tail(inbox) \in Seq(Packets)
  BY DEF SessionTypeOK, Incoming
<1>f. UNCHANGED sessionVars => SessionTypeOK'
  BY DEF SessionTypeOK, sessionVars, hostVars, wireVars, deviceVars
<1>1. CASE SendHandshake
  BY <1>1, <1>b DEF SendHandshake, SendThen, SessionTypeOK, Commands, deviceVars
<1>2. CASE HandshakeAck
  BY <1>2, <1>b, <1>e
  DEF HandshakeAck, HandshakeReply, RecvOk, SendThen, SessionTypeOK, Commands,
      deviceVars
<1>3. CASE FeaturesAck
  BY <1>3, <1>b, <1>e
  DEF FeaturesAck, HandshakeReply, RecvOk, SendThen, SessionTypeOK, Commands,
      deviceVars
<1>4. CASE HandshakeFails
  BY <1>4 DEF HandshakeFails, RecvFails, SessionTypeOK, wireVars, deviceVars
<1>5. CASE Receive
  <2>1. st' \in States /\ inbox' \in Seq(Packets)
    BY <1>5, <1>e, ApplyType DEF Receive, RecvOk, SessionTypeOK
  <2> QED
    BY <1>5, <2>1 DEF Receive, SessionTypeOK, deviceVars
<1>6. CASE ReceiveFails
  BY <1>6 DEF ReceiveFails, RecvFails, SessionTypeOK, wireVars, deviceVars
<1>7. CASE ControllerStep
  BY <1>7, <1>f DEF ControllerStep
<1>8. CASE DeviceTakes
  <2>1. outbox' \in Seq(Commands)
    BY <1>8, <1>d DEF DeviceTakes
  <2>2. inbox' \in Seq(Packets)
    BY <1>8, <1>a, <1>c DEF DeviceTakes, SessionTypeOK
  <2>3. unsent' \subseteq Reported
    BY <1>8 DEF DeviceTakes, SessionTypeOK
  <2>4. stage' \in {"fresh", "acked", "featured", "subscribed"}
    BY <1>8 DEF DeviceTakes, SessionTypeOK
  <2> QED
    BY <1>8, <2>1, <2>2, <2>3, <2>4 DEF DeviceTakes, SessionTypeOK, hostVars
<1>9. CASE DeviceReports
  <2>1. inbox' \in Seq(Packets)
    <3>1. PICK a \in unsent : \E p \in ReportsOf(dev, a) : inbox' = Append(inbox, p)
      BY <1>9 DEF DeviceReports
    <3>2. dev \in Worlds /\ a \in Aspects
      BY SessionAssumption DEF SessionTypeOK
    <3> QED
      BY <1>c, <3>1, <3>2, ReportsArePackets
  <2>2. unsent' \subseteq Reported
    BY <1>9 DEF DeviceReports, SessionTypeOK
  <2> QED
    BY <1>9, <2>1, <2>2 DEF DeviceReports, SessionTypeOK, hostVars
<1>10. CASE DeviceSendsExtra
  <2>1. inbox' \in Seq(Packets)
    BY <1>10, <1>a, <1>c DEF DeviceSendsExtra
  <2> QED
    BY <1>10, <2>1 DEF DeviceSendsExtra, SessionTypeOK, hostVars, deviceVars
<1>11. CASE DeviceChanges
  BY <1>11 DEF DeviceChanges, SessionTypeOK, hostVars, wireVars
<1>12. CASE LinkDrops
  BY <1>12 DEF LinkDrops, SessionTypeOK, hostVars, deviceVars
<1>13. CASE DesktopStep
  BY <1>13, <1>f DEF DesktopStep
<1>14. CASE UNCHANGED vars
  BY <1>14, <1>f DEF vars
<1> QED
  BY <1>1, <1>2, <1>3, <1>4, <1>5, <1>6, <1>7, <1>8, <1>9, <1>10, <1>11, <1>12,
     <1>13, <1>14 DEF Next, Host, AirPods

(* In every session the variables of run_connection, of the socket and of  *)
(* the AirPods keep to their types; above all the DeviceState, whatever    *)
(* packets are applied to it (main.rs apply_to_state).                     *)
THEOREM SessionTypes == Safety => []SessionTypeOK
<1>1. Init => SessionTypeOK
  BY SessionInitTypes
<1>2. SessionTypeOK /\ [Next]_vars => SessionTypeOK'
  BY SessionNextTypes
<1> QED
  BY <1>1, <1>2, PTL DEF Safety

-----------------------------------------------------------------------------
(* The controller within a session.                                        *)

(* run_connection steps the controller as EarMedia allows, or not at all.  *)
LEMMA SessionStepsController ==
  SessionTypeOK /\ [Next]_vars => [MediaNext]_mediaVars
<1> SUFFICES ASSUME SessionTypeOK, [Next]_vars PROVE [MediaNext]_mediaVars
  OBVIOUS
<1>1. CASE Receive
  <2>1. Incoming \in Packets
    BY <1>1 DEF Receive, RecvOk, Incoming, SessionTypeOK
  <2>2. CASE IsFirstMetadata(Incoming)
    BY <1>1, <2>2 DEF Receive, CallController, IsFirstMetadata, MediaNext, Call
  <2>3. CASE ~IsFirstMetadata(Incoming) /\ Incoming.t = "EarDetection" /\ hasMedia
    <3>1. Incoming.primary \in BOOLEAN /\ Incoming.secondary \in BOOLEAN
      BY <2>1, <2>3 DEF Packets, StatePackets, OtherPackets
    <3>2. OnEarDetection(Incoming.primary, Incoming.secondary)
      BY <1>1, <2>3 DEF Receive, CallController
    <3> QED
      BY <3>1, <3>2 DEF MediaNext, Call
  <2> QED
    BY <1>1, <2>2, <2>3 DEF Receive, CallController
<1>2. CASE ReceiveFails
  BY <1>2 DEF ReceiveFails, MediaNext, Call
<1>3. CASE ControllerStep
  BY <1>3 DEF ControllerStep, MediaNext
<1>4. CASE DesktopStep
  BY <1>4 DEF DesktopStep, MediaNext
<1>5. CASE SendHandshake \/ HandshakeAck \/ FeaturesAck \/ HandshakeFails
  BY <1>5
  DEF SendHandshake, HandshakeAck, FeaturesAck, HandshakeReply, HandshakeFails
<1>6. CASE AirPods \/ LinkDrops
  BY <1>6
  DEF AirPods, DeviceTakes, DeviceReports, DeviceSendsExtra, DeviceChanges,
      LinkDrops
<1>7. CASE UNCHANGED vars
  BY <1>7 DEF vars
<1> QED
  BY <1>1, <1>2, <1>3, <1>4, <1>5, <1>6, <1>7 DEF Next, Host

(* Whatever run_connection does with the controller, it is a behaviour of  *)
(* EarMedia: the receive loop never calls a method while another runs, and *)
(* on_metadata only while audio_activated is clear (main.rs 368-427).      *)
THEOREM SessionUsesController == Safety => UsesController
<1>1. Init => MediaInit
  BY DEF Init
<1>2. SessionTypeOK /\ [Next]_vars => [MediaNext]_mediaVars
  BY SessionStepsController
<1> QED
  BY <1>1, <1>2, SessionTypes, PTL DEF Safety, UsesController, MediaSafety

(* So a whole session keeps the promise of MediaPolicy: what it does to    *)
(* the player is routing once, pausing with both pods out and undoing that *)
(* pause, at whatever moment packets arrive or the link is lost.           *)
THEOREM SessionImplementsPolicy == Safety => ImplementsPolicy
BY SessionUsesController, MediaImplementsPolicy, PTL DEF UsesController

(* No step of the controller's own touches inEar.                          *)
LEMMA InEarIsReported == Command \/ Desktop => UNCHANGED inEar
<1>1. Command => UNCHANGED inEar
  BY DEF Command, WpctlFindSink, WpctlSetDefault, PactlFindCard,
         PactlSetProfile, PactlListSinks, PactlSetDefaultSink, ResumeCheck,
         PauseCheck, ActiveSinkCheck, Play, Pause, RemoveFindCard,
         RemoveProfile, CommandFails, controllerVars
<1>2. Desktop => UNCHANGED inEar
  BY DEF Desktop, UserTogglesPlayback, UserSelectsSink, SinkAppears,
         SinkVanishes, CardChanges, controllerVars
<1> QED
  BY <1>1, <1>2

(* Only an ear report changes what the state says about the pods.          *)
LEMMA EarAfterPacket ==
  ASSUME NEW s \in States, NEW p \in Packets
  PROVE  AnyPodInEar(ApplyToState(s, p)) =
           IF p.t = "EarDetection" THEN p.primary \/ p.secondary
                                   ELSE AnyPodInEar(s)
<1> USE DEF States, Packets, StatePackets, OtherPackets, AnyPodInEar
<1>1. CASE p.t = "EarDetection"
  <2>1. /\ ApplyToState(s, p).primaryInEar = p.primary
        /\ ApplyToState(s, p).secondaryInEar = p.secondary
    BY <1>1 DEF ApplyToState
  <2> QED
    BY <1>1, <2>1
<1>2. CASE p.t # "EarDetection"
  <2>1. /\ ApplyToState(s, p).primaryInEar = s.primaryInEar
        /\ ApplyToState(s, p).secondaryInEar = s.secondaryInEar
    BY <1>2 DEF ApplyToState
  <2> QED
    BY <1>2, <2>1
<1> QED
  BY <1>1, <1>2

(* The controller always acts on the ear status of the DeviceState as it   *)
(* is now: the receive loop applies a packet before it calls the           *)
(* controller and applies none while a command of it runs (main.rs         *)
(* 380-408).                                                               *)
THEOREM ControllerAndStateAgree == Safety => []ControllerSeesState
<1>1. ASSUME Init PROVE ControllerSeesState
  <2>1. ~AnyPodInEar(st)
    BY <1>1 DEF Init, AnyPodInEar, DefaultState
  <2>2. inEar = FALSE
    BY <1>1 DEF Init, MediaInit
  <2> QED
    BY <2>1, <2>2 DEF ControllerSeesState
<1>2. ASSUME SessionTypeOK, ControllerSeesState, [Next]_vars
      PROVE  ControllerSeesState'
  <2>a. UNCHANGED <<st, hasMedia, inEar>> => ControllerSeesState'
    BY <1>2 DEF ControllerSeesState
  <2>1. CASE Receive
    <3>1. st \in States /\ Incoming \in Packets
      BY <1>2, <2>1 DEF Receive, RecvOk, Incoming, SessionTypeOK
    <3>2. st' = ApplyToState(st, Incoming) /\ UNCHANGED hasMedia
      BY <2>1 DEF Receive
    <3>3. CASE IsFirstMetadata(Incoming)
      <4>1. UNCHANGED inEar
        BY <2>1, <3>3 DEF Receive, CallController, OnMetadata, controllerVars
      <4> QED
        BY <1>2, <3>1, <3>2, <3>3, <4>1, EarAfterPacket
        DEF ControllerSeesState, IsFirstMetadata
    <3>4. CASE ~IsFirstMetadata(Incoming) /\ Incoming.t = "EarDetection" /\ hasMedia
      <4>1. inEar' = (Incoming.primary \/ Incoming.secondary)
        BY <2>1, <3>4 DEF Receive, CallController, OnEarDetection
      <4> QED
        BY <3>1, <3>2, <3>4, <4>1, EarAfterPacket DEF ControllerSeesState
    <3>5. CASE ~IsFirstMetadata(Incoming) /\ ~(Incoming.t = "EarDetection" /\ hasMedia)
      <4>1. UNCHANGED inEar
        BY <2>1, <3>5 DEF Receive, CallController, mediaVars, controllerVars
      <4> QED
        BY <1>2, <3>1, <3>2, <3>5, <4>1, EarAfterPacket DEF ControllerSeesState
    <3> QED
      BY <3>3, <3>4, <3>5
  <2>2. CASE ReceiveFails
    BY <2>2, <2>a
    DEF ReceiveFails, RecvFails, Cleanup, mediaVars, controllerVars
  <2>3. CASE ControllerStep \/ DesktopStep
    BY <2>3, <2>a, InEarIsReported
    DEF ControllerStep, DesktopStep, sessionVars, hostVars
  <2>4. CASE SendHandshake \/ HandshakeAck \/ FeaturesAck \/ HandshakeFails
    BY <2>4, <2>a
    DEF SendHandshake, HandshakeAck, FeaturesAck, HandshakeReply,
        HandshakeFails, RecvFails, mediaVars, controllerVars
  <2>5. CASE AirPods \/ LinkDrops
    BY <2>5, <2>a
    DEF AirPods, DeviceTakes, DeviceReports, DeviceSendsExtra, DeviceChanges,
        LinkDrops, mediaVars, controllerVars, hostVars
  <2>6. CASE UNCHANGED vars
    BY <2>6, <2>a DEF vars, sessionVars, hostVars, mediaVars, controllerVars
  <2> QED
    BY <1>2, <2>1, <2>2, <2>3, <2>4, <2>5, <2>6 DEF Next, Host
<1>3. SessionTypeOK /\ ControllerSeesState /\ [Next]_vars => ControllerSeesState'
  BY <1>2
<1> QED
  BY <1>1, <1>3, SessionTypes, PTL DEF Safety

(* Outside the receive loop the controller has done nothing and is doing   *)
(* nothing, so a handshake that fails leaves no audio routed and nothing   *)
(* paused (main.rs 327-361 returns without cleanup).                       *)
THEOREM QuietBeforeLoop == Safety => []QuietOutsideLoop
<1>1. Init => QuietOutsideLoop
  BY DEF Init, MediaInit, QuietOutsideLoop
<1>2. ASSUME QuietOutsideLoop, [Next]_vars PROVE QuietOutsideLoop'
  <2>a. UNCHANGED <<pc, audioActivated, pausedByUs, phase, handler>> => QuietOutsideLoop'
    BY <1>2 DEF QuietOutsideLoop
  <2>b. pc \notin {"receive_loop", "done"} /\ UNCHANGED mediaVars => QuietOutsideLoop'
    BY <1>2 DEF QuietOutsideLoop, mediaVars, controllerVars
  <2>1. CASE Receive \/ ReceiveFails
    BY <2>1 DEF Receive, ReceiveFails, QuietOutsideLoop
  <2>2. CASE ControllerStep
    <3>1. pc' = pc
      BY <2>2 DEF ControllerStep, sessionVars, hostVars
    <3>2. phase # "idle"
      BY <2>2 DEF ControllerStep, Command, WpctlFindSink, WpctlSetDefault,
           PactlFindCard, PactlSetProfile, PactlListSinks, PactlSetDefaultSink,
           ResumeCheck, PauseCheck, ActiveSinkCheck, Play, Pause,
           RemoveFindCard, RemoveProfile
    <3> QED
      BY <1>2, <3>1, <3>2 DEF QuietOutsideLoop
  <2>3. CASE DesktopStep
    BY <2>3, <2>a
    DEF DesktopStep, Desktop, UserTogglesPlayback, UserSelectsSink,
        SinkAppears, SinkVanishes, CardChanges, controllerVars, sessionVars,
        hostVars
  <2>4. CASE SendHandshake \/ HandshakeAck \/ FeaturesAck \/ HandshakeFails
    BY <2>4, <2>b
    DEF SendHandshake, HandshakeAck, FeaturesAck, HandshakeReply, HandshakeFails
  <2>5. CASE AirPods \/ LinkDrops
    BY <2>5, <2>a
    DEF AirPods, DeviceTakes, DeviceReports, DeviceSendsExtra, DeviceChanges,
        LinkDrops, mediaVars, controllerVars, hostVars
  <2>6. CASE UNCHANGED vars
    BY <2>6, <2>a DEF vars, sessionVars, hostVars, mediaVars, controllerVars
  <2> QED
    BY <1>2, <2>1, <2>2, <2>3, <2>4, <2>5, <2>6 DEF Next, Host
<1>3. QuietOutsideLoop /\ [Next]_vars => QuietOutsideLoop'
  BY <1>2
<1> QED
  BY <1>1, <1>3, PTL DEF Safety

-----------------------------------------------------------------------------
(* The mirror.                                                             *)

(* The AirPods get the third handshake packet, and so subscribe the daemon *)
(* to their reports, only after run_connection has entered its loop.       *)
THEOREM SubscribedOnlyInLoop == Safety => []SubscribedInLoop
<1>1. Init => SubscribedInLoop
  BY DEF Init, SubscribedInLoop
<1>2. ASSUME SessionTypeOK, SubscribedInLoop, [Next]_vars
      PROVE  SubscribedInLoop'
  <2> DEFINE Early(o) == \A i \in DOMAIN o : o[i] # "REQUEST_NOTIFICATIONS"
  <2>a. UNCHANGED <<pc, stage, outbox>> => SubscribedInLoop'
    BY <1>2 DEF SubscribedInLoop
  <2>b. ASSUME NEW c \in Commands, c # "REQUEST_NOTIFICATIONS", Early(outbox)
        PROVE  Early(Append(outbox, c))
    BY <1>2, <2>b DEF SessionTypeOK
  <2>1. CASE SendHandshake
    BY <1>2, <2>1, <2>b
    DEF SendHandshake, SendThen, SubscribedInLoop, deviceVars, Commands
  <2>2. CASE HandshakeAck
    BY <1>2, <2>2, <2>b
    DEF HandshakeAck, HandshakeReply, SendThen, SubscribedInLoop, deviceVars,
        Commands
  <2>3. CASE FeaturesAck
    BY <1>2, <2>3
    DEF FeaturesAck, HandshakeReply, SendThen, SubscribedInLoop, deviceVars
  <2>4. CASE HandshakeFails
    BY <1>2, <2>4
    DEF HandshakeFails, RecvFails, SubscribedInLoop, wireVars, deviceVars
  <2>5. CASE Receive \/ ReceiveFails
    BY <2>5 DEF Receive, ReceiveFails, SubscribedInLoop
  <2>6. CASE DeviceTakes
    <3>1. CASE pc \in {"receive_loop", "done"}
      BY <2>6, <3>1 DEF DeviceTakes, SubscribedInLoop, hostVars
    <3>2. CASE pc \notin {"receive_loop", "done"}
      <4>1. stage # "subscribed" /\ Early(outbox)
        BY <1>2, <3>2 DEF SubscribedInLoop
      <4>2. Head(outbox) # "REQUEST_NOTIFICATIONS"
        BY <1>2, <2>6, <4>1 DEF DeviceTakes, SessionTypeOK
      <4>3. stage' # "subscribed"
        BY <2>6, <4>1, <4>2 DEF DeviceTakes
      <4>4. Early(Tail(outbox))
        BY <1>2, <2>6, <4>1 DEF DeviceTakes, SessionTypeOK
      <4> QED
        BY <2>6, <4>3, <4>4 DEF DeviceTakes, SubscribedInLoop
    <3> QED
      BY <3>1, <3>2
  <2>7. CASE DeviceReports \/ DeviceSendsExtra \/ DeviceChanges \/ LinkDrops
    BY <2>7, <2>a
    DEF DeviceReports, DeviceSendsExtra, DeviceChanges, LinkDrops, hostVars,
        wireVars, deviceVars
  <2>8. CASE ControllerStep \/ DesktopStep \/ UNCHANGED vars
    BY <2>8, <2>a
    DEF ControllerStep, DesktopStep, vars, sessionVars, hostVars, wireVars,
        deviceVars
  <2> QED
    BY <1>2, <2>1, <2>2, <2>3, <2>4, <2>5, <2>6, <2>7, <2>8
    DEF Next, Host, AirPods
<1>3. SessionTypeOK /\ SubscribedInLoop /\ [Next]_vars => SubscribedInLoop'
  BY <1>2
<1> QED
  BY <1>1, <1>3, SessionTypes, PTL DEF Safety

(* A packet about something else joins the queue.                          *)
LEMMA MirrorsOnAppend ==
  ASSUME SessionTypeOK, NEW a \in Aspects, Mirrors(a),
         NEW p \in Packets, About(p) # a, inbox' = Append(inbox, p),
         UNCHANGED <<st, dev>>
  PROVE  Mirrors(a)'
<1>1. /\ Len(inbox) \in Nat /\ DOMAIN inbox = 1..Len(inbox)
      /\ DOMAIN inbox' = 1..(Len(inbox) + 1)
      /\ \A i \in DOMAIN inbox : inbox'[i] = inbox[i]
      /\ inbox'[Len(inbox) + 1] = p
  BY DEF SessionTypeOK
<1>2. CASE \A i \in DOMAIN inbox : About(inbox[i]) # a
  <2>1. \A i \in DOMAIN inbox' : About(inbox'[i]) # a
    BY <1>1, <1>2
  <2>2. Aspect(st, a) = Aspect(dev, a)
    <3>1. \A i \in DOMAIN inbox : inbox[i] \notin ReportsOf(dev, a)
      BY <1>2, ReportsArePackets DEF SessionTypeOK
    <3> QED
      BY <3>1 DEF Mirrors
  <2> QED
    BY <2>1, <2>2 DEF Mirrors
<1>3. CASE ~ \A i \in DOMAIN inbox : About(inbox[i]) # a
  <2>1. PICK i \in DOMAIN inbox :
          /\ inbox[i] \in ReportsOf(dev, a)
          /\ \A j \in DOMAIN inbox : j > i => About(inbox[j]) # a
    BY <1>3 DEF Mirrors
  <2>2. /\ i \in DOMAIN inbox'
        /\ inbox'[i] \in ReportsOf(dev', a)
        /\ \A j \in DOMAIN inbox' : j > i => About(inbox'[j]) # a
    BY <1>1, <2>1
  <2> QED
    BY <2>2 DEF Mirrors
<1> QED
  BY <1>2, <1>3

(* The first packet of the queue is applied.                               *)
LEMMA MirrorsOnReceive ==
  ASSUME SessionTypeOK, NEW a \in Aspects, Mirrors(a), inbox # <<>>,
         inbox' = Tail(inbox), st' = ApplyToState(st, Head(inbox)),
         UNCHANGED dev
  PROVE  Mirrors(a)'
<1>1. /\ Len(inbox) \in Nat \ {0} /\ DOMAIN inbox = 1..Len(inbox)
      /\ DOMAIN inbox' = 1..(Len(inbox) - 1)
      /\ \A i \in DOMAIN inbox' : inbox'[i] = inbox[i + 1]
      /\ Head(inbox) = inbox[1]
      /\ Head(inbox) \in Packets
  BY DEF SessionTypeOK
<1>2. CASE /\ \A i \in DOMAIN inbox : About(inbox[i]) # a
           /\ Aspect(st, a) = Aspect(dev, a)
  <2>1. \A i \in DOMAIN inbox' : About(inbox'[i]) # a
    BY <1>1, <1>2
  <2>2. About(Head(inbox)) # a
    BY <1>1, <1>2
  <2>3. Aspect(st', a) = Aspect(dev', a)
    BY <1>1, <1>2, <2>2, OtherAspect DEF SessionTypeOK
  <2> QED
    BY <2>1, <2>3 DEF Mirrors
<1>3. ASSUME NEW i \in DOMAIN inbox,
             inbox[i] \in ReportsOf(dev, a),
             \A j \in DOMAIN inbox : j > i => About(inbox[j]) # a
      PROVE  Mirrors(a)'
  <2>1. CASE i = 1
    <3>1. \A j \in DOMAIN inbox' : About(inbox'[j]) # a
      BY <1>1, <1>3, <2>1
    <3>2. Aspect(st', a) = Aspect(dev', a)
      BY <1>1, <1>3, <2>1, ReportApplied DEF SessionTypeOK
    <3> QED
      BY <3>1, <3>2 DEF Mirrors
  <2>2. CASE i # 1
    <3>1. i - 1 \in DOMAIN inbox' /\ inbox'[i - 1] = inbox[i]
      BY <1>1, <2>2
    <3>2. \A j \in DOMAIN inbox' : j > i - 1 => About(inbox'[j]) # a
      BY <1>1, <1>3
    <3>3. inbox'[i - 1] \in ReportsOf(dev', a)
      BY <1>3, <3>1
    <3> QED
      BY <3>1, <3>2, <3>3 DEF Mirrors
  <2> QED
    BY <2>1, <2>2
<1> QED
  BY <1>2, <1>3 DEF Mirrors

(* Every step preserves the mirror.                                        *)
LEMMA MirrorNext ==
  SessionTypeOK /\ SubscribedInLoop /\ Mirror /\ [Next]_vars => Mirror'
<1> SUFFICES ASSUME SessionTypeOK, SubscribedInLoop, Mirror, [Next]_vars,
                    IsSubscribed', NEW a \in Reported, a \notin unsent'
             PROVE  Mirrors(a)'
  BY DEF Mirror, Mirrors
<1>a. a \in Aspects
  BY SessionAssumption
<1>b. IsSubscribed /\ a \notin unsent => Mirrors(a)
  BY DEF Mirror
<1>c. UNCHANGED <<pc, stage, unsent, st, inbox, dev>> => Mirrors(a)'
  <2> HAVE UNCHANGED <<pc, stage, unsent, st, inbox, dev>>
  <2>1. Mirrors(a)
    BY <1>b DEF IsSubscribed
  <2> QED
    BY <2>1 DEF Mirrors
<1>1. CASE SendHandshake \/ HandshakeAck \/ FeaturesAck \/ HandshakeFails
  <2>1. pc \notin {"receive_loop", "done"} /\ UNCHANGED stage
    BY <1>1 DEF SendHandshake, HandshakeAck, FeaturesAck, HandshakeReply,
         HandshakeFails, RecvFails, deviceVars
  <2> QED
    BY <2>1 DEF SubscribedInLoop, IsSubscribed
<1>2. CASE Receive
  <2>1. IsSubscribed /\ a \notin unsent
    BY <1>2 DEF Receive, IsSubscribed, deviceVars
  <2>2. /\ inbox # <<>> /\ inbox' = Tail(inbox)
        /\ st' = ApplyToState(st, Head(inbox)) /\ UNCHANGED dev
    BY <1>2 DEF Receive, RecvOk, Incoming, deviceVars
  <2> QED
    BY <1>a, <1>b, <2>1, <2>2, MirrorsOnReceive
<1>3. CASE ReceiveFails
  BY <1>3 DEF ReceiveFails, IsSubscribed
<1>4. CASE ControllerStep \/ DesktopStep \/ LinkDrops \/ UNCHANGED vars
  BY <1>4, <1>c
  DEF ControllerStep, DesktopStep, LinkDrops, vars, sessionVars, hostVars,
      wireVars, deviceVars
<1>5. CASE DeviceTakes
  <2>1. CASE Head(outbox) = "REQUEST_NOTIFICATIONS" /\ stage = "featured"
    BY <1>5, <2>1 DEF DeviceTakes
  <2>2. CASE ~(Head(outbox) = "REQUEST_NOTIFICATIONS" /\ stage = "featured")
    <3>1. stage' = "subscribed"
      BY DEF IsSubscribed
    <3>2. UNCHANGED <<pc, stage, unsent, st, inbox, dev>>
      BY <1>5, <2>2, <3>1 DEF DeviceTakes, hostVars
    <3> QED
      BY <3>2, <1>c
  <2> QED
    BY <2>1, <2>2
<1>6. CASE DeviceReports
  <2>0. PICK b \in unsent :
          /\ \E p \in ReportsOf(dev, b) : inbox' = Append(inbox, p)
          /\ unsent' = unsent \ {b}
    BY <1>6 DEF DeviceReports
  <2>1. PICK p \in ReportsOf(dev, b) :
          inbox' = Append(inbox, p) /\ unsent' = unsent \ {b}
    BY <2>0
  <2>2. UNCHANGED <<pc, stage, st, dev>>
    BY <1>6 DEF DeviceReports, hostVars
  <2>3. b \in Aspects /\ dev \in Worlds
    BY SessionAssumption DEF SessionTypeOK
  <2>4. p \in Packets /\ About(p) = b
    BY <2>3, ReportsArePackets
  <2>5. CASE a = b
    <3>1. /\ Len(inbox) + 1 \in DOMAIN inbox'
          /\ inbox'[Len(inbox) + 1] = p
          /\ \A j \in DOMAIN inbox' : ~(j > Len(inbox) + 1)
      BY <2>1, <2>4 DEF SessionTypeOK
    <3> QED
      BY <2>2, <2>5, <3>1 DEF Mirrors
  <2>6. CASE a # b
    <3>1. Mirrors(a)
      BY <1>b, <2>1, <2>2, <2>6 DEF IsSubscribed
    <3> QED
      BY <1>a, <2>1, <2>2, <2>4, <2>6, <3>1, MirrorsOnAppend
  <2> QED
    BY <2>5, <2>6
<1>7. CASE DeviceSendsExtra
  <2>1. PICK p \in Extras : inbox' = Append(inbox, p)
    BY <1>7 DEF DeviceSendsExtra
  <2>2. UNCHANGED <<pc, stage, st, dev, unsent>>
    BY <1>7 DEF DeviceSendsExtra, hostVars, deviceVars
  <2>3. p \in OtherPackets
    BY SessionAssumption
  <2>4. p \in Packets /\ About(p) = "none" /\ a # "none"
    BY <1>a, <2>3 DEF Packets, OtherPackets, About, Aspects
  <2>5. Mirrors(a)
    BY <1>b, <2>2 DEF IsSubscribed
  <2> QED
    BY <1>a, <2>1, <2>2, <2>4, <2>5, MirrorsOnAppend
<1>8. CASE DeviceChanges
  <2>1. /\ dev \in Worlds /\ dev' \in Worlds
        /\ UNCHANGED <<pc, stage, st, inbox>>
    BY <1>8 DEF DeviceChanges, SessionTypeOK, hostVars, wireVars
  <2>2. a \notin unsent /\ Aspect(dev', a) = Aspect(dev, a)
    BY <1>8 DEF DeviceChanges
  <2>3. ReportsOf(dev', a) = ReportsOf(dev, a)
    BY <1>a, <2>1, <2>2, ReportsDetermined
  <2>4. Mirrors(a)
    BY <1>b, <2>1, <2>2 DEF IsSubscribed
  <2> QED
    BY <2>1, <2>2, <2>3, <2>4 DEF Mirrors
<1> QED
  BY <1>1, <1>2, <1>3, <1>4, <1>5, <1>6, <1>7, <1>8 DEF Next, Host, AirPods

(* Once subscribed, nothing the AirPods report is lost, mixed up or        *)
(* overtaken on its way into the DeviceState, for every set of device      *)
(* states and every queue length, and whatever else they send (main.rs     *)
(* 368-408 and apply_to_state, 432-547).                                   *)
THEOREM StateMirrorsAirPods == Safety => []Mirror
<1>1. Init => Mirror
  BY DEF Init, Mirror, IsSubscribed
<1>2. SessionTypeOK /\ SubscribedInLoop /\ Mirror /\ [Next]_vars => Mirror'
  BY MirrorNext
<1> QED
  BY <1>1, <1>2, SessionTypes, SubscribedOnlyInLoop, PTL DEF Safety
=============================================================================
