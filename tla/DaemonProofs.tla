---------------------------- MODULE DaemonProofs ----------------------------
(***************************************************************************)
(* Proofs about Daemon, for every finite set of devices, any --retries and *)
(* any --address: what a session is opened to, when a target is given up,  *)
(* and that the monitor's own invariants survive main, which drops the     *)
(* monitor in the middle of its work.                                      *)
(***************************************************************************)
EXTENDS Daemon, BluezMonitorProofs

(* What is known of the target where main is.  The monitor is read until   *)
(* main leaves "watch" and never after, so that the devices main was told  *)
(* of then are those it was ever told of.                                  *)
TargetKnown ==
  /\ main = "watch" => /\ given = "absent" /\ target = NoTarget
                       /\ attempt = 0 /\ view = {}
  /\ main # "watch" => pc = "ended" /\ events = <<>>
  /\ main \in {"attempt", "sleep", "session", "returned"} =>
       /\ target \in Targets
       /\ attempt \in 1..retries
       /\ given = "absent" => target.dev \in AirPods \intersect view
  /\ main \in {"session", "returned"} => target.address
  /\ main = "sleep" => attempt < retries
  /\ main = "exited" => target = NoTarget \/ attempt = retries

DaemonInv == DaemonTypeOK /\ MonitorInv /\ TargetKnown

LEMMA DaemonInitInv ==
  ASSUME MonitorAssumption, DaemonAssumption, DaemonInit PROVE DaemonInv
<1>1. MonitorInv
  BY NothingHeardInv DEF DaemonInit
<1>2. retries \in Nat /\ FirstAttempt \in 0..retries
  BY DEF DaemonInit, DaemonAssumption, FirstAttempt
<1>3. CASE given = "absent"
  BY <1>1, <1>2, <1>3
  DEF DaemonInit, DaemonInv, DaemonTypeOK, MonitorInv, TargetKnown, NothingHeard
<1>4. CASE given # "absent"
  <2>1. /\ target \in Targets
        /\ main = FirstStop /\ attempt = FirstAttempt /\ pc = "ended" /\ events = <<>>
    BY <1>4 DEF DaemonInit, NothingHeard, Targets
  <2> QED
    BY <1>1, <1>2, <1>4, <2>1
    DEF DaemonInit, DaemonInv, DaemonTypeOK, MonitorInv, TargetKnown, FirstStop, FirstAttempt
<1> QED
  BY <1>3, <1>4

-----------------------------------------------------------------------------
(* While main watches and reads nothing: the thread and BlueZ go on.       *)

LEMMA MonitorIsAlive ==
  ASSUME Monitor PROVE pc # "ended" /\ UNCHANGED view
BY DEF Monitor, OpenBus, ScanForConnected, AddMatch, OpenStream, HandleSignal,
       ReadAddress, ReadUuids, RecheckUuids, RecheckAddress

LEMMA BackgroundInv ==
  ASSUME MonitorAssumption, DaemonInv,
         Bluez \/ Monitor, UNCHANGED <<mainVars, options>>
  PROVE  DaemonInv'
<1> USE DEF DaemonInv
<1>1. MonitorInv'
  BY BluezInv, RunMonitorInv
<1>2. DaemonTypeOK'
  BY <1>1 DEF DaemonTypeOK, MonitorInv, mainVars, options
<1>3. UNCHANGED view /\ (main # "watch" => UNCHANGED <<pc, events>>)
  BY BluezKeeps, MonitorIsAlive DEF TargetKnown
<1> QED
  BY <1>1, <1>2, <1>3 DEF TargetKnown, mainVars, options

(* The bus goes away under the thread.                                     *)
LEMMA StreamEndsInv ==
  ASSUME MonitorAssumption, DaemonInv, StreamEnds PROVE DaemonInv'
<1> USE DEF DaemonInv
<1>1. /\ pc = "listen" /\ pc' = "ended"
      /\ UNCHANGED <<bluezVars, msg, address, pending, confirmed, stream, events, view>>
      /\ UNCHANGED <<mainVars, options>>
  BY DEF StreamEnds
<1>2. TypeOK'
  BY <1>1 DEF MonitorInv, TypeOK, bluezVars
<1>3. MonitorInv'
  <2>1. /\ pc' \notin Handling /\ pc' \notin Starting /\ pc' # "recheck_address"
    BY <1>1 DEF Handling, Starting
  <2>2. /\ \A i \in DOMAIN stream' : SaysTrue(stream'[i], uuids)
        /\ ~Unreliable => confirmed \intersect pending' = {}
    BY <1>1 DEF MonitorInv, OnlyKnown, ConfirmedAreHeld
  <2> QED
    BY <1>1, <1>2, <2>1, <2>2, QuietStepInv
<1> QED
  BY <1>1, <1>2, <1>3 DEF TargetKnown, DaemonTypeOK, mainVars, options

-----------------------------------------------------------------------------
(* main.                                                                   *)

(* A step of connect_with_retries or of the session leaves the rest alone. *)
LEMMA ConnectingInv ==
  ASSUME MonitorAssumption, DaemonAssumption, DaemonInv,
         ConnectOk \/ ConnectFails \/ NextAttempt \/ SessionEnds
  PROVE  DaemonInv'
<1> USE DEF DaemonInv
<1>1. UNCHANGED vars /\ UNCHANGED options /\ UNCHANGED target
  BY DEF ConnectOk, ConnectFails, NextAttempt, SessionEnds
<1>2. MonitorInv'
  BY <1>1, StutterInv
<1>3. retries \in Nat /\ attempt \in Nat
  BY DEF DaemonTypeOK, DaemonAssumption
<1>4. UNCHANGED <<pc, events, view>>
  BY <1>1 DEF vars, threadVars
<1>5. CASE ConnectOk
  BY <1>1, <1>2, <1>4, <1>5
  DEF ConnectOk, ParseBdaddr, DaemonTypeOK, MonitorInv, TargetKnown, options
<1>6. CASE ConnectFails
  BY <1>1, <1>2, <1>3, <1>4, <1>6
  DEF ConnectFails, AfterFailure, DaemonTypeOK, MonitorInv, TargetKnown, options
<1>7. CASE NextAttempt
  BY <1>1, <1>2, <1>3, <1>4, <1>7
  DEF NextAttempt, DaemonTypeOK, MonitorInv, TargetKnown, options
<1>8. CASE SessionEnds
  BY <1>1, <1>2, <1>4, <1>8
  DEF SessionEnds, DaemonTypeOK, MonitorInv, TargetKnown, options
<1> QED
  BY <1>5, <1>6, <1>7, <1>8

(* The channel is closed: nothing was in it.                               *)
LEMMA WatchFailsInv ==
  ASSUME MonitorAssumption, DaemonInv, WatchFails PROVE DaemonInv'
<1> USE DEF DaemonInv
<1>1. UNCHANGED vars /\ UNCHANGED options /\ UNCHANGED <<target, attempt>>
      /\ main = "watch" /\ main' = "exited" /\ pc = "ended" /\ events = <<>>
  BY DEF WatchFails, ChannelClosed
<1>2. MonitorInv'
  BY <1>1, StutterInv
<1> QED
  BY <1>1, <1>2 DEF DaemonTypeOK, MonitorInv, TargetKnown, vars, threadVars, options

(* While main watches, the next event is a Connected event: a Disconnected *)
(* one would need a device main was told of, and main stops at the first.  *)
LEMMA NextIsConnected ==
  ASSUME DaemonInv, main = "watch", events # <<>>
  PROVE  Head(events).kind = "Connected"
<1> USE DEF DaemonInv
<1>1. /\ events \in Seq(Events) /\ Head(events) = events[1]
      /\ 1 \in DOMAIN events /\ events[1] \in Events
  BY DEF MonitorInv, TypeOK
<1>2. HeldAfter(0) = {}
  BY DEF TargetKnown, HeldAfter
<1>3. events[1].kind # "Disconnected"
  BY <1>1, <1>2 DEF MonitorInv, DisconnectsMatch
<1> QED
  BY <1>1, <1>3 DEF Events

(* Whatever the thread was doing, dropping it leaves nothing half done.    *)
LEMMA DropMonitorInv ==
  ASSUME MonitorAssumption, MonitorInv, events # <<>>, DropMonitor,
         view' = Held(view, Head(events))
  PROVE  MonitorInv'
<1> USE DEF MonitorInv, DropMonitor
<1>1. /\ Head(events) = events[1] /\ 1 \in DOMAIN events /\ events[1] \in Events
      /\ events[1].dev \in Devices
  BY DEF TypeOK, Events
<1>2. events[1].dev \in AirPods /\ uuids[events[1].dev] = "airpods"
  BY <1>1 DEF OnlyKnown
<1>3. view' \subseteq AirPods /\ \A d \in view' : uuids[d] = "airpods"
  BY <1>1, <1>2 DEF Held, OnlyKnown, TypeOK
<1>4. TypeOK'
  <2>1. /\ stream' \in Seq(Signals) /\ events' \in Seq(Events)
        /\ pending' \subseteq Devices /\ confirmed' \subseteq AirPods
    OBVIOUS
  <2> QED
    BY <1>3, <2>1 DEF TypeOK, bluezVars
<1>5. OnlyKnown'
  BY <1>3 DEF OnlyKnown, Handling, bluezVars
<1>6. DisconnectsMatch' /\ ConfirmedAreHeld'
  BY DEF DisconnectsMatch, ConfirmedAreHeld
<1> QED
  BY <1>4, <1>5, <1>6

LEMMA WatchEventInv ==
  ASSUME MonitorAssumption, DaemonAssumption, DaemonInv, WatchEvent
  PROVE  DaemonInv'
<1> USE DEF DaemonInv
<1> DEFINE e == Head(events)
<1>1. main = "watch" /\ events # <<>> /\ UNCHANGED options /\ e.kind = "Connected"
  BY NextIsConnected DEF WatchEvent
<1>2. /\ target' = [dev |-> e.dev, address |-> e.address]
      /\ view' = Held(view, e)
      /\ DropMonitor
      /\ main' = FirstStop /\ attempt' = FirstAttempt
  BY <1>1 DEF WatchEvent
<1>3. MonitorInv'
  BY <1>1, <1>2, DropMonitorInv
<1>4. e \in Events /\ e = events[1] /\ 1 \in DOMAIN events
  BY <1>1 DEF MonitorInv, TypeOK
<1>5. e.dev \in Devices /\ e.address \in BOOLEAN
  BY <1>1, <1>4 DEF Events
<1>6. e.dev \in AirPods
  BY <1>4, <1>5 DEF MonitorInv, OnlyKnown
<1> HIDE DEF e
<1>7. target' \in Targets /\ target'.dev \in AirPods \intersect view'
  BY <1>1, <1>2, <1>5, <1>6 DEF Targets, Held
<1>8. retries \in Nat
  BY DEF DaemonTypeOK, DaemonAssumption
<1>9. pc' = "ended" /\ events' = <<>>
  BY <1>2 DEF DropMonitor
<1> QED
  BY <1>1, <1>2, <1>3, <1>7, <1>8, <1>9
  DEF DaemonTypeOK, MonitorInv, TargetKnown, FirstStop, FirstAttempt, options

LEMMA DaemonStutterInv ==
  ASSUME DaemonInv, UNCHANGED daemonVars PROVE DaemonInv'
<1>1. MonitorInv'
  BY StutterInv DEF DaemonInv, daemonVars
<1> QED
  BY <1>1 DEF DaemonInv, DaemonTypeOK, MonitorInv, TargetKnown, daemonVars,
              mainVars, options, vars, threadVars

-----------------------------------------------------------------------------
THEOREM DaemonIsInvariant == DaemonSpec => []DaemonInv
<1>1. DaemonInit => DaemonInv
  BY MonitorAssumption, DaemonAssumption, DaemonInitInv
<1>2. DaemonInv /\ [DaemonNext]_daemonVars => DaemonInv'
  BY MonitorAssumption, DaemonAssumption, BackgroundInv, StreamEndsInv,
     ConnectingInv, WatchFailsInv, WatchEventInv, DaemonStutterInv
  DEF DaemonNext, Main
<1> QED
  BY <1>1, <1>2, PTL DEF DaemonSpec

(* Every variable of the daemon and of its monitor keeps its type; no more *)
(* attempts are made than --retries allows.                                *)
THEOREM DaemonTypes == DaemonSpec => []DaemonTypeOK
<1>1. DaemonInv => DaemonTypeOK
  BY DEF DaemonInv
<1> QED
  BY <1>1, DaemonIsInvariant, PTL

(* A session is opened to an address only, and without --address to that   *)
(* of AirPods main was told of.                                            *)
THEOREM SessionsHaveAddresses == DaemonSpec => []SessionHasAddress
<1>1. DaemonInv => SessionHasAddress
  BY DEF DaemonInv, TargetKnown, SessionHasAddress
<1> QED
  BY <1>1, DaemonIsInvariant, PTL

(* A target is given up after exactly --retries attempts, and every pause  *)
(* is followed by one more.                                                *)
THEOREM TargetsAreGivenUpInTime == DaemonSpec => []GivesUpInTime
<1>1. DaemonInv => GivesUpInTime
  BY DEF DaemonInv, TargetKnown, GivesUpInTime
<1> QED
  BY <1>1, DaemonIsInvariant, PTL

(* Under main, too, the monitor's events match, confirmed_devices is what  *)
(* the channel says and nothing but AirPods is reported.                   *)
THEOREM MonitorUnderMain ==
  DaemonSpec => [](DisconnectsMatch /\ ConfirmedAreHeld /\ OnlyAirPodsReported)
<1>1. DaemonInv => DisconnectsMatch /\ ConfirmedAreHeld /\ OnlyAirPodsReported
  BY OnlyAirPodsFromInv DEF DaemonInv, MonitorInv
<1> QED
  BY <1>1, DaemonIsInvariant, PTL

(* The Disconnected arm of main's loop is never taken: main reads nothing  *)
(* but Connected events.                                                   *)
THEOREM OnlyConnectedIsRead ==
  DaemonSpec => [](main = "watch" /\ events # <<>> => Head(events).kind = "Connected")
<1>1. DaemonInv => (main = "watch" /\ events # <<>> => Head(events).kind = "Connected")
  BY NextIsConnected
<1> QED
  BY <1>1, DaemonIsInvariant, PTL

=============================================================================
