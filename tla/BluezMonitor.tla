---------------------------- MODULE BluezMonitor ----------------------------
(***************************************************************************)
(* Which AirPods are connected: run_monitor and its channel                *)
(* (librepods-linux/src/bluez_monitor.rs).                                 *)
(*                                                                         *)
(* A thread of its own scans once, subscribes to BlueZ's property changes  *)
(* and turns them into Connected and Disconnected events for whoever calls *)
(* next_event.  Each of its awaits is a step: BlueZ goes on changing, and  *)
(* queueing signals, while the thread waits for a reply.                   *)
(*                                                                         *)
(* BlueZ is external, modelled from what the code reads: a device connects *)
(* before its services are resolved, its UUIDs may be known from before or *)
(* arrive in parts, and the changes of one device are announced together,  *)
(* some time after they happened, with the values they have by then.       *)
(***************************************************************************)
EXTENDS Naturals, SequencesExt

CONSTANTS
  Devices,     \* object paths of Bluetooth devices
  AirPods,     \* those that are AirPods
  InitUp,      \* devices connected when the daemon starts
  InitUuids,   \* what BlueZ may know of a device's UUIDs by then
  EarlyMoves,  \* may devices change before the thread listens?
  Unreliable,  \* may a D-Bus call fail?
  MaxChanges   \* bound on the changes BlueZ makes

ASSUME MonitorAssumption ==
  /\ IsFiniteSet(Devices)
  /\ AirPods \subseteq Devices
  /\ InitUp \subseteq Devices
  /\ InitUuids \subseteq {"none", "some", "airpods"} /\ InitUuids # {}
  /\ EarlyMoves \in BOOLEAN
  /\ Unreliable \in BOOLEAN
  /\ MaxChanges \in Nat

VARIABLES
  conn, uuids, resolved,  \* BlueZ: Connected, UUIDs, ServicesResolved
  dirty,                  \* BlueZ: properties changed and not yet announced
  changes,                \* BlueZ: changes made so far
  pc,                     \* where run_monitor is
  stream,                 \* signals waiting in the message stream
  msg,                    \* the signal being handled
  address,                \* was the Address just read ("" if not)?
  pending, confirmed,     \* pending_devices, the keys of confirmed_devices
  events,                 \* the channel to next_event
  view                    \* devices a caller of next_event holds connected

bluezVars == <<conn, uuids, resolved, dirty, changes>>
threadVars == <<pc, msg, address, pending, confirmed>>
vars == <<bluezVars, threadVars, stream, events, view>>

Props == {"Connected", "UUIDs", "ServicesResolved"}
UuidSets == {"none", "some", "airpods"}
Signals == [dev: Devices, keys: SUBSET Props, connected: BOOLEAN,
            uuids: UuidSets, resolved: BOOLEAN]
(* An event carries an address: for Connected, is it there, or empty?  That *)
(* of Disconnected is logged and no more.                                  *)
Events == [kind: {"Connected"}, dev: Devices, address: BOOLEAN]
          \union [kind: {"Disconnected"}, dev: Devices]
Starting == {"open_bus", "scan", "add_match", "open_stream"}
NoSignal == [keys |-> {}]

TypeOK ==
  /\ conn \in [Devices -> BOOLEAN]
  /\ uuids \in [Devices -> UuidSets]
  /\ resolved \in [Devices -> BOOLEAN]
  /\ dirty \in [Devices -> SUBSET Props]
  /\ changes \in 0..MaxChanges
  /\ pc \in Starting \union
       {"listen", "read_address", "read_uuids", "recheck_uuids",
        "recheck_address", "ended"}
  /\ stream \in Seq(Signals)
  /\ msg \in Signals \union {NoSignal}
  /\ address \in BOOLEAN
  /\ pending \subseteq Devices
  /\ confirmed \subseteq AirPods
  /\ events \in Seq(Events)
  /\ view \subseteq AirPods

-----------------------------------------------------------------------------
(* BlueZ (external).                                                       *)

Change(d, props) ==
  /\ changes < MaxChanges
  /\ EarlyMoves \/ pc \notin Starting
  /\ changes' = changes + 1
  /\ dirty' = [dirty EXCEPT ![d] = @ \union props]
  /\ UNCHANGED <<threadVars, stream, events, view>>

Connects(d) ==
  /\ ~conn[d]
  /\ conn' = [conn EXCEPT ![d] = TRUE]
  /\ Change(d, {"Connected"})
  /\ UNCHANGED <<uuids, resolved>>

Disconnects(d) ==
  /\ conn[d]
  /\ conn' = [conn EXCEPT ![d] = FALSE]
  /\ resolved' = [resolved EXCEPT ![d] = FALSE]
  /\ Change(d, {"Connected"} \union IF resolved[d] THEN {"ServicesResolved"} ELSE {})
  /\ UNCHANGED uuids

(* Some first UUIDs of a connected device are found.                       *)
FindsUuids(d) ==
  /\ conn[d] /\ ~resolved[d] /\ uuids[d] = "none"
  /\ uuids' = [uuids EXCEPT ![d] = "some"]
  /\ Change(d, {"UUIDs"})
  /\ UNCHANGED <<conn, resolved>>

(* Service discovery ends: all UUIDs are known.                            *)
Resolves(d) ==
  /\ conn[d] /\ ~resolved[d]
  /\ resolved' = [resolved EXCEPT ![d] = TRUE]
  /\ uuids' = [uuids EXCEPT ![d] = IF d \in AirPods THEN "airpods" ELSE "some"]
  /\ Change(d, {"ServicesResolved"} \union IF uuids' # uuids THEN {"UUIDs"} ELSE {})
  /\ UNCHANGED conn

(* PropertiesChanged goes out; before the stream is open nobody gets it.   *)
Announces(d) ==
  /\ dirty[d] # {}
  /\ dirty' = [dirty EXCEPT ![d] = {}]
  /\ stream' = IF pc \in Starting \union {"ended"} THEN stream
               ELSE Append(stream, [dev |-> d, keys |-> dirty[d],
                                    connected |-> conn[d], uuids |-> uuids[d],
                                    resolved |-> resolved[d]])
  /\ UNCHANGED <<conn, uuids, resolved, changes, threadVars, events, view>>

Bluez == \E d \in Devices : Connects(d) \/ Disconnects(d) \/ FindsUuids(d)
                            \/ Resolves(d) \/ Announces(d)

-----------------------------------------------------------------------------
(* run_monitor.                                                            *)

(* Mistake: any service will do. *)
ContainsAnyUuid(u) == u # "none"

ContainsAirpodsUuid(u) == u = "airpods"

ConnectedEvent(d, addr) == [kind |-> "Connected", dev |-> d, address |-> addr]
DisconnectedEvent(d) == [kind |-> "Disconnected", dev |-> d]

(* Without a connection to the system bus the thread ends.                 *)
OpenBus ==
  /\ pc = "open_bus"
  /\ \/ pc' = "scan"
     \/ Unreliable /\ pc' = "ended"
  /\ UNCHANGED <<bluezVars, msg, address, pending, confirmed, stream, events, view>>

(* The objects whose Connected event the startup scan sends.               *)
FoundByScan == {d \in Devices : conn[d] /\ ContainsAirpodsUuid(uuids[d])}

(* check_already_connected_async: one reply, its objects in any order.  It *)
(* only sends events; the thread's own sets start empty all the same.      *)
ScanForConnected ==
  /\ pc = "scan"
  /\ pc' = "add_match"
  /\ \/ \E order \in SetToSeqs(FoundByScan) :
          events' = events \o [i \in DOMAIN order |-> ConnectedEvent(order[i], TRUE)]
     \/ Unreliable /\ UNCHANGED events
  /\ UNCHANGED <<bluezVars, msg, address, pending, confirmed, stream, view>>

(* A failing AddMatch ends the thread, and with it the channel.            *)
AddMatch ==
  /\ pc = "add_match"
  /\ \/ pc' = "open_stream"
     \/ Unreliable /\ pc' = "ended"
  /\ UNCHANGED <<bluezVars, msg, address, pending, confirmed, stream, events, view>>

OpenStream ==
  /\ pc = "open_stream"
  /\ pc' = "listen"
  /\ UNCHANGED <<bluezVars, msg, address, pending, confirmed, stream, events, view>>

(* Mistake: a pending device is not looked at again. *)
NeverRecheck(m, waiting) == FALSE

NeedsRecheck(m, waiting) ==
  /\ m.dev \in waiting
  /\ "UUIDs" \in m.keys \/ ("ServicesResolved" \in m.keys /\ m.resolved)

(* The second half of the loop body, with `waiting' the pending devices:   *)
(* the UUIDs of the signal are used unless there are none.                 *)
SecondHalf(m, waiting) ==
  IF ~NeedsRecheck(m, waiting) THEN pc' = "listen" /\ msg' = NoSignal
  ELSE IF "UUIDs" \notin m.keys \/ m.uuids = "none"
    THEN pc' = "recheck_uuids" /\ msg' = m
  ELSE IF ContainsAirpodsUuid(m.uuids)
    THEN pc' = "recheck_address" /\ msg' = m
  ELSE pc' = "listen" /\ msg' = NoSignal

HandleConnected(m) ==
  /\ pc' = "read_address" /\ msg' = m
  /\ UNCHANGED <<pending, confirmed, events>>

(* Mistakes: a device is reported gone that was never reported, stays      *)
(* confirmed when gone, or goes without a word.                            *)
DisconnectUnconfirmed(m) ==
  /\ pending' = pending \ {m.dev}
  /\ confirmed' = confirmed \ {m.dev}
  /\ events' = Append(events, DisconnectedEvent(m.dev))
  /\ SecondHalf(m, pending')

DisconnectStaysConfirmed(m) ==
  /\ pending' = pending \ {m.dev}
  /\ events' = IF m.dev \in confirmed
               THEN Append(events, DisconnectedEvent(m.dev)) ELSE events
  /\ SecondHalf(m, pending')
  /\ UNCHANGED confirmed

DisconnectSilently(m) ==
  /\ pending' = pending \ {m.dev}
  /\ confirmed' = confirmed \ {m.dev}
  /\ SecondHalf(m, pending')
  /\ UNCHANGED events

HandleDisconnected(m) ==
  /\ pending' = pending \ {m.dev}
  /\ confirmed' = confirmed \ {m.dev}
  /\ events' = IF m.dev \in confirmed
               THEN Append(events, DisconnectedEvent(m.dev)) ELSE events
  /\ SecondHalf(m, pending')

HandleSignal ==
  /\ pc = "listen"
  /\ stream # <<>>
  /\ stream' = Tail(stream)
  /\ LET m == Head(stream) IN
     \/ "Connected" \in m.keys /\ m.connected /\ HandleConnected(m)
     \/ "Connected" \in m.keys /\ ~m.connected /\ HandleDisconnected(m)
     \/ /\ "Connected" \notin m.keys
        /\ SecondHalf(m, pending)
        /\ UNCHANGED <<pending, confirmed, events>>
  /\ UNCHANGED <<bluezVars, address, view>>

(* Get(Address), or "" when the call fails; Get(Name) decides nothing.     *)
ReadAddress ==
  /\ pc = "read_address"
  /\ pc' = "read_uuids"
  /\ address' \in {TRUE} \union IF Unreliable THEN {FALSE} ELSE {}
  /\ UNCHANGED <<bluezVars, msg, pending, confirmed, stream, events, view>>

(* Get(UUIDs) as they are when BlueZ answers; none when the call fails.    *)
UuidsRead(d) == {uuids[d]} \union IF Unreliable THEN {"none"} ELSE {}

(* Mistake: a confirmed device is still pending. *)
ConfirmKeepsPending(d, addr) ==
  /\ confirmed' = confirmed \union {d}
  /\ pending' = pending
  /\ events' = Append(events, ConnectedEvent(d, addr))

Confirm(d, addr) ==
  /\ confirmed' = confirmed \union {d}
  /\ pending' = pending \ {d}
  /\ events' = Append(events, ConnectedEvent(d, addr))

ReadUuids ==
  /\ pc = "read_uuids"
  /\ \E u \in UuidsRead(msg.dev) :
       IF ContainsAirpodsUuid(u)
         THEN Confirm(msg.dev, address)
         ELSE /\ pending' = pending \union {msg.dev}
              /\ UNCHANGED <<confirmed, events>>
  /\ SecondHalf(msg, pending')
  /\ UNCHANGED <<bluezVars, address, stream, view>>

RecheckUuids ==
  /\ pc = "recheck_uuids"
  /\ \E u \in UuidsRead(msg.dev) :
       IF ContainsAirpodsUuid(u) THEN pc' = "recheck_address" /\ UNCHANGED msg
                                 ELSE pc' = "listen" /\ msg' = NoSignal
  /\ UNCHANGED <<bluezVars, address, pending, confirmed, stream, events, view>>

RecheckAddress ==
  /\ pc = "recheck_address"
  /\ \E addr \in {TRUE} \union IF Unreliable THEN {FALSE} ELSE {} :
       Confirm(msg.dev, addr)
  /\ pc' = "listen" /\ msg' = NoSignal
  /\ UNCHANGED <<bluezVars, address, stream, view>>

Monitor == OpenBus \/ ScanForConnected \/ AddMatch \/ OpenStream \/ HandleSignal
           \/ ReadAddress \/ ReadUuids \/ RecheckUuids \/ RecheckAddress

-----------------------------------------------------------------------------
(* next_event, polled every 100 ms, hands out the events in order.         *)
Held(held, e) ==
  IF e.kind = "Connected" THEN held \union {e.dev} ELSE held \ {e.dev}

NextEvent ==
  /\ events # <<>>
  /\ events' = Tail(events)
  /\ view' = Held(view, Head(events))
  /\ UNCHANGED <<bluezVars, threadVars, stream>>

(* As the monitor is created: BlueZ has devices, nothing is known of them. *)
NothingHeard ==
  /\ conn = [d \in Devices |-> d \in InitUp]
  /\ uuids \in [Devices -> InitUuids]
  /\ \A d \in Devices \ AirPods : uuids[d] # "airpods"
  /\ resolved = [d \in Devices |-> FALSE]
  /\ dirty = [d \in Devices |-> {}]
  /\ changes = 0
  /\ stream = <<>>
  /\ msg = NoSignal
  /\ address = FALSE
  /\ pending = {} /\ confirmed = {}
  /\ events = <<>>
  /\ view = {}

Init == NothingHeard /\ pc = "open_bus"

Next == Bluez \/ Monitor \/ NextEvent

(* The thread's runtime polls it, D-Bus calls are answered, BlueZ          *)
(* announces what it changed, and somebody calls next_event in a loop.     *)
(* Nothing has to connect, disconnect or resolve.                          *)
Spec == /\ Init /\ [][Next]_vars
        /\ WF_vars(Monitor) /\ WF_vars(NextEvent)
        /\ \A d \in Devices : WF_vars(Announces(d))

-----------------------------------------------------------------------------
(* Properties.                                                             *)

Tells(i, kind, d) == events[i].kind = kind /\ events[i].dev = d

(* The devices held connected by a caller that has read the first n events *)
(* of the channel.                                                         *)
HeldAfter(n) ==
  {d \in Devices :
     \/ d \in view /\ \A i \in 1..n : ~Tells(i, "Disconnected", d)
     \/ \E k \in 1..n : /\ Tells(k, "Connected", d)
                        /\ \A i \in (k + 1)..n : ~Tells(i, "Disconnected", d)}

(* A Disconnected event follows a Connected event of the same device that  *)
(* nothing has disconnected since: next_event's caller never hears of the  *)
(* loss of a device it was not told of (confirmed_devices guards it).      *)
DisconnectsMatch ==
  \A i \in DOMAIN events :
    events[i].kind = "Disconnected" => events[i].dev \in HeldAfter(i - 1)

(* A confirmed device is held connected by whoever has read the channel,   *)
(* so that its disconnection will be told; with calls that work a device   *)
(* is never confirmed and pending at once.                                 *)
ConfirmedAreHeld ==
  /\ confirmed \subseteq HeldAfter(Len(events))
  /\ ~Unreliable => confirmed \intersect pending = {}

(* Only AirPods are reported, whatever is announced in whatever order.     *)
OnlyAirPodsReported == \A i \in DOMAIN events : events[i].dev \in AirPods

(* AirPods that stay connected with their services resolved are reported,  *)
(* although Connected comes "before SDP service discovery has completed"   *)
(* (bluez_monitor.rs:11-14), and stay reported.                            *)
ConnectIsReported ==
  \A d \in AirPods :
    <>[](conn[d] /\ uuids[d] = "airpods") => <>[](d \in view)

(* "Watches for AirPods connection/disconnection events"                   *)
(* (bluez_monitor.rs:7): AirPods that are gone for good are reported gone. *)
DisconnectIsReported ==
  \A d \in AirPods : <>[](~conn[d]) => <>[](d \notin view)
=============================================================================
