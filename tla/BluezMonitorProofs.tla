------------------------- MODULE BluezMonitorProofs -------------------------
(***************************************************************************)
(* Proofs about BluezMonitor, for every finite set of devices: its types,  *)
(* and that its events match, whatever BlueZ announces in whatever order   *)
(* and whichever calls fail.                                               *)
(*                                                                         *)
(* The steps are proved for Bluez, Monitor and NextEvent apart, so that    *)
(* the proofs about Daemon, which has the first two as they are, can cite  *)
(* them.                                                                   *)
(***************************************************************************)
EXTENDS BluezMonitor, FiniteSetTheorems, SequenceTheorems, TLAPS

(* The devices held after the first n of the events evs, by a caller that  *)
(* held those in v before.                                                 *)
HeldOf(v, evs, n) ==
  {d \in Devices :
     \/ /\ d \in v
        /\ \A i \in 1..n : ~(evs[i].kind = "Disconnected" /\ evs[i].dev = d)
     \/ \E k \in 1..n :
          /\ evs[k].kind = "Connected" /\ evs[k].dev = d
          /\ \A i \in (k + 1)..n : ~(evs[i].kind = "Disconnected" /\ evs[i].dev = d)}

LEMMA HeldAfterIsHeldOf ==
  \A n : HeldAfter(n) = HeldOf(view, events, n)
BY DEF HeldAfter, HeldOf, Tells

(* Events to come do not change what the earlier ones have said.           *)
LEMMA HeldOfPrefix ==
  ASSUME NEW v, NEW evs \in Seq(Events), NEW more \in Seq(Events),
         NEW n \in 0..Len(evs), Len(more) >= Len(evs),
         \A i \in 1..Len(evs) : more[i] = evs[i]
  PROVE  HeldOf(v, more, n) = HeldOf(v, evs, n)
<1>1. \A i \in 1..n : more[i] = evs[i]
  OBVIOUS
<1>2. \A k \in 1..n : \A i \in (k + 1)..n : i \in 1..n
  OBVIOUS
<1> QED
  BY <1>1, <1>2 DEF HeldOf

(* One event more is taken in as next_event's caller takes it in.          *)
LEMMA HeldOfNext ==
  ASSUME NEW v, NEW evs \in Seq(Events), NEW n \in Nat, n + 1 <= Len(evs)
  PROVE  HeldOf(v, evs, n + 1) = Held(HeldOf(v, evs, n), evs[n + 1])
<1> DEFINE e == evs[n + 1]
           Gone(d, i) == evs[i].kind = "Disconnected" /\ evs[i].dev = d
           Come(d, i) == evs[i].kind = "Connected" /\ evs[i].dev = d
<1>1. e \in Events /\ n + 1 \in 1..(n + 1)
  OBVIOUS
<1>2. e.dev \in Devices /\ e.kind \in {"Connected", "Disconnected"}
  BY <1>1 DEF Events
<1>3. \A d : \A k \in 1..(n + 1) :
        (\A i \in k..(n + 1) : ~Gone(d, i))
          <=> (\A i \in k..n : ~Gone(d, i)) /\ ~Gone(d, n + 1)
  OBVIOUS
<1>4. \A d : (\A i \in (n + 2)..(n + 1) : ~Gone(d, i))
  OBVIOUS
<1>5. \A d \in Devices : d \in HeldOf(v, evs, n + 1) <=>
        \/ d \in v /\ (\A i \in 1..n : ~Gone(d, i)) /\ ~Gone(d, n + 1)
        \/ Come(d, n + 1)
        \/ \E k \in 1..n : Come(d, k) /\ (\A i \in (k + 1)..n : ~Gone(d, i))
                           /\ ~Gone(d, n + 1)
  <2> TAKE d \in Devices
  <2>1. (\E k \in 1..(n + 1) : Come(d, k) /\ \A i \in (k + 1)..(n + 1) : ~Gone(d, i))
          <=> \/ Come(d, n + 1)
              \/ \E k \in 1..n : Come(d, k) /\ (\A i \in (k + 1)..n : ~Gone(d, i))
                                 /\ ~Gone(d, n + 1)
    <3>1. \A k \in 1..(n + 1) : k = n + 1 \/ (k \in 1..n /\ k + 1 \in 1..(n + 1))
      OBVIOUS
    <3>2. n + 1 + 1 = n + 2 /\ n + 1 \in 1..(n + 1) /\ \A k \in 1..n : k \in 1..(n + 1)
      OBVIOUS
    <3> HIDE DEF Gone, Come
    <3> QED
      BY <1>3, <1>4, <3>1, <3>2
  <2>2. (\A i \in 1..(n + 1) : ~Gone(d, i))
          <=> (\A i \in 1..n : ~Gone(d, i)) /\ ~Gone(d, n + 1)
    BY <1>3, 1 \in 1..(n + 1)
  <2> QED
    BY <2>1, <2>2 DEF HeldOf
<1>6. \A d \in Devices : d \in HeldOf(v, evs, n) <=>
        \/ d \in v /\ (\A i \in 1..n : ~Gone(d, i))
        \/ \E k \in 1..n : Come(d, k) /\ (\A i \in (k + 1)..n : ~Gone(d, i))
  BY DEF HeldOf
<1>7. \A d : (Come(d, n + 1) <=> e.kind = "Connected" /\ e.dev = d)
             /\ (Gone(d, n + 1) <=> e.kind = "Disconnected" /\ e.dev = d)
  OBVIOUS
<1>8. \A d \in Devices :
        d \in HeldOf(v, evs, n + 1) <=> d \in Held(HeldOf(v, evs, n), e)
  <2> HIDE DEF Gone, Come, e
  <2> QED
    BY <1>2, <1>5, <1>6, <1>7 DEF Held
<1>9. HeldOf(v, evs, n + 1) \subseteq Devices /\ HeldOf(v, evs, n) \subseteq Devices
  BY DEF HeldOf
<1>10. Held(HeldOf(v, evs, n), e) \subseteq Devices
  BY <1>2, <1>9 DEF Held
<1> QED
  BY <1>8, <1>9, <1>10

(* The caller takes in the first event: what the others say of the devices *)
(* held then is what all of them said before.                              *)
LEMMA HeldOfTail ==
  ASSUME NEW v \in SUBSET Devices, NEW evs \in Seq(Events), evs # <<>>,
         NEW n \in 0..(Len(evs) - 1)
  PROVE  HeldOf(Held(v, Head(evs)), Tail(evs), n) = HeldOf(v, evs, n + 1)
<1> DEFINE Gone(d, i) == evs[i].kind = "Disconnected" /\ evs[i].dev = d
           Come(d, i) == evs[i].kind = "Connected" /\ evs[i].dev = d
<1>1. Head(evs) = evs[1] /\ Len(evs) \in Nat /\ Len(evs) >= 1
  OBVIOUS
<1>2. \A i \in 1..n : Tail(evs)[i] = evs[i + 1]
  BY HeadTailProperties, <1>1
<1>3. \A d : \A k \in 0..n :
        (\A i \in (k + 1)..n : ~Gone(d, i + 1))
          <=> (\A i \in (k + 2)..(n + 1) : ~Gone(d, i))
  <2> TAKE d
  <2> TAKE k \in 0..n
  <2>1. \A i \in (k + 2)..(n + 1) : i - 1 \in (k + 1)..n /\ (i - 1) + 1 = i
    OBVIOUS
  <2>2. \A i \in (k + 1)..n : i + 1 \in (k + 2)..(n + 1)
    OBVIOUS
  <2> HIDE DEF Gone
  <2> QED
    BY <2>1, <2>2
<1>4. \A d : (\A i \in 1..(n + 1) : ~Gone(d, i))
               <=> ~Gone(d, 1) /\ \A i \in 2..(n + 1) : ~Gone(d, i)
  OBVIOUS
<1>5. \A d \in Devices : d \in HeldOf(Held(v, Head(evs)), Tail(evs), n) <=>
        \/ d \in Held(v, Head(evs)) /\ \A i \in 1..n : ~Gone(d, i + 1)
        \/ \E k \in 1..n : Come(d, k + 1) /\ \A i \in (k + 1)..n : ~Gone(d, i + 1)
  <2> TAKE d \in Devices
  <2>1. \A k \in 1..n : \A i \in (k + 1)..n : i \in 1..n
    OBVIOUS
  <2> QED
    BY <1>2, <2>1 DEF HeldOf
<1>6. \A d \in Devices : d \in HeldOf(v, evs, n + 1) <=>
        \/ d \in v /\ ~Gone(d, 1) /\ \A i \in 2..(n + 1) : ~Gone(d, i)
        \/ Come(d, 1) /\ \A i \in 2..(n + 1) : ~Gone(d, i)
        \/ \E k \in 1..n : Come(d, k + 1) /\ \A i \in (k + 2)..(n + 1) : ~Gone(d, i)
  <2> TAKE d \in Devices
  <2>1. (\E k \in 1..(n + 1) : Come(d, k) /\ \A i \in (k + 1)..(n + 1) : ~Gone(d, i))
          <=> \/ Come(d, 1) /\ \A i \in 2..(n + 1) : ~Gone(d, i)
              \/ \E k \in 1..n : Come(d, k + 1) /\ \A i \in (k + 2)..(n + 1) : ~Gone(d, i)
    <3>1. \A k \in 1..(n + 1) : k = 1 \/ (k - 1 \in 1..n /\ (k - 1) + 1 = k
                                          /\ (k - 1) + 2 = k + 1)
      OBVIOUS
    <3>2. \A k \in 1..n : k + 1 \in 1..(n + 1) /\ (k + 1) + 1 = k + 2
      OBVIOUS
    <3>3. 1 + 1 = 2 /\ 1 \in 1..(n + 1)
      OBVIOUS
    <3> HIDE DEF Gone, Come
    <3> QED
      BY <3>1, <3>2, <3>3
  <2> QED
    BY <1>4, <2>1 DEF HeldOf
<1>7. \A d : d \in Held(v, Head(evs)) <=> (d \in v /\ ~Gone(d, 1)) \/ Come(d, 1)
  <2>1. evs[1] \in Events
    BY <1>1
  <2>2. evs[1].kind \in {"Connected", "Disconnected"}
    BY <2>1 DEF Events
  <2> QED
    BY <1>1, <2>2 DEF Held
<1>8. \A d \in Devices : d \in HeldOf(Held(v, Head(evs)), Tail(evs), n)
                           <=> d \in HeldOf(v, evs, n + 1)
  <2>1. 0 + 1 = 1 /\ 0 + 2 = 2 /\ 0 \in 0..n /\ \A k \in 1..n : k \in 0..n
    OBVIOUS
  <2>2. \A d : (\A i \in 1..n : ~Gone(d, i + 1)) <=> (\A i \in 2..(n + 1) : ~Gone(d, i))
    BY <1>3, <2>1
  <2> HIDE DEF Gone, Come
  <2> QED
    BY <1>3, <1>5, <1>6, <1>7, <2>1, <2>2
<1>9. /\ HeldOf(Held(v, Head(evs)), Tail(evs), n) \subseteq Devices
      /\ HeldOf(v, evs, n + 1) \subseteq Devices
  BY DEF HeldOf
<1> QED
  BY <1>8, <1>9

-----------------------------------------------------------------------------
(* Where run_monitor has a signal in its hands.                            *)
Handling == {"read_address", "read_uuids", "recheck_uuids", "recheck_address"}

(* A signal that carries the AirPods' UUID is true, and stays true.        *)
SaysTrue(m, known) == m.uuids = "airpods" => known[m.dev] = "airpods"

(* Whatever is said to be AirPods, in a signal, an event, one of the       *)
(* thread's sets or by a caller, has the AirPods' UUID by now.             *)
OnlyKnown ==
  /\ \A d \in Devices : uuids[d] = "airpods" => d \in AirPods
  /\ \A i \in DOMAIN stream : SaysTrue(stream[i], uuids)
  /\ pc \in Handling => msg \in Signals /\ SaysTrue(msg, uuids)
  /\ pc = "recheck_address" => uuids[msg.dev] = "airpods"
  /\ \A i \in DOMAIN events : uuids[events[i].dev] = "airpods"
  /\ \A d \in confirmed \union view : uuids[d] = "airpods"

(* The inductive invariant.  DisconnectsMatch is not inductive without     *)
(* ConfirmedAreHeld, which is where it comes from, nor that one without    *)
(* the thread having begun with nothing confirmed.                         *)
MonitorInv ==
  /\ TypeOK
  /\ OnlyKnown
  /\ DisconnectsMatch
  /\ ConfirmedAreHeld
  /\ pc \in Starting => confirmed = {}

(* As the monitor is created.                                              *)
LEMMA NothingHeardInv ==
  ASSUME MonitorAssumption, NothingHeard, pc \in {"open_bus", "ended"}
  PROVE  MonitorInv
<1>1. TypeOK
  <2>1. uuids \in [Devices -> UuidSets]
    BY DEF MonitorAssumption, NothingHeard, UuidSets
  <2>2. conn \in [Devices -> BOOLEAN] /\ resolved \in [Devices -> BOOLEAN]
        /\ dirty \in [Devices -> SUBSET Props] /\ changes \in 0..MaxChanges
    BY DEF MonitorAssumption, NothingHeard
  <2>3. stream \in Seq(Signals) /\ events \in Seq(Events)
    BY DEF NothingHeard
  <2>4. pending \subseteq Devices /\ confirmed \subseteq AirPods /\ view \subseteq AirPods
    BY DEF NothingHeard
  <2> QED
    BY <2>1, <2>2, <2>3, <2>4 DEF NothingHeard, TypeOK, Starting
<1>2. OnlyKnown
  BY DEF NothingHeard, OnlyKnown, Handling
<1>3. DisconnectsMatch /\ ConfirmedAreHeld
  BY DEF NothingHeard, DisconnectsMatch, ConfirmedAreHeld
<1> QED
  BY <1>1, <1>2, <1>3 DEF MonitorInv, NothingHeard

-----------------------------------------------------------------------------
(* BlueZ.                                                                  *)

(* A device that has the AirPods' UUID keeps it, and only AirPods get it.  *)
LEMMA BluezKnows ==
  ASSUME TypeOK, Bluez,
         \A d \in Devices : uuids[d] = "airpods" => d \in AirPods
  PROVE  /\ \A d \in Devices : uuids[d] = "airpods" => uuids'[d] = "airpods"
         /\ \A d \in Devices : uuids'[d] = "airpods" => d \in AirPods
BY DEF Bluez, Connects, Disconnects, FindsUuids, Resolves, Announces, TypeOK

LEMMA BluezType == ASSUME MonitorAssumption, TypeOK, Bluez PROVE TypeOK'
<1> USE DEF TypeOK, threadVars, Change, UuidSets, Props
<1>1. PICK d \in Devices : Connects(d) \/ Disconnects(d) \/ FindsUuids(d)
                           \/ Resolves(d) \/ Announces(d)
  BY DEF Bluez
<1>2. CASE Connects(d)
  BY <1>2 DEF Connects, MonitorAssumption
<1>3. CASE Disconnects(d)
  BY <1>3 DEF Disconnects, MonitorAssumption
<1>4. CASE FindsUuids(d)
  BY <1>4 DEF FindsUuids, MonitorAssumption
<1>5. CASE Resolves(d)
  BY <1>5 DEF Resolves, MonitorAssumption
<1>6. CASE Announces(d)
  <2>1. [dev |-> d, keys |-> dirty[d], connected |-> conn[d], uuids |-> uuids[d],
         resolved |-> resolved[d]] \in Signals
    BY DEF Signals
  <2> QED
    BY <1>6, <2>1 DEF Announces
<1> QED
  BY <1>1, <1>2, <1>3, <1>4, <1>5, <1>6

LEMMA BluezKeeps ==
  ASSUME Bluez PROVE UNCHANGED <<pc, msg, address, pending, confirmed, events, view>>
BY DEF Bluez, Connects, Disconnects, FindsUuids, Resolves, Announces, Change,
       threadVars

LEMMA BluezInv == ASSUME MonitorAssumption, MonitorInv, Bluez PROVE MonitorInv'
<1> USE DEF MonitorInv
<1>1. TypeOK'
  BY BluezType
<1>2. OnlyKnown'
  <2>1. /\ \A d \in Devices : uuids[d] = "airpods" => uuids'[d] = "airpods"
        /\ \A d \in Devices : uuids'[d] = "airpods" => d \in AirPods
    BY BluezKnows DEF OnlyKnown
  <2>2. \A m \in Signals : SaysTrue(m, uuids) => SaysTrue(m, uuids')
    BY <2>1 DEF SaysTrue, Signals
  <2>3. \A i \in DOMAIN stream' : SaysTrue(stream'[i], uuids')
    <3>1. CASE UNCHANGED stream
      BY <2>2, <3>1 DEF OnlyKnown, TypeOK
    <3>2. ASSUME NEW d \in Devices, Announces(d), stream' # stream
          PROVE  \A i \in DOMAIN stream' : SaysTrue(stream'[i], uuids')
      <4> DEFINE m == [dev |-> d, keys |-> dirty[d], connected |-> conn[d],
                       uuids |-> uuids[d], resolved |-> resolved[d]]
      <4>1. stream' = Append(stream, m)
        BY <3>2 DEF Announces
      <4>2. m \in Signals /\ SaysTrue(m, uuids)
        BY DEF TypeOK, Signals, SaysTrue
      <4>3. \A i \in DOMAIN stream' :
              (i \in DOMAIN stream /\ stream'[i] = stream[i]) \/ stream'[i] = m
        BY <4>1, <4>2 DEF TypeOK
      <4>4. \A i \in DOMAIN stream : stream[i] \in Signals /\ SaysTrue(stream[i], uuids)
        BY DEF TypeOK, OnlyKnown
      <4> HIDE DEF m
      <4>5. SUFFICES ASSUME NEW i \in DOMAIN stream' PROVE SaysTrue(stream'[i], uuids')
        OBVIOUS
      <4>6. stream'[i] \in Signals /\ SaysTrue(stream'[i], uuids)
        BY <4>2, <4>3, <4>4
      <4> QED
        BY <2>1, <4>6 DEF SaysTrue, Signals
    <3> QED
      BY <3>1, <3>2 DEF Bluez, Connects, Disconnects, FindsUuids, Resolves, Change
  <2>4. pc' \in Handling => msg' \in Signals /\ SaysTrue(msg', uuids')
    BY <2>2, BluezKeeps DEF OnlyKnown
  <2>5. pc' = "recheck_address" => uuids'[msg'.dev] = "airpods"
    BY <2>1, BluezKeeps DEF OnlyKnown, Handling, Signals
  <2>6. \A i \in DOMAIN events' : uuids'[events'[i].dev] = "airpods"
    <3>1. \A i \in DOMAIN events : events[i].dev \in Devices
      BY DEF TypeOK, Events
    <3> QED
      BY <2>1, <3>1, BluezKeeps DEF OnlyKnown
  <2>7. \A d \in (confirmed \union view)' : uuids'[d] = "airpods"
    BY <2>1, BluezKeeps DEF OnlyKnown, TypeOK, MonitorAssumption
  <2> QED
    BY <2>1, <2>3, <2>4, <2>5, <2>6, <2>7 DEF OnlyKnown
<1>3. (DisconnectsMatch /\ ConfirmedAreHeld /\ (pc \in Starting => confirmed = {}))'
  BY BluezKeeps DEF DisconnectsMatch, ConfirmedAreHeld, HeldAfter, Tells
<1> QED
  BY <1>1, <1>2, <1>3

-----------------------------------------------------------------------------
(* run_monitor.                                                            *)

(* What the second half of the loop body leaves behind.                    *)
LEMMA SecondHalfGoesOn ==
  ASSUME NEW m \in Signals, NEW waiting, SecondHalf(m, waiting)
  PROVE  /\ pc' \in {"listen", "recheck_uuids", "recheck_address"}
         /\ msg' \in {m, NoSignal}
         /\ pc' # "listen" => msg' = m
         /\ pc' = "recheck_address" => m.uuids = "airpods"
BY DEF SecondHalf, ContainsAirpodsUuid

(* An event is sent: those before it are as they were.                     *)
LEMMA EventSent ==
  ASSUME TypeOK, DisconnectsMatch, NEW e \in Events,
         events' = Append(events, e), UNCHANGED view,
         e.kind = "Disconnected" => e.dev \in HeldAfter(Len(events))
  PROVE  /\ events' \in Seq(Events)
         /\ \A i \in DOMAIN events' :
              (i \in DOMAIN events /\ events'[i] = events[i]) \/ events'[i] = e
         /\ DisconnectsMatch'
         /\ HeldAfter(Len(events))' = Held(HeldAfter(Len(events)), e)
<1>1. /\ events \in Seq(Events) /\ events' \in Seq(Events)
      /\ Len(events) \in Nat /\ Len(events') = Len(events) + 1
      /\ \A i \in 1..Len(events) : events'[i] = events[i]
      /\ events'[Len(events) + 1] = e
  BY DEF TypeOK
<1>2. \A n \in 0..Len(events) : HeldOf(view, events', n) = HeldOf(view, events, n)
  <2> TAKE n \in 0..Len(events)
  <2>1. Len(events') >= Len(events)
    BY <1>1
  <2> QED
    BY <1>1, <2>1, HeldOfPrefix
<1>3. \A i \in DOMAIN events' :
        (i \in DOMAIN events /\ events'[i] = events[i])
          \/ (i = Len(events) + 1 /\ events'[i] = e)
  BY <1>1
<1>4. HeldOf(view, events', Len(events) + 1)
        = Held(HeldOf(view, events, Len(events)), e)
  <2>1. Len(events) + 1 <= Len(events')
    BY <1>1
  <2>2. HeldOf(view, events', Len(events) + 1)
          = Held(HeldOf(view, events', Len(events)), events'[Len(events) + 1])
    BY <1>1, <2>1, HeldOfNext
  <2>3. Len(events) \in 0..Len(events)
    BY <1>1
  <2> QED
    BY <1>1, <1>2, <2>2, <2>3
<1>5. \A n : HeldAfter(n)' = HeldOf(view, events', n)
  BY DEF HeldAfter, HeldOf, Tells
<1>6. \A n : HeldAfter(n) = HeldOf(view, events, n)
  BY HeldAfterIsHeldOf
<1>7. DisconnectsMatch'
  <2>1. \A i \in DOMAIN events : i - 1 \in 0..Len(events)
    BY <1>1
  <2>2. SUFFICES ASSUME NEW i \in DOMAIN events', events'[i].kind = "Disconnected"
                 PROVE  events'[i].dev \in HeldOf(view, events', i - 1)
    BY DEF DisconnectsMatch, HeldAfter, HeldOf, Tells
  <2>3. CASE i \in DOMAIN events /\ events'[i] = events[i]
    BY <1>2, <1>6, <2>1, <2>2, <2>3 DEF DisconnectsMatch
  <2>4. CASE i = Len(events) + 1 /\ events'[i] = e
    BY <1>1, <1>2, <1>6, <2>2, <2>4
  <2> QED
    BY <1>3, <2>3, <2>4
<1> QED
  BY <1>1, <1>3, <1>4, <1>5, <1>6, <1>7

(* A device is confirmed: its Connected event is sent.                     *)
LEMMA ConfirmInv ==
  ASSUME MonitorAssumption, MonitorInv, NEW d \in Devices, NEW addr \in BOOLEAN,
         Confirm(d, addr), uuids[d] = "airpods", UNCHANGED <<uuids, view>>
  PROVE  /\ events' \in Seq(Events)
         /\ pending' \subseteq Devices /\ confirmed' \subseteq AirPods
         /\ DisconnectsMatch' /\ ConfirmedAreHeld'
         /\ \A i \in DOMAIN events' : uuids'[events'[i].dev] = "airpods"
         /\ \A c \in confirmed' : uuids'[c] = "airpods"
<1> DEFINE e == ConnectedEvent(d, addr)
<1> USE DEF MonitorInv
<1>1. e \in Events /\ e.kind = "Connected" /\ e.dev = d /\ events' = Append(events, e)
  BY DEF Events, ConnectedEvent, Confirm
<1> HIDE DEF e
<1>2. /\ events' \in Seq(Events)
      /\ \A i \in DOMAIN events' :
           (i \in DOMAIN events /\ events'[i] = events[i]) \/ events'[i] = e
      /\ DisconnectsMatch'
      /\ HeldAfter(Len(events))' = Held(HeldAfter(Len(events)), e)
  BY <1>1, EventSent
<1>3. HeldAfter(Len(events))' = HeldAfter(Len(events)) \union {d}
  BY <1>1, <1>2 DEF Held
<1>4. ConfirmedAreHeld'
  BY <1>3 DEF ConfirmedAreHeld, Confirm
<1>5. confirmed' \subseteq AirPods /\ \A c \in confirmed' : uuids'[c] = "airpods"
  BY DEF OnlyKnown, TypeOK, Confirm
<1> QED
  BY <1>1, <1>2, <1>4, <1>5 DEF OnlyKnown, TypeOK, Confirm

(* A device has disconnected: if it was confirmed its event is sent.       *)
LEMMA DisconnectInv ==
  ASSUME MonitorAssumption, MonitorInv, NEW m \in Signals, HandleDisconnected(m),
         UNCHANGED <<uuids, view>>
  PROVE  /\ events' \in Seq(Events)
         /\ pending' \subseteq Devices /\ confirmed' \subseteq AirPods
         /\ DisconnectsMatch' /\ ConfirmedAreHeld'
         /\ \A i \in DOMAIN events' : uuids'[events'[i].dev] = "airpods"
         /\ \A c \in confirmed' : uuids'[c] = "airpods"
<1> USE DEF MonitorInv, HandleDisconnected
<1>1. m.dev \in Devices
  BY DEF Signals
<1>2. CASE m.dev \in confirmed
  <2> DEFINE e == DisconnectedEvent(m.dev)
  <2>1. /\ e \in Events /\ e.kind = "Disconnected" /\ e.dev = m.dev
        /\ events' = Append(events, e)
    BY <1>1, <1>2 DEF Events, DisconnectedEvent
  <2>2. m.dev \in HeldAfter(Len(events))
    BY <1>2 DEF ConfirmedAreHeld
  <2> HIDE DEF e
  <2>3. /\ events' \in Seq(Events)
        /\ \A i \in DOMAIN events' :
             (i \in DOMAIN events /\ events'[i] = events[i]) \/ events'[i] = e
        /\ DisconnectsMatch'
        /\ HeldAfter(Len(events))' = Held(HeldAfter(Len(events)), e)
    BY <2>1, <2>2, EventSent
  <2>4. HeldAfter(Len(events))' = HeldAfter(Len(events)) \ {m.dev}
    BY <2>1, <2>3 DEF Held
  <2>5. ConfirmedAreHeld'
    BY <2>4 DEF ConfirmedAreHeld
  <2> QED
    BY <1>2, <2>1, <2>3, <2>5 DEF OnlyKnown, TypeOK
<1>3. CASE m.dev \notin confirmed
  <2>1. UNCHANGED <<events, view, confirmed>> /\ pending' \subseteq pending
    BY <1>3
  <2>2. (DisconnectsMatch /\ ConfirmedAreHeld)'
    BY <2>1 DEF DisconnectsMatch, ConfirmedAreHeld, HeldAfter, Tells
  <2> QED
    BY <2>1, <2>2 DEF OnlyKnown, TypeOK
<1> QED
  BY <1>2, <1>3

(* Steps that neither send an event nor confirm a device.                  *)
LEMMA QuietStepInv ==
  ASSUME MonitorInv, UNCHANGED <<bluezVars, confirmed, events, view>>,
         TypeOK', ~Unreliable => confirmed \intersect pending' = {},
         \A i \in DOMAIN stream' : SaysTrue(stream'[i], uuids),
         pc' \in Handling => msg' \in Signals /\ SaysTrue(msg', uuids),
         pc' = "recheck_address" => uuids[msg'.dev] = "airpods",
         pc' \in Starting => pc \in Starting
  PROVE  MonitorInv'
<1> USE DEF MonitorInv, bluezVars
<1>1. OnlyKnown'
  BY DEF OnlyKnown
<1>2. (DisconnectsMatch /\ ConfirmedAreHeld)'
  BY DEF DisconnectsMatch, ConfirmedAreHeld, HeldAfter, Tells
<1> QED
  BY <1>1, <1>2

(* The thread starts.                                                      *)
LEMMA StartInv ==
  ASSUME MonitorInv, OpenBus \/ AddMatch \/ OpenStream PROVE MonitorInv'
<1> USE DEF OpenBus, AddMatch, OpenStream
<1>1. /\ UNCHANGED <<bluezVars, msg, address, pending, confirmed, stream, events, view>>
      /\ pc' \notin Handling /\ (pc' \in Starting => pc \in Starting)
      /\ pc' \in Starting \union {"listen", "ended"}
      /\ pc' # "recheck_address"
  BY DEF Handling, Starting
<1>2. TypeOK'
  BY <1>1 DEF MonitorInv, TypeOK, bluezVars
<1> QED
  BY <1>1, <1>2, QuietStepInv DEF MonitorInv, OnlyKnown, ConfirmedAreHeld

(* A set of devices in any order is a sequence of them.                    *)
LEMMA OrdersAreSequences ==
  ASSUME MonitorAssumption, NEW S \in SUBSET Devices, NEW order \in SetToSeqs(S)
  PROVE  order \in Seq(S)
<1>1. IsFiniteSet(S)
  BY FS_Subset DEF MonitorAssumption
<1>2. Cardinality(S) \in Nat
  BY <1>1, FS_CardinalityType
<1> QED
  BY <1>2 DEF SetToSeqs

(* The startup scan, which finds nothing but AirPods.                      *)
LEMMA ScanInv ==
  ASSUME MonitorAssumption, MonitorInv, ScanForConnected PROVE MonitorInv'
<1> USE DEF MonitorInv
<1>1. /\ pc = "scan" /\ pc' = "add_match" /\ confirmed = {}
      /\ UNCHANGED <<bluezVars, msg, address, pending, confirmed, stream, view>>
  BY DEF ScanForConnected, Starting
<1>2. CASE UNCHANGED events
  <2>1. TypeOK'
    BY <1>1, <1>2 DEF TypeOK, bluezVars, Starting
  <2> QED
    BY <1>1, <1>2, <2>1, QuietStepInv
    DEF OnlyKnown, ConfirmedAreHeld, Starting, Handling
<1>3. CASE \E order \in SetToSeqs(FoundByScan) :
             events' = events \o [i \in DOMAIN order |-> ConnectedEvent(order[i], TRUE)]
  <2>1. PICK order \in SetToSeqs(FoundByScan) :
          events' = events \o [i \in DOMAIN order |-> ConnectedEvent(order[i], TRUE)]
    BY <1>3
  <2> DEFINE found == [i \in DOMAIN order |-> ConnectedEvent(order[i], TRUE)]
  <2>2. /\ order \in Seq(FoundByScan)
        /\ \A d \in FoundByScan : d \in Devices /\ uuids[d] = "airpods"
    BY OrdersAreSequences DEF FoundByScan, ContainsAirpodsUuid
  <2>3. /\ \A i \in DOMAIN order : found[i] \in Events /\ found[i].kind = "Connected"
                                   /\ uuids[found[i].dev] = "airpods"
        /\ DOMAIN found = DOMAIN order
    BY <2>2 DEF ConnectedEvent, Events
  <2>4. found \in Seq(Events)
    <3>1. Len(order) \in Nat /\ DOMAIN found = 1..Len(order)
      BY <2>2
    <3>2. found \in [1..Len(order) -> Events]
      BY <2>3, <3>1
    <3> HIDE DEF found
    <3> QED
      BY <3>1, <3>2
  <2> HIDE DEF found
  <2>5. events' = events \o found
    BY <2>1 DEF found
  <2>6. /\ events' \in Seq(Events)
        /\ Len(events') >= Len(events)
        /\ \A i \in 1..Len(events) : events'[i] = events[i]
        /\ \A i \in DOMAIN events' :
             (i \in DOMAIN events /\ events'[i] = events[i])
               \/ (i - Len(events) \in DOMAIN found /\ events'[i] = found[i - Len(events)])
    BY <2>4, <2>5 DEF TypeOK
  <2>7. \A i \in DOMAIN events' :
          (i \in DOMAIN events /\ events'[i] = events[i])
            \/ (events'[i].kind = "Connected" /\ uuids[events'[i].dev] = "airpods")
    BY <2>3, <2>6
  <2>8. TypeOK'
    BY <1>1, <2>6 DEF TypeOK, bluezVars, Starting
  <2>9. OnlyKnown'
    BY <1>1, <2>7 DEF OnlyKnown, bluezVars, Handling
  <2>10. DisconnectsMatch'
    <3>1. SUFFICES ASSUME NEW i \in DOMAIN events', events'[i].kind = "Disconnected"
                   PROVE  events'[i].dev \in HeldOf(view, events', i - 1)
      BY <1>1 DEF DisconnectsMatch, HeldAfter, HeldOf, Tells
    <3>2. i \in DOMAIN events /\ events'[i] = events[i]
      BY <2>7, <3>1
    <3>3. i - 1 \in 0..Len(events) /\ events \in Seq(Events)
      BY <3>2 DEF TypeOK
    <3>4. HeldOf(view, events', i - 1) = HeldOf(view, events, i - 1)
      BY <2>6, <3>3, HeldOfPrefix
    <3> QED
      BY <3>1, <3>2, <3>4, HeldAfterIsHeldOf DEF DisconnectsMatch
  <2>11. ConfirmedAreHeld' /\ (pc' \in Starting => confirmed' = {})
    BY <1>1 DEF ConfirmedAreHeld
  <2> QED
    BY <2>8, <2>9, <2>10, <2>11
<1> QED
  BY <1>2, <1>3 DEF ScanForConnected

(* A signal is taken up.                                                   *)
LEMMA HandleSignalInv ==
  ASSUME MonitorAssumption, MonitorInv, HandleSignal PROVE MonitorInv'
<1> DEFINE m == Head(stream)
<1> USE DEF MonitorInv
<1>1. /\ m \in Signals /\ SaysTrue(m, uuids)
      /\ stream' \in Seq(Signals)
      /\ \A i \in DOMAIN stream' : SaysTrue(stream'[i], uuids)
  <2>1. stream # <<>> /\ stream \in Seq(Signals) /\ stream' = Tail(stream)
    BY DEF HandleSignal, TypeOK
  <2>2. m = stream[1] /\ 1 \in DOMAIN stream
    BY <2>1
  <2>3. \A i \in DOMAIN stream' : i + 1 \in DOMAIN stream /\ stream'[i] = stream[i + 1]
    BY <2>1
  <2> QED
    BY <2>1, <2>2, <2>3 DEF OnlyKnown
<1>2. UNCHANGED <<bluezVars, address, view>> /\ pc = "listen"
  BY DEF HandleSignal
<1>3. m.uuids = "airpods" => uuids[m.dev] = "airpods"
  BY <1>1 DEF SaysTrue
<1> HIDE DEF m
<1>4. ASSUME NEW waiting, SecondHalf(m, waiting)
      PROVE  /\ pc' \in {"listen", "recheck_uuids", "recheck_address"}
             /\ msg' \in Signals \union {NoSignal}
             /\ pc' \in Handling => msg' \in Signals /\ SaysTrue(msg', uuids)
             /\ pc' = "recheck_address" => uuids[msg'.dev] = "airpods"
             /\ pc' \notin Starting
  <2>1. /\ pc' \in {"listen", "recheck_uuids", "recheck_address"}
        /\ msg' \in {m, NoSignal}
        /\ pc' # "listen" => msg' = m
        /\ pc' = "recheck_address" => m.uuids = "airpods"
    BY <1>1, <1>4, SecondHalfGoesOn
  <2> QED
    BY <1>1, <1>3, <2>1 DEF Handling, Starting
<1>5. CASE HandleConnected(m)
  <2>1. TypeOK'
    BY <1>1, <1>2, <1>5 DEF HandleConnected, TypeOK, bluezVars
  <2> QED
    BY <1>1, <1>2, <1>5, <2>1, QuietStepInv
    DEF HandleConnected, ConfirmedAreHeld, Starting
<1>6. CASE HandleDisconnected(m)
  <2>1. /\ events' \in Seq(Events)
        /\ pending' \subseteq Devices /\ confirmed' \subseteq AirPods
        /\ DisconnectsMatch' /\ ConfirmedAreHeld'
        /\ \A i \in DOMAIN events' : uuids'[events'[i].dev] = "airpods"
        /\ \A c \in confirmed' : uuids'[c] = "airpods"
    BY <1>1, <1>2, <1>6, DisconnectInv DEF bluezVars
  <2>2. /\ pc' \in {"listen", "recheck_uuids", "recheck_address"}
        /\ msg' \in Signals \union {NoSignal}
        /\ pc' \in Handling => msg' \in Signals /\ SaysTrue(msg', uuids)
        /\ pc' = "recheck_address" => uuids[msg'.dev] = "airpods"
        /\ pc' \notin Starting
    BY <1>4, <1>6 DEF HandleDisconnected
  <2>3. TypeOK'
    BY <1>1, <1>2, <2>1, <2>2 DEF TypeOK, bluezVars
  <2>4. OnlyKnown'
    BY <1>1, <1>2, <2>1, <2>2 DEF OnlyKnown, bluezVars
  <2> QED
    BY <2>1, <2>2, <2>3, <2>4
<1>7. CASE SecondHalf(m, pending) /\ UNCHANGED <<pending, confirmed, events>>
  <2>1. /\ pc' \in {"listen", "recheck_uuids", "recheck_address"}
        /\ msg' \in Signals \union {NoSignal}
        /\ pc' \in Handling => msg' \in Signals /\ SaysTrue(msg', uuids)
        /\ pc' = "recheck_address" => uuids[msg'.dev] = "airpods"
        /\ pc' \notin Starting
    BY <1>4, <1>7
  <2>2. TypeOK'
    BY <1>1, <1>2, <1>7, <2>1 DEF TypeOK, bluezVars
  <2> QED
    BY <1>1, <1>2, <1>7, <2>1, <2>2, QuietStepInv DEF ConfirmedAreHeld
<1> QED
  BY <1>5, <1>6, <1>7 DEF HandleSignal, m

(* What the thread does with a signal in its hands and no event sent.      *)
LEMMA ReadAddressInv ==
  ASSUME MonitorAssumption, MonitorInv, ReadAddress PROVE MonitorInv'
<1> USE DEF MonitorInv
<1>1. /\ UNCHANGED <<bluezVars, msg, pending, confirmed, stream, events, view>>
      /\ pc = "read_address" /\ pc' = "read_uuids" /\ address' \in BOOLEAN
  BY DEF ReadAddress
<1>2. TypeOK'
  BY <1>1 DEF TypeOK, bluezVars
<1>3. msg' \in Signals /\ SaysTrue(msg', uuids) /\ pc' \notin Starting
  BY <1>1 DEF OnlyKnown, Handling, Starting
<1>4. \A i \in DOMAIN stream' : SaysTrue(stream'[i], uuids)
  BY <1>1 DEF OnlyKnown
<1>5. ~Unreliable => confirmed \intersect pending' = {}
  BY <1>1 DEF ConfirmedAreHeld
<1> QED
  BY <1>1, <1>2, <1>3, <1>4, <1>5, QuietStepInv

LEMMA RecheckUuidsInv ==
  ASSUME MonitorAssumption, MonitorInv, RecheckUuids PROVE MonitorInv'
<1> USE DEF MonitorInv
<1>1. /\ UNCHANGED <<bluezVars, address, pending, confirmed, stream, events, view>>
      /\ pc = "recheck_uuids" /\ pc' \in {"recheck_address", "listen"}
      /\ msg' \in {msg, NoSignal} /\ (pc' # "listen" => msg' = msg)
      /\ pc' = "recheck_address" => uuids[msg.dev] = "airpods"
  BY DEF RecheckUuids, UuidsRead, ContainsAirpodsUuid
<1>2. msg \in Signals /\ SaysTrue(msg, uuids)
  BY <1>1 DEF OnlyKnown, Handling
<1>3. TypeOK'
  BY <1>1, <1>2 DEF TypeOK, bluezVars
<1>4. \A i \in DOMAIN stream' : SaysTrue(stream'[i], uuids)
  BY <1>1 DEF OnlyKnown
<1>5. ~Unreliable => confirmed \intersect pending' = {}
  BY <1>1 DEF ConfirmedAreHeld
<1>6. /\ pc' \in Handling => msg' \in Signals /\ SaysTrue(msg', uuids)
      /\ pc' = "recheck_address" => uuids[msg'.dev] = "airpods"
      /\ pc' \notin Starting
  BY <1>1, <1>2 DEF Handling, Starting
<1> QED
  BY <1>1, <1>3, <1>4, <1>5, <1>6, QuietStepInv

(* The UUIDs are read after Connected: the device is confirmed or pending. *)
LEMMA ReadUuidsInv ==
  ASSUME MonitorAssumption, MonitorInv, ReadUuids PROVE MonitorInv'
<1> USE DEF MonitorInv
<1>1. pc = "read_uuids" /\ UNCHANGED <<bluezVars, address, stream, view>>
  BY DEF ReadUuids
<1>2. msg \in Signals /\ SaysTrue(msg, uuids) /\ msg.dev \in Devices
  BY <1>1 DEF OnlyKnown, Handling, Signals
<1>3. /\ pc' \in {"listen", "recheck_uuids", "recheck_address"}
      /\ msg' \in Signals \union {NoSignal}
      /\ pc' \in Handling => msg' \in Signals /\ SaysTrue(msg', uuids)
      /\ pc' = "recheck_address" => uuids[msg'.dev] = "airpods"
      /\ pc' \notin Starting
  <2>1. SecondHalf(msg, pending')
    BY DEF ReadUuids
  <2>2. /\ pc' \in {"listen", "recheck_uuids", "recheck_address"}
        /\ msg' \in {msg, NoSignal}
        /\ pc' # "listen" => msg' = msg
        /\ pc' = "recheck_address" => msg.uuids = "airpods"
    BY <1>2, <2>1, SecondHalfGoesOn
  <2> QED
    BY <1>2, <2>2 DEF Handling, Starting, SaysTrue
<1>4. PICK u \in UuidsRead(msg.dev) :
        IF ContainsAirpodsUuid(u)
          THEN Confirm(msg.dev, address)
          ELSE /\ pending' = pending \union {msg.dev}
               /\ UNCHANGED <<confirmed, events>>
  BY DEF ReadUuids
<1>5. /\ u = "airpods" => uuids[msg.dev] = "airpods"
      /\ ~Unreliable => u = uuids[msg.dev]
  BY <1>4 DEF UuidsRead
<1>6. CASE u = "airpods"
  <2>1. Confirm(msg.dev, address) /\ address \in BOOLEAN
    BY <1>4, <1>6 DEF ContainsAirpodsUuid, TypeOK
  <2>2. /\ events' \in Seq(Events)
        /\ pending' \subseteq Devices /\ confirmed' \subseteq AirPods
        /\ DisconnectsMatch' /\ ConfirmedAreHeld'
        /\ \A i \in DOMAIN events' : uuids'[events'[i].dev] = "airpods"
        /\ \A c \in confirmed' : uuids'[c] = "airpods"
    BY <1>1, <1>2, <1>5, <1>6, <2>1, ConfirmInv DEF bluezVars
  <2>3. TypeOK'
    BY <1>1, <1>3, <2>2 DEF TypeOK, bluezVars
  <2>4. OnlyKnown'
    BY <1>1, <1>3, <2>2 DEF OnlyKnown, bluezVars
  <2> QED
    BY <1>3, <2>2, <2>3, <2>4
<1>7. CASE u # "airpods"
  <2>1. pending' = pending \union {msg.dev} /\ UNCHANGED <<confirmed, events>>
    BY <1>4, <1>7 DEF ContainsAirpodsUuid
  <2>2. ~Unreliable => confirmed \intersect pending' = {}
    BY <1>5, <1>7, <2>1 DEF ConfirmedAreHeld, OnlyKnown
  <2>3. TypeOK'
    BY <1>1, <1>2, <1>3, <2>1 DEF TypeOK, bluezVars
  <2>4. \A i \in DOMAIN stream' : SaysTrue(stream'[i], uuids)
    BY <1>1 DEF OnlyKnown
  <2> QED
    BY <1>1, <1>3, <2>1, <2>2, <2>3, <2>4, QuietStepInv
<1> QED
  BY <1>6, <1>7

(* A pending device turns out to be AirPods.                               *)
LEMMA RecheckAddressInv ==
  ASSUME MonitorAssumption, MonitorInv, RecheckAddress PROVE MonitorInv'
<1> USE DEF MonitorInv
<1>1. /\ pc = "recheck_address" /\ pc' = "listen" /\ msg' = NoSignal
      /\ UNCHANGED <<bluezVars, address, stream, view>>
  BY DEF RecheckAddress
<1>2. msg.dev \in Devices /\ uuids[msg.dev] = "airpods"
  BY <1>1 DEF OnlyKnown, Handling, Signals
<1>3. PICK addr \in BOOLEAN : Confirm(msg.dev, addr)
  BY DEF RecheckAddress
<1>4. /\ events' \in Seq(Events)
      /\ pending' \subseteq Devices /\ confirmed' \subseteq AirPods
      /\ DisconnectsMatch' /\ ConfirmedAreHeld'
      /\ \A i \in DOMAIN events' : uuids'[events'[i].dev] = "airpods"
      /\ \A c \in confirmed' : uuids'[c] = "airpods"
  BY <1>1, <1>2, <1>3, ConfirmInv DEF bluezVars
<1>5. TypeOK'
  BY <1>1, <1>4 DEF TypeOK, bluezVars
<1>6. OnlyKnown'
  BY <1>1, <1>4 DEF OnlyKnown, bluezVars, Handling
<1> QED
  BY <1>1, <1>4, <1>5, <1>6 DEF Starting

LEMMA RunMonitorInv == ASSUME MonitorAssumption, MonitorInv, Monitor PROVE MonitorInv'
BY StartInv, ScanInv, HandleSignalInv, ReadAddressInv, ReadUuidsInv,
   RecheckUuidsInv, RecheckAddressInv DEF Monitor

-----------------------------------------------------------------------------
(* The caller of next_event.                                               *)

(* Taking in an event leaves what the channel says as it was: it needs no  *)
(* more than that the event is gone from events and counted in view.       *)
LEMMA EventReadInv ==
  ASSUME MonitorAssumption, MonitorInv, events # <<>>,
         events' = Tail(events), view' = Held(view, Head(events)),
         UNCHANGED <<bluezVars, threadVars, stream>>
  PROVE  MonitorInv'
<1> USE DEF MonitorInv
<1>1. /\ events \in Seq(Events) /\ events' \in Seq(Events)
      /\ Len(events) \in Nat /\ Len(events) >= 1 /\ Len(events') = Len(events) - 1
      /\ DOMAIN events' = 1..(Len(events) - 1)
      /\ \A i \in DOMAIN events' : i + 1 \in DOMAIN events /\ events'[i] = events[i + 1]
  BY DEF TypeOK
<1>2. Head(events) = events[1] /\ 1 \in DOMAIN events /\ events[1] \in Events
  BY <1>1
<1>3. view \subseteq AirPods /\ view \in SUBSET Devices
  BY DEF TypeOK, MonitorAssumption
<1>4. events[1].dev \in AirPods /\ uuids[events[1].dev] = "airpods"
  <2>1. events[1].dev \in Devices
    BY <1>2 DEF Events
  <2> QED
    BY <1>2, <2>1 DEF OnlyKnown
<1>5. view' \subseteq AirPods /\ \A d \in view' : uuids[d] = "airpods"
  BY <1>2, <1>3, <1>4 DEF Held, OnlyKnown
<1>6. TypeOK'
  BY <1>1, <1>5 DEF TypeOK, bluezVars, threadVars
<1>7. OnlyKnown'
  BY <1>1, <1>5 DEF OnlyKnown, bluezVars, threadVars
<1>8. \A n \in 0..(Len(events) - 1) :
        HeldOf(view', events', n) = HeldOf(view, events, n + 1)
  BY <1>3, HeldOfTail, events \in Seq(Events) DEF TypeOK
<1>9. \A n : HeldAfter(n)' = HeldOf(view', events', n)
  BY DEF HeldAfter, HeldOf, Tells
<1>10. DisconnectsMatch'
  <2>1. SUFFICES ASSUME NEW i \in DOMAIN events', events'[i].kind = "Disconnected"
                 PROVE  events'[i].dev \in HeldOf(view', events', i - 1)
    BY DEF DisconnectsMatch, HeldAfter, HeldOf, Tells
  <2>2. i - 1 \in 0..(Len(events) - 1) /\ (i - 1) + 1 = (i + 1) - 1
        /\ i + 1 \in DOMAIN events /\ events'[i] = events[i + 1]
    BY <1>1, <2>1
  <2>3. events[i + 1].dev \in HeldOf(view, events, (i + 1) - 1)
    BY <2>1, <2>2, HeldAfterIsHeldOf DEF DisconnectsMatch
  <2> QED
    BY <1>8, <2>2, <2>3
<1>11. ConfirmedAreHeld'
  <2>1. Len(events') \in 0..(Len(events) - 1) /\ Len(events') + 1 = Len(events)
    BY <1>1
  <2>2. HeldOf(view', events', Len(events')) = HeldOf(view, events, Len(events))
    BY <1>8, <2>1
  <2>3. HeldAfter(Len(events))' = HeldAfter(Len(events))
    BY <2>2, HeldAfterIsHeldOf DEF HeldAfter, HeldOf, Tells
  <2> QED
    BY <2>3 DEF ConfirmedAreHeld, threadVars
<1> QED
  BY <1>6, <1>7, <1>10, <1>11 DEF threadVars

LEMMA StutterInv == ASSUME MonitorInv, UNCHANGED vars PROVE MonitorInv'
BY DEF MonitorInv, TypeOK, OnlyKnown, DisconnectsMatch, ConfirmedAreHeld,
       HeldAfter, Tells, vars, bluezVars, threadVars

-----------------------------------------------------------------------------
(* The thread and BlueZ, whatever is fair.                                 *)
Watching == Init /\ [][Next]_vars

THEOREM MonitorIsInvariant == Watching => []MonitorInv
<1>1. Init => MonitorInv
  BY MonitorAssumption, NothingHeardInv DEF Init
<1>2. MonitorInv /\ [Next]_vars => MonitorInv'
  BY MonitorAssumption, BluezInv, RunMonitorInv, EventReadInv, StutterInv
  DEF Next, NextEvent
<1> QED
  BY <1>1, <1>2, PTL DEF Watching

(* Every variable keeps its type.                                          *)
THEOREM MonitorTypes == Spec => []TypeOK
<1>1. MonitorInv => TypeOK
  BY DEF MonitorInv
<1> QED
  BY <1>1, MonitorIsInvariant, PTL DEF Spec, Watching

(* No Disconnected event without the Connected event it ends: the loss of  *)
(* a device is told to those, and only those, who were told of it.         *)
THEOREM DisconnectsAlwaysMatch == Spec => []DisconnectsMatch
<1>1. MonitorInv => DisconnectsMatch
  BY DEF MonitorInv
<1> QED
  BY <1>1, MonitorIsInvariant, PTL DEF Spec, Watching

(* confirmed_devices is never ahead of what the channel has told.          *)
THEOREM ConfirmedAreAlwaysHeld == Spec => []ConfirmedAreHeld
<1>1. MonitorInv => ConfirmedAreHeld
  BY DEF MonitorInv
<1> QED
  BY <1>1, MonitorIsInvariant, PTL DEF Spec, Watching

(* Nothing but AirPods is ever reported.                                   *)
LEMMA OnlyAirPodsFromInv == MonitorInv => OnlyAirPodsReported
<1>1. TypeOK => \A i \in DOMAIN events : events[i].dev \in Devices
  BY DEF TypeOK, Events
<1> QED
  BY <1>1 DEF MonitorInv, OnlyKnown, OnlyAirPodsReported

THEOREM OnlyAirPodsAreReported == Spec => []OnlyAirPodsReported
BY OnlyAirPodsFromInv, MonitorIsInvariant, PTL DEF Spec, Watching
=============================================================================
