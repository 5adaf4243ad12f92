------------------------------- MODULE BleScan -------------------------------
(***************************************************************************)
(* Finding AirPods nearby: BtleplugScanner (librepods-linux/src/ble.rs)    *)
(* and its caller run_ble_scan (librepods-cli/src/main.rs, --scan).        *)
(*                                                                         *)
(* start() spawns a task that polls the adapter every 500 ms and sends the *)
(* proximity-pairing advertisements it finds through a channel; the main   *)
(* thread takes them out and prints each pair of AirPods once.  The task   *)
(* runs while its tokio runtime is driven: run_ble_scan drives a           *)
(* current-thread runtime for the duration of start() only (Driven FALSE). *)
(***************************************************************************)
EXTENDS Naturals, SequencesExt

CONSTANTS
  Peripherals,  \* addresses of BLE devices
  Models,       \* model ids an advertisement may decode to
  Driven,       \* is the runtime driven after start() has returned?
  Unreliable,   \* may a call to the adapter fail?
  MaxQueue      \* bound on the advertisements waiting in the channel

ASSUME ScanAssumption ==
  /\ Driven \in BOOLEAN
  /\ Unreliable \in BOOLEAN
  /\ MaxQueue \in Nat

VARIABLES
  air,      \* what each peripheral advertises now
  main,     \* where run_ble_scan is
  task,     \* where the polling task is
  left,     \* peripherals of the current poll not yet looked at
  channel,  \* advertisements sent and not received
  printed   \* pairs printed, in order; as a set it is `seen'

vars == <<air, main, task, left, channel, printed>>

(* "silent": out of range; "other": Apple data of another type, or none;   *)
(* "malformed": type 0x07 that parse_advertisement refuses; or a model id. *)
Adverts == {"silent", "other", "malformed"} \union Models

TypeOK ==
  /\ air \in [Peripherals -> Adverts]
  /\ main \in {"start", "scan", "exit"}
  /\ task \in {"unborn", "sleep", "visit"}
  /\ left \subseteq Peripherals
  /\ channel \in Seq(Peripherals \X ({"malformed"} \union Models))
  /\ printed \in Seq(Peripherals \X Models)

(* A pair comes in range, leaves, opens its lid...  (external)             *)
AirChanges ==
  /\ \E p \in Peripherals, a \in Adverts : air' = [air EXCEPT ![p] = a]
  /\ UNCHANGED <<main, task, left, channel, printed>>

(* rt.block_on(BtleplugScanner::start()): the task is spawned last.        *)
Start ==
  /\ main = "start"
  /\ \/ main' = "scan" /\ task' = "sleep"
     \/ Unreliable /\ main' = "exit" /\ UNCHANGED task
  /\ UNCHANGED <<air, left, channel, printed>>

TaskRuns == main = "scan" /\ Driven

(* 500 ms later: adapter.peripherals(); when it fails, sleep again.        *)
Poll ==
  /\ TaskRuns
  /\ task = "sleep"
  /\ \/ /\ left' = {p \in Peripherals : air[p] # "silent"}
        /\ task' = "visit"
     \/ Unreliable /\ UNCHANGED <<left, task>>
  /\ UNCHANGED <<air, main, channel, printed>>

(* Only proximity-pairing messages (type 0x07) of Apple are sent on.       *)
IsProximity(a) == a \in {"malformed"} \union Models

Sends(p) ==
  /\ IsProximity(air[p])
  /\ channel' = Append(channel, <<p, air[p]>>)

(* Mistake: a peripheral that has nothing to say is asked again. *)
VisitAgain ==
  /\ TaskRuns
  /\ task = "visit"
  /\ Len(channel) < MaxQueue
  /\ \E p \in left :
       \/ /\ Sends(p)
          /\ left' = left \ {p}
       \/ /\ ~IsProximity(air[p])
          /\ UNCHANGED <<channel, left>>
  /\ UNCHANGED <<air, main, task, printed>>

(* peripheral.properties(), as they are by now; an error skips it.         *)
Visit ==
  /\ TaskRuns
  /\ task = "visit"
  /\ Len(channel) < MaxQueue
  /\ \E p \in left :
       /\ left' = left \ {p}
       /\ \/ Sends(p)
          \/ /\ Unreliable \/ ~IsProximity(air[p])
             /\ UNCHANGED channel
  /\ UNCHANGED <<air, main, task, printed>>

PollEnds ==
  /\ TaskRuns
  /\ task = "visit" /\ left = {}
  /\ task' = "sleep"
  /\ UNCHANGED <<air, main, left, channel, printed>>

(* Mistakes: what cannot be decoded is printed all the same; pairs are     *)
(* told apart by their model.                                              *)
AlwaysParses(advert) == TRUE

(* parse_advertisement decodes a model, or returns None.                   *)
Parses(advert) == advert[2] \in Models

IsNew(advert) == advert \notin Range(printed)

(* next_advertisement, and the loop of run_ble_scan around it.             *)
NextAdvertisement ==
  /\ main = "scan"
  /\ channel # <<>>
  /\ channel' = Tail(channel)
  /\ printed' = IF Parses(Head(channel)) /\ IsNew(Head(channel))
                THEN Append(printed, Head(channel)) ELSE printed
  /\ UNCHANGED <<air, main, task, left>>

Init ==
  /\ air \in [Peripherals -> Adverts]
  /\ main = "start"
  /\ task = "unborn"
  /\ left = {}
  /\ channel = <<>>
  /\ printed = <<>>

Scanner == Start \/ Poll \/ Visit \/ PollEnds

Next == AirChanges \/ Scanner \/ NextAdvertisement

(* A driven runtime polls its task, the thread polls the channel every     *)
(* 100 ms, and an adapter that is asked again and again for its list, or   *)
(* for a peripheral's properties, does not refuse for ever.                *)
Spec == /\ Init /\ [][Next]_vars
        /\ WF_vars(Scanner) /\ WF_vars(NextAdvertisement)
        /\ SF_vars(Poll /\ task' = "visit")
        /\ \A p \in Peripherals : SF_vars(Visit /\ Sends(p))

-----------------------------------------------------------------------------
(* Properties.                                                             *)


(* "Block until the next Apple BLE advertisement is received": AirPods     *)
(* that keep advertising are found and printed.                            *)
NearbyIsFound ==
  \A p \in Peripherals, m \in Models :
    <>[](air[p] = m /\ main = "scan") => <>(<<p, m>> \in Range(printed))

(* A poll that has begun is finished, whatever the air and a full channel  *)
(* do, so that the next one is made.                                       *)
PollsEnd == (task = "visit") ~> (task = "sleep")
=============================================================================
