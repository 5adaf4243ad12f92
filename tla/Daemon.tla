------------------------------- MODULE Daemon -------------------------------
(***************************************************************************)
(* The daemon from its start to its end: main and connect_with_retries     *)
(* (librepods-cli/src/main.rs) and the connecting half of the socket       *)
(* (L2capLinux::connect, librepods-linux/src/l2cap.rs).                    *)
(*                                                                         *)
(* main reads the monitor's events until one says Connected, drops the     *)
(* monitor, tries to connect a few times and runs one session; then the    *)
(* program is over.  With --address it does without the monitor.  What the *)
(* session does is the subject of Session; here it lasts for some time.    *)
(***************************************************************************)
EXTENDS BluezMonitor

CONSTANTS
  GivenAddresses,  \* may --address be absent, right or malformed?
  RetryCounts      \* what --retries may be

ASSUME DaemonAssumption ==
  /\ GivenAddresses \subseteq {"absent", "right", "malformed"}
  /\ GivenAddresses # {}
  /\ RetryCounts \subseteq Nat /\ RetryCounts # {}

VARIABLES
  main,     \* where main is; "returned" and "exited": the program has ended
  given,    \* the --address option
  retries,  \* the --retries option
  target,   \* the address to connect to: whose, and is it an address at all?
  attempt   \* the number of the current attempt

mainVars == <<main, target, attempt>>
options == <<given, retries>>
daemonVars == <<vars, mainVars, options>>

Targets == [dev: Devices, address: BOOLEAN]
NoTarget == [address |-> FALSE]

DaemonTypeOK ==
  /\ TypeOK
  /\ main \in {"watch", "attempt", "sleep", "session", "returned", "exited"}
  /\ given \in GivenAddresses
  /\ target \in Targets \union {NoTarget}
  /\ retries \in RetryCounts
  /\ attempt \in 0..retries

-----------------------------------------------------------------------------
(* connect_with_retries.                                                   *)

(* `for attempt in 1..=max_retries' is entered, or passed over.            *)
FirstAttempt == IF retries = 0 THEN 0 ELSE 1
FirstStop == IF retries = 0 THEN "exited" ELSE "attempt"

(* Mistake: any string will do for an address. *)
ParsesAnything(t) == TRUE

(* parse_bdaddr: an empty or malformed address is refused.                 *)
ParseBdaddr(t) == t.address

(* connect(2): the kernel pages a device that is not connected; without    *)
(* failures of its own it reaches at least those that are.                 *)
MayRefuse(t) == Unreliable \/ ~conn[t.dev]

ConnectOk ==
  /\ main = "attempt"
  /\ ParseBdaddr(target)
  /\ main' = "session"
  /\ UNCHANGED <<vars, options, target, attempt>>

(* Mistake: it sleeps once at most. *)
SleepOnce(n) == IF n <= 1 /\ n < retries THEN "sleep" ELSE "exited"

(* After a failed attempt.                                                 *)
AfterFailure(n) == IF n < retries THEN "sleep" ELSE "exited"

ConnectFails ==
  /\ main = "attempt"
  /\ ParseBdaddr(target) => MayRefuse(target)
  /\ main' = AfterFailure(attempt)
  /\ UNCHANGED <<vars, options, target, attempt>>

(* Mistake: attempts are not counted. *)
RetryForever ==
  /\ main = "sleep"
  /\ main' = "attempt"
  /\ UNCHANGED <<vars, options, target, attempt>>

(* 1500 ms later.                                                          *)
NextAttempt ==
  /\ main = "sleep"
  /\ main' = "attempt"
  /\ attempt' = attempt + 1
  /\ UNCHANGED <<vars, options, target>>

-----------------------------------------------------------------------------
(* main.                                                                   *)

(* Whoever breaks out of the loop drops the monitor: its thread goes on    *)
(* unheard, so that what it still does need not be followed.               *)
DropMonitor ==
  /\ pc' = "ended" /\ msg' = NoSignal
  /\ stream' = <<>> /\ events' = <<>>
  /\ pending' = {} /\ confirmed' = {}
  /\ UNCHANGED <<bluezVars, address>>

(* One turn of the loop: a Connected event ends it.  A Disconnected event  *)
(* is logged; as main stops at the first Connected, DisconnectsMatch says  *)
(* that it never gets one.                                                 *)
WatchEvent ==
  /\ main = "watch"
  /\ events # <<>>
  /\ LET e == Head(events) IN
     IF e.kind = "Connected"
       THEN /\ target' = [dev |-> e.dev, address |-> e.address]
            /\ view' = Held(view, e)
            /\ DropMonitor
            /\ main' = FirstStop /\ attempt' = FirstAttempt
       ELSE NextEvent /\ UNCHANGED mainVars
  /\ UNCHANGED options

(* Mistake: an ended thread is noticed before what it sent is read. *)
NoticesAtOnce == pc = "ended"

(* try_recv says Disconnected only when the channel is empty and its       *)
(* sender gone.                                                            *)
ChannelClosed == pc = "ended" /\ events = <<>>

(* Mistake: a closed channel is taken for an empty one. *)
WatchesOn ==
  /\ main = "watch"
  /\ ChannelClosed
  /\ UNCHANGED daemonVars

WatchFails ==
  /\ main = "watch"
  /\ ChannelClosed
  /\ main' = "exited"
  /\ UNCHANGED <<vars, options, target, attempt>>

(* run_connection returns: handshake failed or link lost (see Session).    *)
SessionEnds ==
  /\ main = "session"
  /\ main' = "returned"
  /\ UNCHANGED <<vars, options, target, attempt>>

(* The bus closes its connection (external): the monitor's loop over the   *)
(* stream ends, after what was in it.                                      *)
StreamEnds ==
  /\ Unreliable
  /\ pc = "listen" /\ stream = <<>>
  /\ pc' = "ended"
  /\ UNCHANGED <<bluezVars, msg, address, pending, confirmed, stream, events, view>>
  /\ UNCHANGED <<mainVars, options>>

Main == ConnectOk \/ ConnectFails \/ NextAttempt
        \/ WatchEvent \/ WatchFails

(* With --address no monitor is started: there is no thread to hear from.  *)
DaemonInit ==
  /\ NothingHeard
  /\ given \in GivenAddresses
  /\ retries \in RetryCounts
  /\ IF given = "absent"
       THEN main = "watch" /\ target = NoTarget /\ attempt = 0 /\ pc = "open_bus"
       ELSE /\ target \in [dev: Devices, address: {given = "right"}]
            /\ main = FirstStop /\ attempt = FirstAttempt
            /\ pc = "ended"

DaemonNext ==
  \/ Main \/ SessionEnds \/ StreamEnds
  \/ (Bluez \/ Monitor) /\ UNCHANGED <<mainVars, options>>

(* main runs and a call of it returns; neither the monitor's thread nor    *)
(* BlueZ is assumed to do anything, and a session need not end.            *)
DaemonSpec == DaemonInit /\ [][DaemonNext]_daemonVars /\ WF_daemonVars(Main)
-----------------------------------------------------------------------------
(* Properties.                                                             *)

(* A session is opened to an address only: the one given, or that of       *)
(* AirPods main was told of.  An address BlueZ did not give when asked     *)
(* (the empty string) goes through the events to parse_bdaddr, no further. *)
SessionHasAddress ==
  main \in {"session", "returned"} =>
    /\ target.address
    /\ given = "absent" => target.dev \in AirPods \intersect view

(* The daemon gives a target up after as many attempts as it was told, and *)
(* waits between attempts only.                                            *)
GivesUpInTime ==
  /\ main = "exited" /\ target # NoTarget => attempt = retries
  /\ main = "sleep" => attempt < retries

(* AirPods main was told of are tried, however soon after telling it the   *)
(* monitor fails: what it sent is read before its end is noticed, and the  *)
(* attempts made then lead to a session or use up --retries (main.rs:74).  *)
ToldIsTried ==
  (main = "watch" /\ events # <<>>) ~>
    \/ main \in {"session", "returned"} /\ target.dev \in AirPods
    \/ main = "exited" /\ target # NoTarget /\ attempt = retries

(* The attempts come to an end, in a session or not, although the device   *)
(* may come, go and refuse meanwhile and nobody listens for it any more.   *)
AttemptsEnd ==
  main = "attempt" ~> main \in {"session", "returned", "exited"}

(* A monitor that has failed, at any point of its work, is noticed: main   *)
(* does not poll a dead channel for ever.                                  *)
WatchEnds == pc = "ended" ~> main # "watch"
=============================================================================
