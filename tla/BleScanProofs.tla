---------------------------- MODULE BleScanProofs ----------------------------
(***************************************************************************)
(* Proofs about BleScan, for every set of peripherals and models, a queue  *)
(* of any length, and calls that fail or do not.                           *)
(***************************************************************************)
EXTENDS BleScan, TLAPS

LEMMA ScanInitType == Init => TypeOK
<1> SUFFICES ASSUME Init PROVE TypeOK
  OBVIOUS
<1>1. channel \in Seq(Peripherals \X ({"malformed"} \union Models))
      /\ printed \in Seq(Peripherals \X Models)
  BY DEF Init
<1> QED
  BY <1>1 DEF Init, TypeOK

(* What the task sends is an advertisement that may be printed.            *)
LEMMA VisitType == ASSUME TypeOK, Visit PROVE TypeOK'
<1>1. PICK p \in left :
        /\ left' = left \ {p}
        /\ Sends(p) \/ UNCHANGED channel
  BY DEF Visit
<1>2. p \in Peripherals /\ left' \subseteq Peripherals
  BY <1>1 DEF TypeOK
<1>3. channel' \in Seq(Peripherals \X ({"malformed"} \union Models))
  <2>1. CASE Sends(p)
    <3>1. <<p, air[p]>> \in Peripherals \X ({"malformed"} \union Models)
      BY <1>2, <2>1 DEF Sends, IsProximity
    <3> QED
      BY <2>1, <3>1 DEF Sends, TypeOK
  <2>2. CASE UNCHANGED channel
    BY <2>2 DEF TypeOK
  <2> QED
    BY <1>1, <2>1, <2>2
<1> QED
  BY <1>2, <1>3 DEF Visit, TypeOK

(* What is printed was decoded.                                            *)
LEMMA NextAdvertisementType ==
  ASSUME TypeOK, NextAdvertisement PROVE TypeOK'
<1> DEFINE advert == Head(channel)
<1>1. /\ advert \in Peripherals \X ({"malformed"} \union Models)
      /\ channel' \in Seq(Peripherals \X ({"malformed"} \union Models))
  BY DEF NextAdvertisement, TypeOK
<1>2. UNCHANGED <<air, main, task, left>>
  BY DEF NextAdvertisement
<1>3. CASE Parses(advert) /\ IsNew(advert)
  <2>1. advert \in Peripherals \X Models
    BY <1>1, <1>3 DEF Parses
  <2>2. printed' = Append(printed, advert) /\ printed \in Seq(Peripherals \X Models)
    BY <1>3 DEF NextAdvertisement, TypeOK
  <2> HIDE DEF advert
  <2>3. printed' \in Seq(Peripherals \X Models)
    BY <2>1, <2>2
  <2> QED
    BY <1>1, <1>2, <2>3 DEF TypeOK
<1>4. CASE ~(Parses(advert) /\ IsNew(advert))
  BY <1>1, <1>2, <1>4 DEF NextAdvertisement, TypeOK
<1> QED
  BY <1>3, <1>4

LEMMA ScanNextType == ASSUME TypeOK, [Next]_vars PROVE TypeOK'
<1>1. CASE AirChanges
  BY <1>1 DEF AirChanges, TypeOK
<1>2. CASE Start
  BY <1>2 DEF Start, TypeOK
<1>3. CASE Poll
  BY <1>3 DEF Poll, TypeOK
<1>4. CASE Visit
  BY <1>4, VisitType
<1>5. CASE PollEnds
  BY <1>5 DEF PollEnds, TypeOK
<1>6. CASE NextAdvertisement
  BY <1>6, NextAdvertisementType
<1>7. CASE UNCHANGED vars
  BY <1>7 DEF vars, TypeOK
<1> QED
  BY <1>1, <1>2, <1>3, <1>4, <1>5, <1>6, <1>7 DEF Next, Scanner

-----------------------------------------------------------------------------
(* Every variable of the scanner keeps its type: nothing reaches the list  *)
(* of printed pairs that did not decode.                                   *)
THEOREM ScanTypes == Spec => []TypeOK
BY ScanInitType, ScanNextType, PTL DEF Spec
=============================================================================
