----------------------------- MODULE BleAdvert -----------------------------
(***************************************************************************)
(* What the daemon makes of the AirPods' advertisements:                   *)
(* parse_advertisement and decrypt_battery                                 *)
(* (librepods-core/src/device/ble_advert.rs).                              *)
(*                                                                         *)
(* The AirPods, which are external, describe their pods as the primary and *)
(* the secondary one, and may exchange the roles whenever they like; the   *)
(* decoder speaks of the left and the right one.  Which pod a bit or a     *)
(* nibble is about has been inferred from the decoder, the comments of     *)
(* which give positions only: what is shown is that all it reads fits one  *)
(* assignment to the pods.  AES is left out: the block is the decrypted    *)
(* one.                                                                    *)
(***************************************************************************)
EXTENDS Bytes

CONSTANTS
  Charges,  \* battery levels
  BleIds    \* model ids that are advertised

PerCent == 0..100 \union {127}  \* 127 stands for a part out of reach
TwoBytes == 0..65535

ASSUME AdvertAssumption ==
  /\ Charges \subseteq PerCent /\ Charges # {}
  /\ BleIds \subseteq TwoBytes /\ BleIds # {}

Sides == {"left", "right"}
Other == [left |-> "right", right |-> "left"]

VARIABLES
  pod,      \* for each side: charge, whether it is charging, where it is
  box,      \* the case: charge, charging, lid closed
  primary,  \* the side of the primary pod
  data      \* the advertisement on the air; <<>> before the first

vars == <<pod, box, primary, data>>

Places == {"ear", "out", "case"}
Pods == [charge: Charges, charging: BOOLEAN, place: Places]
Boxes == [charge: Charges, charging: BOOLEAN, closed: BOOLEAN]

-----------------------------------------------------------------------------
(* parse_advertisement.                                                    *)

BleModels ==
  [AirPods1 |-> 544, AirPods2 |-> 3872, AirPods3 |-> 4896, AirPodsPro |-> 3616,
   AirPodsPro2Lightning |-> 5152, AirPodsPro2Usbc |-> 9248,
   AirPodsMaxLightning |-> 2592, AirPodsMaxUsbc |-> 7968,
   AirPods4 |-> 6432, AirPods4Anc |-> 6944]

ModelFromBleId(id) ==
  IF \E m \in DOMAIN BleModels : BleModels[m] = id
    THEN CHOOSE m \in DOMAIN BleModels : BleModels[m] = id ELSE "Unknown"

Low(b) == b % 16
High(b) == b \div 16

(* Mistake: the one nibble that is no level is taken for one. *)
AlwaysLevel(n) == Some(10 * n)

(* Tens of per cent; 15 is none.                                           *)
Level(n) == IF n = 15 THEN None ELSE Some(10 * n)

(* Mistake: whether the advertising pod is in the case does not matter. *)
EarBitByRole(primaryLeft, thisInCase) == IF primaryLeft THEN 3 ELSE 1

(* The status bit that says whether the left pod is in an ear.             *)
LeftEarBit(primaryLeft, thisInCase) == IF primaryLeft # thisInCase THEN 3 ELSE 1

ConnectionFromByte(b) ==
  CASE b = 0 -> "Disconnected" [] b = 4 -> "Idle" [] b = 5 -> "Music"
    [] b = 6 -> "Call" [] b = 7 -> "Ringing" [] b = 9 -> "HangingUp"
    [] OTHER -> "Unknown"

Decode(p) ==
  LET status == At(p, 5)
      primaryLeft == Bit(status, 5)
      thisInCase == Bit(status, 6)
      earBit == LeftEarBit(primaryLeft, thisInCase)
      leftNibble == IF primaryLeft THEN Low(At(p, 6)) ELSE High(At(p, 6))
      rightNibble == IF primaryLeft THEN High(At(p, 6)) ELSE Low(At(p, 6))
      flags == High(At(p, 7))
  IN  [paired |-> At(p, 2) = 1,
       model |-> ModelFromBleId(256 * At(p, 3) + At(p, 4)),
       battery |-> [left |-> Level(leftNibble), right |-> Level(rightNibble),
                    case |-> Level(Low(At(p, 7)))],
       charging |-> [left |-> Bit(flags, IF primaryLeft THEN 0 ELSE 1),
                     right |-> Bit(flags, IF primaryLeft THEN 1 ELSE 0),
                     case |-> Bit(flags, 2)],
       inEar |-> [left |-> Bit(status, earBit), right |-> Bit(status, 4 - earBit)],
       lid |-> IF ~thisInCase THEN "Unknown"
                 ELSE IF Bit(At(p, 8), 3) THEN "Closed" ELSE "Open",
       onePodInCase |-> Bit(status, 4),
       bothPodsInCase |-> Bit(status, 2),
       color |-> At(p, 9),
       connection |-> ConnectionFromByte(At(p, 10))]

ParseAdvertisement(p) ==
  IF Len(p) < 11 \/ At(p, 0) # 7 \/ At(p, 2) = 0 THEN None ELSE Some(Decode(p))

(* decrypt_battery: the charges to one per cent, if one has the key.       *)
Unavailable(b) == b = 255
Fine(b) == [charge |-> b % 128, charging |-> Bit(b, 7)]

(* Mistake: the left pod is always the first. *)
DecryptUnflipped(block, primaryLeft) ==
  [left |-> Some(Fine(At(block, 1))), right |-> Some(Fine(At(block, 2))),
   case |-> IF Unavailable(At(block, 3)) THEN None ELSE Some(Fine(At(block, 3)))]

DecryptBattery(block, primaryLeft) ==
  [left |-> Some(Fine(At(block, IF primaryLeft THEN 1 ELSE 2))),
   right |-> Some(Fine(At(block, IF primaryLeft THEN 2 ELSE 1))),
   case |-> IF Unavailable(At(block, 3)) THEN None ELSE Some(Fine(At(block, 3)))]

-----------------------------------------------------------------------------
(* The AirPods.                                                            *)

Nibble(charge) == IF charge = 127 THEN 15 ELSE charge \div 10
Sets(flag, k) == IF flag THEN 2^k ELSE 0
InCase(s) == pod[s].place = "case"
InEar(s) == pod[s].place = "ear"

(* The advertising pod is the primary one.  Its ear is bit 3 and the       *)
(* other's bit 1, or the other way round while it is in the case.          *)
StatusByte ==
  LET first == IF InCase(primary) THEN Other[primary] ELSE primary
      inCase == {s \in Sides : InCase(s)}
  IN  Sets(InEar(Other[first]), 1) + Sets(inCase = Sides, 2) + Sets(InEar(first), 3)
        + Sets(Cardinality(inCase) = 1, 4) + Sets(primary = "left", 5)
        + Sets(InCase(primary), 6)

(* Type, length, paired, model, status, charges, lid, colour, connection.  *)
Advertisement(id) ==
  <<7, 25, 1, id \div 256, id % 256, StatusByte,
    Nibble(pod[primary].charge) + 16 * Nibble(pod[Other[primary]].charge),
    Nibble(box.charge) + Sets(pod[primary].charging, 4)
      + Sets(pod[Other[primary]].charging, 5) + Sets(box.charging, 6),
    Sets(box.closed, 3), 0, 4>>

FineByte(part) ==
  IF part.charge = 127 THEN 255 ELSE part.charge + Sets(part.charging, 7)
Block ==
  <<0, FineByte(pod[primary]), FineByte(pod[Other[primary]]), FineByte(box)>> \o Zeros(12)

Init ==
  /\ pod \in [Sides -> {p \in Pods : p.place = "case"}]
  /\ box \in Boxes
  /\ primary \in Sides
  /\ data = <<>>

(* A pod is worn, taken out, put back, charged or used.                    *)
PodChanges(s) ==
  /\ \E p \in Pods \ {pod[s]} : pod' = [pod EXCEPT ![s] = p]
  /\ UNCHANGED <<box, primary>>

BoxChanges ==
  /\ box' \in Boxes \ {box}
  /\ UNCHANGED <<pod, primary>>

RolesChange ==
  /\ primary' = Other[primary]
  /\ UNCHANGED <<pod, box>>

AirPods == (\E s \in Sides : PodChanges(s)) \/ BoxChanges \/ RolesChange

(* With every change the AirPods advertise anew.                           *)
Next == AirPods /\ \E id \in BleIds : data' = Advertisement(id)'

Spec == Init /\ [][Next]_vars

-----------------------------------------------------------------------------
(* Properties.                                                             *)

(* Every advertisement of AirPods that are paired is decoded, and no       *)
(* battery is shown with more than 100 per cent.                           *)
AdvertTypeOK ==
  /\ pod \in [Sides -> Pods] /\ box \in Boxes /\ primary \in Sides
  /\ data \in Seq(Byte)
  /\ data # <<>> => ParseAdvertisement(data) # None
  /\ \A a \in ParseAdvertisement(data) :
       /\ \A part \in DOMAIN a.battery : a.battery[part] \subseteq 0..100
       /\ a.lid \in {"Open", "Closed", "Unknown"}
       /\ a.model \in DOMAIN BleModels \union {"Unknown"}

(* What is decoded is true of the side it is said of, whichever pod is the *)
(* primary one and wherever it is: the ears, the charging flags, the       *)
(* charges to ten per cent, the number of pods in the case, and the lid if *)
(* the advertising pod is in the case.  Reading one role bit the wrong way *)
(* round would exchange the pods for half of the advertisements.           *)
SidesAreRight ==
  \A a \in ParseAdvertisement(data) :
    /\ \A s \in Sides :
         /\ a.inEar[s] = InEar(s)
         /\ a.charging[s] = pod[s].charging
         /\ a.battery[s] = IF pod[s].charge = 127
                             THEN None ELSE Some(10 * (pod[s].charge \div 10))
    /\ a.bothPodsInCase = (\A s \in Sides : InCase(s))
    /\ a.onePodInCase = (\E s \in Sides : InCase(s) /\ ~InCase(Other[s]))
    /\ a.lid # "Unknown" => InCase(primary) /\ (a.lid = "Closed") = box.closed

(* The encrypted charges, read with the role of the same advertisement,    *)
(* refine the open ones: same sides, same tens of per cent, same flags.    *)
(* A part out of reach is left out, for which a pod's block byte decodes   *)
(* to 127 per cent, charging.                                              *)
EncryptedAgrees ==
  \A a \in ParseAdvertisement(data) :
    LET fine == DecryptBattery(Block, Bit(At(data, 5), 5))
    IN  \A part \in {"left", "right", "case"} :
          a.battery[part] # None =>
            \E f \in fine[part] :
              /\ a.battery[part] = Some(10 * (f.charge \div 10))
              /\ a.charging[part] = f.charging
=============================================================================
