--------------------------- MODULE BleAdvertProofs ---------------------------
(***************************************************************************)
(* Proofs about BleAdvert: whatever is advertised of the pods, for all     *)
(* levels and models, is decoded to what is true of them.                  *)
(***************************************************************************)
EXTENDS BleAdvert, FiniteSetTheorems, SequenceTheorems, TLAPS

-----------------------------------------------------------------------------
(* Bits and nibbles.                                                       *)

(* The flag that Sets adds for bit k.                                      *)
Flag(f) == IF f THEN 1 ELSE 0

LEMMA SetsIsFlag ==
  ASSUME NEW f \in BOOLEAN
  PROVE  /\ Sets(f, 1) = 2 * Flag(f) /\ Sets(f, 2) = 4 * Flag(f)
         /\ Sets(f, 3) = 8 * Flag(f) /\ Sets(f, 4) = 16 * Flag(f)
         /\ Sets(f, 5) = 32 * Flag(f) /\ Sets(f, 6) = 64 * Flag(f)
         /\ Sets(f, 7) = 128 * Flag(f) /\ Flag(f) \in {0, 1}
BY DEF Sets, Flag

LEMMA BitIs ==
  ASSUME NEW b \in Nat
  PROVE  /\ Bit(b, 0) = (b % 2 = 1)
         /\ Bit(b, 1) = ((b \div 2) % 2 = 1)
         /\ Bit(b, 2) = ((b \div 4) % 2 = 1)
         /\ Bit(b, 3) = ((b \div 8) % 2 = 1)
         /\ Bit(b, 4) = ((b \div 16) % 2 = 1)
         /\ Bit(b, 5) = ((b \div 32) % 2 = 1)
         /\ Bit(b, 6) = ((b \div 64) % 2 = 1)
         /\ Bit(b, 7) = ((b \div 128) % 2 = 1)
BY DEF Bit

(* The bits of a sum of flags are the flags.                               *)
LEMMA StatusBits ==
  ASSUME NEW f1 \in BOOLEAN, NEW f2 \in BOOLEAN, NEW f3 \in BOOLEAN,
         NEW f4 \in BOOLEAN, NEW f5 \in BOOLEAN, NEW f6 \in BOOLEAN,
         NEW b, b = Sets(f1, 1) + Sets(f2, 2) + Sets(f3, 3) + Sets(f4, 4)
                      + Sets(f5, 5) + Sets(f6, 6)
  PROVE  /\ b \in Byte
         /\ Bit(b, 1) = f1 /\ Bit(b, 2) = f2 /\ Bit(b, 3) = f3
         /\ Bit(b, 4) = f4 /\ Bit(b, 5) = f5 /\ Bit(b, 6) = f6
<1> DEFINE x1 == Flag(f1)
           x2 == Flag(f2)
           x3 == Flag(f3)
           x4 == Flag(f4)
           x5 == Flag(f5)
           x6 == Flag(f6)
<1>1. /\ x1 \in {0, 1} /\ x2 \in {0, 1} /\ x3 \in {0, 1}
      /\ x4 \in {0, 1} /\ x5 \in {0, 1} /\ x6 \in {0, 1}
  BY SetsIsFlag
<1>2. b = 2 * x1 + 4 * x2 + 8 * x3 + 16 * x4 + 32 * x5 + 64 * x6
  BY SetsIsFlag
<1>3. /\ f1 = (x1 = 1) /\ f2 = (x2 = 1) /\ f3 = (x3 = 1)
      /\ f4 = (x4 = 1) /\ f5 = (x5 = 1) /\ f6 = (x6 = 1)
  BY DEF Flag
<1> HIDE DEF x1, x2, x3, x4, x5, x6
<1>4. /\ b \in Nat /\ b <= 126
      /\ (b \div 2) % 2 = x1 /\ (b \div 4) % 2 = x2 /\ (b \div 8) % 2 = x3
      /\ (b \div 16) % 2 = x4 /\ (b \div 32) % 2 = x5 /\ (b \div 64) % 2 = x6
  BY <1>1, <1>2
<1>5. b \in Byte
  BY <1>4 DEF Byte
<1> QED
  BY <1>3, <1>4, <1>5, BitIs

(* So are those of the byte with the case's level and the charging flags.  *)
LEMMA ChargingBits ==
  ASSUME NEW f4 \in BOOLEAN, NEW f5 \in BOOLEAN, NEW f6 \in BOOLEAN, NEW n \in 0..15,
         NEW b, b = n + Sets(f4, 4) + Sets(f5, 5) + Sets(f6, 6)
  PROVE  /\ b \in Byte /\ Low(b) = n
         /\ Bit(High(b), 0) = f4 /\ Bit(High(b), 1) = f5 /\ Bit(High(b), 2) = f6
<1> DEFINE x4 == Flag(f4)
           x5 == Flag(f5)
           x6 == Flag(f6)
           h == b \div 16
<1>1. x4 \in {0, 1} /\ x5 \in {0, 1} /\ x6 \in {0, 1}
  BY SetsIsFlag
<1>2. b = n + 16 * x4 + 32 * x5 + 64 * x6
  BY SetsIsFlag
<1>3. f4 = (x4 = 1) /\ f5 = (x5 = 1) /\ f6 = (x6 = 1)
  BY DEF Flag
<1> HIDE DEF x4, x5, x6
<1>4. b \in Nat /\ b <= 127 /\ b % 16 = n /\ h = x4 + 2 * x5 + 4 * x6
  BY <1>1, <1>2
<1> HIDE DEF h
<1>5. h \in Nat /\ h % 2 = x4 /\ (h \div 2) % 2 = x5 /\ (h \div 4) % 2 = x6
  BY <1>1, <1>4
<1>6. Bit(h, 0) = f4 /\ Bit(h, 1) = f5 /\ Bit(h, 2) = f6
  BY <1>3, <1>5, BitIs
<1>7. b \in Byte /\ Low(b) = n
  BY <1>4 DEF Byte, Low
<1> QED
  BY <1>6, <1>7 DEF High, h

LEMMA Nibbles ==
  ASSUME NEW m \in 0..15, NEW n \in 0..15
  PROVE  m + 16 * n \in Byte /\ Low(m + 16 * n) = m /\ High(m + 16 * n) = n
BY DEF Byte, Low, High

LEMMA ChargesAre == ASSUME NEW c \in Charges PROVE c \in 0..100 \/ c = 127
<1>1. c \in PerCent
  BY AdvertAssumption
<1> QED
  BY <1>1 DEF PerCent

(* A nibble has the tens of a level, or none.                              *)
LEMMA LevelOfNibble ==
  ASSUME NEW c \in Charges
  PROVE  /\ Nibble(c) \in 0..15
         /\ Level(Nibble(c)) = IF c = 127 THEN None ELSE Some(10 * (c \div 10))
         /\ Level(Nibble(c)) \subseteq 0..100
<1>1. c \in 0..100 \/ c = 127
  BY ChargesAre
<1>2. CASE c = 127
  BY <1>2 DEF Nibble, Level, None
<1>3. CASE c \in 0..100
  <2> DEFINE n == c \div 10
  <2>1. n \in 0..10 /\ c # 127 /\ 10 * n \in 0..100
    BY <1>3
  <2>2. Nibble(c) = n
    BY <2>1 DEF Nibble
  <2> HIDE DEF n
  <2>3. Level(n) = Some(10 * n)
    BY <2>1 DEF Level
  <2>4. Level(Nibble(c)) = Some(10 * n) /\ Some(10 * n) \subseteq 0..100
    BY <2>1, <2>2, <2>3 DEF Some
  <2> QED
    BY <2>1, <2>2, <2>4 DEF n
<1> QED
  BY <1>1, <1>2, <1>3

(* The encrypted charge of a part that is in reach.                        *)
LEMMA FineIs ==
  ASSUME NEW part, part.charge \in Charges, part.charging \in BOOLEAN,
         part.charge # 127
  PROVE  /\ ~Unavailable(FineByte(part))
         /\ Fine(FineByte(part)) = [charge |-> part.charge, charging |-> part.charging]
<1> DEFINE c == part.charge
           x == Flag(part.charging)
           b == FineByte(part)
<1>1. c \in 0..100
  BY ChargesAre
<1>2. x \in {0, 1} /\ b = c + 128 * x
  BY SetsIsFlag DEF FineByte
<1>3. part.charging = (x = 1)
  BY DEF Flag
<1> HIDE DEF c, x, b
<1>4. b \in Nat /\ b % 128 = c /\ (b \div 128) % 2 = x /\ b # 255
  BY <1>1, <1>2
<1>5. Bit(b, 7) = part.charging
  BY <1>3, <1>4, BitIs
<1> QED
  BY <1>4, <1>5 DEF Fine, Unavailable, c, b

-----------------------------------------------------------------------------
(* The invariant: the AirPods are in a state that they can be in, and what *)
(* is on the air is an advertisement of it.                                *)

PodsOK == pod \in [Sides -> Pods] /\ box \in Boxes /\ primary \in Sides

AdvertInv ==
  /\ PodsOK
  /\ data = <<>> \/ \E id \in BleIds : data = Advertisement(id)

LEMMA PodsOKKept == ASSUME PodsOK, AirPods PROVE PodsOK'
<1>1. ASSUME NEW s \in Sides, PodChanges(s) PROVE PodsOK'
  BY <1>1 DEF PodsOK, PodChanges
<1>2. CASE BoxChanges
  BY <1>2 DEF PodsOK, BoxChanges
<1>3. CASE RolesChange
  BY <1>3 DEF PodsOK, RolesChange, Other, Sides
<1> QED
  BY <1>1, <1>2, <1>3 DEF AirPods

(* Whatever happens to the pods, what is on the air is an advertisement of *)
(* the state they are in.                                                  *)
THEOREM AdvertIsInvariant == Spec => []AdvertInv
<1>1. Init => AdvertInv
  BY DEF Init, AdvertInv, PodsOK
<1>2. AdvertInv /\ [Next]_vars => AdvertInv'
  <2> SUFFICES ASSUME AdvertInv, [Next]_vars PROVE AdvertInv'
    OBVIOUS
  <2>1. CASE Next
    BY <2>1, PodsOKKept DEF Next, AdvertInv
  <2>2. CASE UNCHANGED vars
    <3>1. PodsOK' /\ data' = data
      BY <2>2 DEF AdvertInv, PodsOK, vars
    <3>2. StatusByte' = StatusByte
      BY <2>2 DEF vars, StatusByte, InCase, InEar
    <3>3. ASSUME NEW id \in BleIds PROVE Advertisement(id)' = Advertisement(id)
      BY <2>2, <3>2 DEF vars, Advertisement
    <3> QED
      BY <3>1, <3>3 DEF AdvertInv
  <2> QED
    BY <2>1, <2>2
<1> QED
  BY <1>1, <1>2, PTL DEF Spec

-----------------------------------------------------------------------------
(* What is advertised.                                                     *)

(* The parts: the pod that advertises, the other one, and the case.        *)
LEMMA PartsAre ==
  ASSUME PodsOK
  PROVE  /\ \A s \in Sides : /\ pod[s].charge \in Charges /\ pod[s].charging \in BOOLEAN
                             /\ InCase(s) \in BOOLEAN /\ InEar(s) \in BOOLEAN
                             /\ InCase(s) => ~InEar(s)
         /\ box.charge \in Charges /\ box.charging \in BOOLEAN /\ box.closed \in BOOLEAN
         /\ primary \in Sides /\ Other[primary] \in Sides
<1>1. \A s \in Sides : pod[s] \in Pods
  BY DEF PodsOK
<1>2. \A s \in Sides : /\ pod[s].charge \in Charges /\ pod[s].charging \in BOOLEAN
                       /\ InCase(s) \in BOOLEAN /\ InEar(s) \in BOOLEAN
                       /\ InCase(s) => ~InEar(s)
  BY <1>1 DEF Pods, InCase, InEar
<1>3. box.charge \in Charges /\ box.charging \in BOOLEAN /\ box.closed \in BOOLEAN
  BY DEF PodsOK, Boxes
<1>4. primary \in Sides /\ Other[primary] \in Sides
  BY DEF PodsOK, Sides, Other
<1> QED
  BY <1>2, <1>3, <1>4

LEMMA PodsInCase ==
  ASSUME NEW S \in SUBSET Sides
  PROVE  /\ (S = Sides) = ("left" \in S /\ "right" \in S)
         /\ (Cardinality(S) = 1) = (("left" \in S) # ("right" \in S))
<1>1. CASE S = {}
  BY <1>1, FS_EmptySet DEF Sides
<1>2. CASE S = {"left"}
  BY <1>2, FS_Singleton DEF Sides
<1>3. CASE S = {"right"}
  BY <1>3, FS_Singleton DEF Sides
<1>4. CASE S = Sides
  <2>1. IsFiniteSet({"right"}) /\ Cardinality({"right"}) = 1
    BY FS_Singleton
  <2>2. Sides = {"right"} \union {"left"} /\ "left" \notin {"right"}
    BY DEF Sides
  <2>3. Cardinality(Sides) = 1 + 1
    BY <2>1, <2>2, FS_AddElement
  <2> QED
    BY <1>4, <2>3 DEF Sides
<1> QED
  BY <1>1, <1>2, <1>3, <1>4 DEF Sides

(* The bits of the status byte.                                            *)
FirstEar == IF InCase(primary) THEN Other[primary] ELSE primary

LEMMA StatusIs ==
  ASSUME PodsOK
  PROVE  /\ StatusByte \in Byte
         /\ Bit(StatusByte, 1) = InEar(Other[FirstEar])
         /\ Bit(StatusByte, 2) = (InCase("left") /\ InCase("right"))
         /\ Bit(StatusByte, 3) = InEar(FirstEar)
         /\ Bit(StatusByte, 4) = (InCase("left") # InCase("right"))
         /\ Bit(StatusByte, 5) = (primary = "left")
         /\ Bit(StatusByte, 6) = InCase(primary)
<1> DEFINE S == {s \in Sides : InCase(s)}
           f1 == InEar(Other[FirstEar])
           f2 == S = Sides
           f3 == InEar(FirstEar)
           f4 == Cardinality(S) = 1
           f5 == primary = "left"
           f6 == InCase(primary)
           b == StatusByte
<1>1. b = Sets(f1, 1) + Sets(f2, 2) + Sets(f3, 3) + Sets(f4, 4) + Sets(f5, 5) + Sets(f6, 6)
  BY DEF StatusByte, FirstEar
<1>2. FirstEar \in Sides /\ Other[FirstEar] \in Sides
  BY PartsAre DEF FirstEar, Sides, Other
<1>3. /\ f1 \in BOOLEAN /\ f2 \in BOOLEAN /\ f3 \in BOOLEAN
      /\ f4 \in BOOLEAN /\ f5 \in BOOLEAN /\ f6 \in BOOLEAN
  BY <1>2, PartsAre
<1>4. /\ f2 = (InCase("left") /\ InCase("right"))
      /\ f4 = (InCase("left") # InCase("right"))
  <2>1. "left" \in Sides /\ "right" \in Sides
    BY DEF Sides
  <2>2. /\ f2 = ("left" \in S /\ "right" \in S)
        /\ f4 = (("left" \in S) # ("right" \in S))
    BY PodsInCase
  <2>3. ("left" \in S) = InCase("left") /\ ("right" \in S) = InCase("right")
    BY <2>1, PartsAre
  <2> HIDE DEF S
  <2> QED
    BY <2>2, <2>3
<1> HIDE DEF f1, f2, f3, f4, f5, f6, b
<1>5. /\ b \in Byte
      /\ Bit(b, 1) = f1 /\ Bit(b, 2) = f2 /\ Bit(b, 3) = f3
      /\ Bit(b, 4) = f4 /\ Bit(b, 5) = f5 /\ Bit(b, 6) = f6
  BY <1>1, <1>3, StatusBits
<1> QED
  BY <1>4, <1>5 DEF f1, f3, f5, f6, b

(* The bytes of an advertisement.                                          *)
ChargesByte ==
  Nibble(pod[primary].charge) + 16 * Nibble(pod[Other[primary]].charge)
FlagsByte ==
  Nibble(box.charge) + Sets(pod[primary].charging, 4)
    + Sets(pod[Other[primary]].charging, 5) + Sets(box.charging, 6)

Packed(a, b, c, d, e, f) == <<7, 25, 1, a, b, c, d, e, f, 0, 4>>

IsPacked(p, c, d, e, f) ==
  /\ p \in Seq(Byte) /\ ~(Len(p) < 11) /\ p # <<>>
  /\ At(p, 0) = 7 /\ At(p, 2) = 1
  /\ At(p, 5) = c /\ At(p, 6) = d /\ At(p, 7) = e /\ At(p, 8) = f

LEMMA ElevenBytes ==
  ASSUME NEW a \in Byte, NEW b \in Byte, NEW c \in Byte, NEW d \in Byte, NEW e \in Byte,
         NEW f \in Byte
  PROVE  IsPacked(Packed(a, b, c, d, e, f), c, d, e, f)
<1> DEFINE p == Packed(a, b, c, d, e, f)
<1>1. 7 \in Byte /\ 25 \in Byte /\ 1 \in Byte /\ 0 \in Byte /\ 4 \in Byte
  BY DEF Byte
<1>2. p \in Seq(Byte) /\ ~(Len(p) < 11) /\ p # <<>>
  BY <1>1 DEF Packed
<1>3. /\ At(p, 0) = 7 /\ At(p, 2) = 1
      /\ At(p, 5) = c /\ At(p, 6) = d /\ At(p, 7) = e /\ At(p, 8) = f
  BY DEF At, Packed
<1> QED
  BY <1>2, <1>3 DEF IsPacked

LEMMA BytesAre ==
  ASSUME PodsOK, NEW id \in BleIds, NEW p, p = Advertisement(id)
  PROVE  /\ p \in Seq(Byte) /\ p # <<>>
         /\ ParseAdvertisement(p) = {Decode(p)}
         /\ At(p, 5) = StatusByte /\ At(p, 6) = ChargesByte /\ At(p, 7) = FlagsByte
         /\ At(p, 8) = Sets(box.closed, 3)
<1> DEFINE a == id \div 256
           b == id % 256
           d == ChargesByte
           e == FlagsByte
           f == Sets(box.closed, 3)
<1>1. a \in Byte /\ b \in Byte
  <2>1. id \in TwoBytes
    BY AdvertAssumption
  <2>2. PICK k \in Nat : k = id /\ k < 65536
    BY <2>1 DEF TwoBytes
  <2>3. k \div 256 \in 0..255 /\ k % 256 \in 0..255
    BY <2>2
  <2> QED
    BY <2>2, <2>3 DEF Byte
<1>2. StatusByte \in Byte
  BY StatusIs
<1>3. d \in Byte
  BY PartsAre, LevelOfNibble, Nibbles DEF ChargesByte
<1>4. e \in Byte
  BY PartsAre, LevelOfNibble, ChargingBits DEF FlagsByte
<1>5. f \in Byte
  BY PartsAre DEF Sets, Byte
<1>6. p = Packed(a, b, StatusByte, d, e, f)
  BY DEF Advertisement, ChargesByte, FlagsByte, Packed
<1> DEFINE c == StatusByte
<1> HIDE DEF a, b, c, d, e, f
<1>z. c \in Byte /\ p = Packed(a, b, c, d, e, f)
  BY <1>2, <1>6 DEF c
<1>7. IsPacked(p, c, d, e, f)
  BY <1>1, <1>3, <1>4, <1>5, <1>z, ElevenBytes
<1>8. ParseAdvertisement(p) = {Decode(p)}
  BY <1>7 DEF ParseAdvertisement, Some, IsPacked
<1> QED
  BY <1>7, <1>8 DEF c, d, e, f, IsPacked

-----------------------------------------------------------------------------
(* What is decoded.                                                        *)

LEMMA DecodeIs ==
  ASSUME NEW p
  PROVE  /\ Decode(p).battery =
              [left |-> Level(IF Bit(At(p, 5), 5) THEN Low(At(p, 6)) ELSE High(At(p, 6))),
               right |-> Level(IF Bit(At(p, 5), 5) THEN High(At(p, 6)) ELSE Low(At(p, 6))),
               case |-> Level(Low(At(p, 7)))]
         /\ Decode(p).charging =
              [left |-> Bit(High(At(p, 7)), IF Bit(At(p, 5), 5) THEN 0 ELSE 1),
               right |-> Bit(High(At(p, 7)), IF Bit(At(p, 5), 5) THEN 1 ELSE 0),
               case |-> Bit(High(At(p, 7)), 2)]
         /\ Decode(p).inEar =
              [left |-> Bit(At(p, 5), LeftEarBit(Bit(At(p, 5), 5), Bit(At(p, 5), 6))),
               right |-> Bit(At(p, 5), 4 - LeftEarBit(Bit(At(p, 5), 5), Bit(At(p, 5), 6)))]
         /\ Decode(p).lid = (IF ~Bit(At(p, 5), 6) THEN "Unknown"
                               ELSE IF Bit(At(p, 8), 3) THEN "Closed" ELSE "Open")
         /\ Decode(p).onePodInCase = Bit(At(p, 5), 4)
         /\ Decode(p).bothPodsInCase = Bit(At(p, 5), 2)
         /\ Decode(p).model = ModelFromBleId(256 * At(p, 3) + At(p, 4))
BY DEF Decode

(* The levels and the charging flags, by side.                             *)
Shows(c) == IF c = 127 THEN None ELSE Some(10 * (c \div 10))

LEMMA ChargesAreRight ==
  ASSUME PodsOK, NEW id \in BleIds, NEW p, p = Advertisement(id)
  PROVE  /\ Decode(p).battery = [left |-> Shows(pod["left"].charge),
                                 right |-> Shows(pod["right"].charge),
                                 case |-> Shows(box.charge)]
         /\ Decode(p).charging = [left |-> pod["left"].charging,
                                  right |-> pod["right"].charging,
                                  case |-> box.charging]
<1> DEFINE first == pod[primary]
           second == pod[Other[primary]]
           n1 == Nibble(first.charge)
           n2 == Nibble(second.charge)
           n3 == Nibble(box.charge)
           h == High(At(p, 7))
<1>1. /\ first.charge \in Charges /\ second.charge \in Charges /\ box.charge \in Charges
      /\ first.charging \in BOOLEAN /\ second.charging \in BOOLEAN
      /\ box.charging \in BOOLEAN
  BY PartsAre
<1>2. /\ n1 \in 0..15 /\ n2 \in 0..15 /\ n3 \in 0..15
      /\ Level(n1) = Shows(first.charge) /\ Level(n2) = Shows(second.charge)
      /\ Level(n3) = Shows(box.charge)
  BY <1>1, LevelOfNibble DEF Shows
<1>3. Low(At(p, 6)) = n1 /\ High(At(p, 6)) = n2
  <2>1. At(p, 6) = n1 + 16 * n2
    BY BytesAre DEF ChargesByte
  <2> HIDE DEF n1, n2
  <2> QED
    BY <1>2, <2>1, Nibbles
<1>4. /\ Low(At(p, 7)) = n3
      /\ Bit(h, 0) = first.charging /\ Bit(h, 1) = second.charging
      /\ Bit(h, 2) = box.charging
  <2> DEFINE f4 == first.charging
             f5 == second.charging
             f6 == box.charging
             b == At(p, 7)
  <2>1. b = n3 + Sets(f4, 4) + Sets(f5, 5) + Sets(f6, 6)
    BY BytesAre DEF FlagsByte
  <2>2. f4 \in BOOLEAN /\ f5 \in BOOLEAN /\ f6 \in BOOLEAN
    BY <1>1
  <2> HIDE DEF f4, f5, f6, b, n3
  <2>3. /\ Low(b) = n3
        /\ Bit(High(b), 0) = f4 /\ Bit(High(b), 1) = f5 /\ Bit(High(b), 2) = f6
    BY <1>2, <2>1, <2>2, ChargingBits
  <2> QED
    BY <2>3 DEF b, f4, f5, f6
<1>5. Bit(At(p, 5), 5) = (primary = "left")
  BY BytesAre, StatusIs
<1> HIDE DEF n1, n2, n3, h
<1>6. CASE primary = "left"
  <2>1. first = pod["left"] /\ second = pod["right"]
    BY <1>6 DEF Other
  <2>2. Bit(At(p, 5), 5)
    BY <1>5, <1>6
  <2> HIDE DEF first, second
  <2>3. Decode(p).battery = [left |-> Level(n1), right |-> Level(n2), case |-> Level(n3)]
    BY <1>3, <1>4, <2>2, DecodeIs
  <2>4. Decode(p).charging = [left |-> Bit(h, 0), right |-> Bit(h, 1), case |-> Bit(h, 2)]
    BY <2>2, DecodeIs DEF h
  <2> QED
    BY <1>2, <1>4, <2>1, <2>3, <2>4
<1>7. CASE primary = "right"
  <2>1. first = pod["right"] /\ second = pod["left"]
    BY <1>7 DEF Other
  <2>2. ~Bit(At(p, 5), 5)
    BY <1>5, <1>7
  <2> HIDE DEF first, second
  <2>3. Decode(p).battery = [left |-> Level(n2), right |-> Level(n1), case |-> Level(n3)]
    BY <1>3, <1>4, <2>2, DecodeIs
  <2>4. Decode(p).charging = [left |-> Bit(h, 1), right |-> Bit(h, 0), case |-> Bit(h, 2)]
    BY <2>2, DecodeIs DEF h
  <2> QED
    BY <1>2, <1>4, <2>1, <2>3, <2>4
<1> QED
  BY <1>6, <1>7, PartsAre DEF Sides

(* The ears.  While the advertising pod is in the case its bit is the      *)
(* other's, and so the bits are exchanged twice.                           *)
LEMMA EarsAreRight ==
  ASSUME PodsOK, NEW id \in BleIds, NEW p, p = Advertisement(id)
  PROVE  Decode(p).inEar = [left |-> InEar("left"), right |-> InEar("right")]
<1> DEFINE b == At(p, 5)
           ear == LeftEarBit(Bit(b, 5), Bit(b, 6))
<1>1. /\ Bit(b, 1) = InEar(Other[FirstEar]) /\ Bit(b, 3) = InEar(FirstEar)
      /\ Bit(b, 5) = (primary = "left") /\ Bit(b, 6) = InCase(primary)
  BY BytesAre, StatusIs
<1>2. Decode(p).inEar = [left |-> Bit(b, ear), right |-> Bit(b, 4 - ear)]
  BY DecodeIs
<1>3. primary \in {"left", "right"} /\ InCase(primary) \in BOOLEAN
  BY PartsAre DEF Sides
<1> HIDE DEF b
<1>4. CASE FirstEar = "left"
  <2>1. (primary = "left") # InCase(primary)
    BY <1>3, <1>4 DEF FirstEar, Other
  <2>2. ear = 3 /\ 4 - ear = 1
    BY <1>1, <2>1 DEF LeftEarBit
  <2>3. Other[FirstEar] = "right"
    BY <1>4 DEF Other
  <2> HIDE DEF ear
  <2> QED
    BY <1>1, <1>2, <1>4, <2>2, <2>3
<1>5. CASE FirstEar = "right"
  <2>1. (primary = "left") = InCase(primary)
    BY <1>3, <1>5 DEF FirstEar, Other
  <2>2. ear = 1 /\ 4 - ear = 3
    BY <1>1, <2>1 DEF LeftEarBit
  <2>3. Other[FirstEar] = "left"
    BY <1>5 DEF Other
  <2> HIDE DEF ear
  <2> QED
    BY <1>1, <1>2, <1>5, <2>2, <2>3
<1>6. FirstEar \in {"left", "right"}
  BY <1>3 DEF FirstEar, Other
<1> QED
  BY <1>4, <1>5, <1>6

LEMMA LidIsRight ==
  ASSUME PodsOK, NEW id \in BleIds, NEW p, p = Advertisement(id)
  PROVE  /\ Decode(p).lid \in {"Open", "Closed", "Unknown"}
         /\ Decode(p).lid # "Unknown" =>
              InCase(primary) /\ (Decode(p).lid = "Closed") = box.closed
<1> DEFINE b == At(p, 8)
<1>1. b = 8 * Flag(box.closed) /\ Flag(box.closed) \in {0, 1}
  BY BytesAre, PartsAre, SetsIsFlag
<1>2. Bit(b, 3) = box.closed
  <2>1. PICK x \in {0, 1} : x = Flag(box.closed)
    BY <1>1
  <2>2. b \in Nat /\ (b \div 8) % 2 = x
    BY <1>1, <2>1
  <2>3. box.closed = (x = 1)
    BY <2>1, PartsAre DEF Flag
  <2> HIDE DEF b
  <2> QED
    BY <2>2, <2>3, BitIs
<1>3. Bit(At(p, 5), 6) = InCase(primary)
  BY BytesAre, StatusIs
<1> HIDE DEF b
<1>4. Decode(p).lid = (IF ~Bit(At(p, 5), 6) THEN "Unknown"
                         ELSE IF Bit(b, 3) THEN "Closed" ELSE "Open")
  BY DecodeIs DEF b
<1>5. box.closed \in BOOLEAN /\ InCase(primary) \in BOOLEAN
  BY PartsAre
<1>6. CASE ~InCase(primary)
  <2>1. Decode(p).lid = "Unknown"
    BY <1>3, <1>4, <1>6
  <2> QED
    BY <2>1
<1>7. CASE InCase(primary) /\ box.closed
  <2>1. Decode(p).lid = "Closed"
    BY <1>2, <1>3, <1>4, <1>7
  <2> QED
    BY <1>7, <2>1
<1>8. CASE InCase(primary) /\ ~box.closed
  <2>1. Decode(p).lid = "Open"
    BY <1>2, <1>3, <1>4, <1>8
  <2>2. (Decode(p).lid = "Closed") = FALSE /\ box.closed = FALSE
    BY <1>5, <1>8, <2>1
  <2> QED
    BY <1>8, <2>1, <2>2
<1> QED
  BY <1>5, <1>6, <1>7, <1>8
-----------------------------------------------------------------------------
(* The properties.                                                         *)

LEMMA InCaseIsRight ==
  ASSUME PodsOK, NEW id \in BleIds, NEW p, p = Advertisement(id)
  PROVE  /\ Decode(p).bothPodsInCase = (\A s \in Sides : InCase(s))
         /\ Decode(p).onePodInCase = (\E s \in Sides : InCase(s) /\ ~InCase(Other[s]))
<1> DEFINE l == InCase("left")
           r == InCase("right")
<1>1. /\ Decode(p).bothPodsInCase = (l /\ r)
      /\ Decode(p).onePodInCase = (l # r)
  <2> DEFINE b == StatusByte
  <2>1. At(p, 5) = b
    BY BytesAre
  <2>2. Bit(b, 2) = (l /\ r) /\ Bit(b, 4) = (l # r)
    BY StatusIs
  <2>3. Decode(p).onePodInCase = Bit(b, 4) /\ Decode(p).bothPodsInCase = Bit(b, 2)
    BY <2>1, DecodeIs
  <2> HIDE DEF b, l, r
  <2> QED
    BY <2>2, <2>3
<1>2. l \in BOOLEAN /\ r \in BOOLEAN
  BY PartsAre DEF Sides
<1>3. Other["left"] = "right" /\ Other["right"] = "left"
  BY DEF Other
<1>4. (\A s \in Sides : InCase(s)) = (l /\ r)
  BY DEF Sides
<1>5. (\E s \in Sides : InCase(s) /\ ~InCase(Other[s])) = ((l /\ ~r) \/ (r /\ ~l))
  BY <1>3 DEF Sides
<1> HIDE DEF l, r
<1>6. (l # r) = ((l /\ ~r) \/ (r /\ ~l))
  BY <1>2
<1>7. Decode(p).onePodInCase = (\E s \in Sides : InCase(s) /\ ~InCase(Other[s]))
  BY <1>1, <1>5, <1>6
<1>8. Decode(p).bothPodsInCase = (\A s \in Sides : InCase(s))
  BY <1>1, <1>4
<1> QED
  BY <1>7, <1>8

LEMMA NothingIsParsed == ParseAdvertisement(<<>>) = {}
<1>1. Len(<<>>) < 11
  OBVIOUS
<1> QED
  BY <1>1 DEF ParseAdvertisement, None

(* What is parsed is what is on the air, decoded.                          *)
LEMMA OnlyAdvertisements ==
  ASSUME AdvertInv, NEW a \in ParseAdvertisement(data)
  PROVE  a = Decode(data) /\ \E id \in BleIds : data = Advertisement(id)
<1>1. data # <<>>
  BY NothingIsParsed
<1>2. PICK id \in BleIds : data = Advertisement(id)
  BY <1>1 DEF AdvertInv
<1>3. PodsOK
  BY DEF AdvertInv
<1>4. ParseAdvertisement(data) = {Decode(data)}
  BY <1>2, <1>3, BytesAre
<1> QED
  BY <1>2, <1>4

LEMMA ModelIsKnown == ASSUME NEW n PROVE ModelFromBleId(n) \in DOMAIN BleModels \union {"Unknown"}
<1>1. CASE \E m \in DOMAIN BleModels : BleModels[m] = n
  <2>1. ModelFromBleId(n) = CHOOSE m \in DOMAIN BleModels : BleModels[m] = n
    BY <1>1 DEF ModelFromBleId
  <2>2. (CHOOSE m \in DOMAIN BleModels : BleModels[m] = n) \in DOMAIN BleModels
    BY <1>1, Zenon
  <2> QED
    BY <2>1, <2>2, Zenon
<1>2. CASE ~\E m \in DOMAIN BleModels : BleModels[m] = n
  BY <1>2, Zenon DEF ModelFromBleId
<1> QED
  BY <1>1, <1>2

LEMMA AdvertsAreTyped == ASSUME AdvertInv PROVE AdvertTypeOK
<1>1. PodsOK
  BY DEF AdvertInv
<1>2. data \in Seq(Byte) /\ (data # <<>> => ParseAdvertisement(data) # None)
  <2>1. CASE data = <<>>
    BY <2>1
  <2>2. ASSUME NEW id \in BleIds, data = Advertisement(id)
        PROVE  data \in Seq(Byte) /\ (data # <<>> => ParseAdvertisement(data) # None)
    BY <1>1, <2>2, BytesAre DEF None
  <2> QED
    BY <2>1, <2>2 DEF AdvertInv
<1>3. ASSUME NEW a \in ParseAdvertisement(data)
      PROVE  /\ \A part \in DOMAIN a.battery : a.battery[part] \subseteq 0..100
             /\ a.lid \in {"Open", "Closed", "Unknown"}
             /\ a.model \in DOMAIN BleModels \union {"Unknown"}
  <2>1. PICK id \in BleIds : data = Advertisement(id)
    BY <1>3, OnlyAdvertisements
  <2>2. a = Decode(data)
    BY <1>3, OnlyAdvertisements
  <2>3. a.model \in DOMAIN BleModels \union {"Unknown"}
    <3>1. a.model = ModelFromBleId(256 * At(data, 3) + At(data, 4))
      BY <2>2, DecodeIs
    <3> QED
      BY <3>1, ModelIsKnown, Zenon
  <2>4. a.lid \in {"Open", "Closed", "Unknown"}
    BY <1>1, <2>1, <2>2, LidIsRight
  <2>5. ASSUME NEW c \in Charges PROVE Shows(c) \subseteq 0..100
    BY LevelOfNibble DEF Shows
  <2>6. a.battery = [left |-> Shows(pod["left"].charge),
                     right |-> Shows(pod["right"].charge), case |-> Shows(box.charge)]
    BY <1>1, <2>1, <2>2, ChargesAreRight
  <2>7. /\ Shows(pod["left"].charge) \subseteq 0..100
        /\ Shows(pod["right"].charge) \subseteq 0..100 /\ Shows(box.charge) \subseteq 0..100
    BY <1>1, <2>5, PartsAre DEF Sides
  <2>8. \A part \in DOMAIN a.battery : a.battery[part] \subseteq 0..100
    BY <2>6, <2>7
  <2> QED
    BY <2>3, <2>4, <2>8
<1> QED
  BY <1>1, <1>2, <1>3 DEF AdvertTypeOK, PodsOK

LEMMA SidesAreRead == ASSUME AdvertInv PROVE SidesAreRight
<1> SUFFICES ASSUME NEW a \in ParseAdvertisement(data)
             PROVE  /\ \A s \in Sides :
                         /\ a.inEar[s] = InEar(s)
                         /\ a.charging[s] = pod[s].charging
                         /\ a.battery[s] = IF pod[s].charge = 127
                                THEN None ELSE Some(10 * (pod[s].charge \div 10))
                    /\ a.bothPodsInCase = (\A s \in Sides : InCase(s))
                    /\ a.onePodInCase = (\E s \in Sides : InCase(s) /\ ~InCase(Other[s]))
                    /\ a.lid # "Unknown" => InCase(primary) /\ (a.lid = "Closed") = box.closed
  BY DEF SidesAreRight
<1>1. PICK id \in BleIds : data = Advertisement(id)
  BY OnlyAdvertisements
<1>2. PodsOK /\ a = Decode(data)
  BY OnlyAdvertisements DEF AdvertInv
<1>3. a.inEar = [left |-> InEar("left"), right |-> InEar("right")]
  BY <1>1, <1>2, EarsAreRight
<1>4. /\ a.battery = [left |-> Shows(pod["left"].charge),
                      right |-> Shows(pod["right"].charge), case |-> Shows(box.charge)]
      /\ a.charging = [left |-> pod["left"].charging, right |-> pod["right"].charging,
                       case |-> box.charging]
  BY <1>1, <1>2, ChargesAreRight
<1>5. ASSUME NEW s \in Sides
      PROVE  /\ a.inEar[s] = InEar(s)
             /\ a.charging[s] = pod[s].charging
             /\ a.battery[s] = Shows(pod[s].charge)
  <2>1. CASE s = "left"
    BY <1>3, <1>4, <2>1
  <2>2. CASE s = "right"
    BY <1>3, <1>4, <2>2
  <2> QED
    BY <2>1, <2>2 DEF Sides
<1>6. /\ a.bothPodsInCase = (\A s \in Sides : InCase(s))
      /\ a.onePodInCase = (\E s \in Sides : InCase(s) /\ ~InCase(Other[s]))
  BY <1>1, <1>2, InCaseIsRight
<1>7. a.lid # "Unknown" => InCase(primary) /\ (a.lid = "Closed") = box.closed
  BY <1>1, <1>2, LidIsRight
<1> QED
  BY <1>5, <1>6, <1>7 DEF Shows
(* The bytes of the decrypted block.                                       *)
LEMMA FineByteIsNat ==
  ASSUME NEW part, part.charge \in Charges, part.charging \in BOOLEAN
  PROVE  FineByte(part) \in Nat
<1>1. part.charge \in Nat
  BY ChargesAre
<1>2. Sets(part.charging, 7) \in Nat
  BY DEF Sets
<1> QED
  BY <1>1, <1>2 DEF FineByte

BlockWith(x, y, w) == <<0, x, y, w>> \o Zeros(12)

LEMMA BlockOf ==
  ASSUME NEW x \in Nat, NEW y \in Nat, NEW w \in Nat
  PROVE  /\ At(BlockWith(x, y, w), 1) = x /\ At(BlockWith(x, y, w), 2) = y
         /\ At(BlockWith(x, y, w), 3) = w
<1> DEFINE z == Zeros(12)
           h == <<0, x, y, w>>
           b == BlockWith(x, y, w)
<1>1. z \in Seq(Nat)
  BY DEF Zeros
<1>2. /\ h \in Seq(Nat) /\ Len(h) = 4
      /\ h[2] = x /\ h[3] = y /\ h[4] = w
  OBVIOUS
<1> HIDE DEF z, h
<1>3. 2 \in 1..Len(h) /\ 3 \in 1..Len(h) /\ 4 \in 1..Len(h)
  BY <1>2
<1>4. ASSUME NEW i \in 1..Len(h) PROVE (h \o z)[i] = h[i]
  <2>1. Len(h) \in Nat /\ Len(z) \in Nat /\ h \in Seq(Nat)
    BY <1>1, <1>2
  <2>2. i \in 1..(Len(h) + Len(z)) /\ i <= Len(h)
    BY <2>1
  <2> QED
    BY <1>1, <2>1, <2>2, ConcatProperties
<1>5. b = h \o z
  BY DEF h, z, b, BlockWith
<1> HIDE DEF b
<1> QED
  <2>1. b[2] = x /\ b[3] = y /\ b[4] = w
    BY <1>2, <1>3, <1>4, <1>5
  <2> QED
    BY <2>1 DEF At, b

LEMMA BlockIs ==
  ASSUME PodsOK
  PROVE  /\ At(Block, 1) = FineByte(pod[primary])
         /\ At(Block, 2) = FineByte(pod[Other[primary]])
         /\ At(Block, 3) = FineByte(box)
<1> DEFINE x == FineByte(pod[primary])
           y == FineByte(pod[Other[primary]])
           w == FineByte(box)
<1>1. x \in Nat /\ y \in Nat /\ w \in Nat
  BY PartsAre, FineByteIsNat
<1>2. Block = BlockWith(x, y, w)
  BY DEF Block, BlockWith
<1> HIDE DEF x, y, w
<1>3. At(Block, 1) = x /\ At(Block, 2) = y /\ At(Block, 3) = w
  BY <1>1, <1>2, BlockOf
<1> QED
  BY <1>3 DEF x, y, w

(* The decrypted charges, by side.                                         *)
LEMMA BlockIsRight ==
  ASSUME PodsOK
  PROVE  DecryptBattery(Block, primary = "left") =
           [left |-> Some(Fine(FineByte(pod["left"]))),
            right |-> Some(Fine(FineByte(pod["right"]))),
            case |-> IF Unavailable(FineByte(box)) THEN None ELSE Some(Fine(FineByte(box)))]
<1>1. /\ At(Block, 1) = FineByte(pod[primary])
      /\ At(Block, 2) = FineByte(pod[Other[primary]])
      /\ At(Block, 3) = FineByte(box)
  BY BlockIs
<1>2. CASE primary = "left"
  <2>1. Other[primary] = "right"
    BY <1>2 DEF Other
  <2> QED
    BY <1>1, <1>2, <2>1 DEF DecryptBattery
<1>3. CASE primary = "right"
  <2>1. Other[primary] = "left"
    BY <1>3 DEF Other
  <2> QED
    BY <1>1, <1>3, <2>1 DEF DecryptBattery
<1> QED
  BY <1>2, <1>3, PartsAre DEF Sides

(* A part that the open charges show has the same fine one.                *)
LEMMA FineAgrees ==
  ASSUME NEW part, part.charge \in Charges, part.charging \in BOOLEAN,
         Shows(part.charge) # None
  PROVE  /\ ~Unavailable(FineByte(part))
         /\ Shows(part.charge) = Some(10 * (Fine(FineByte(part)).charge \div 10))
         /\ part.charging = Fine(FineByte(part)).charging
<1>1. part.charge # 127
  BY DEF Shows
<1>2. /\ ~Unavailable(FineByte(part))
      /\ Fine(FineByte(part)) = [charge |-> part.charge, charging |-> part.charging]
  BY <1>1, FineIs
<1>3. /\ Fine(FineByte(part)).charge = part.charge
      /\ Fine(FineByte(part)).charging = part.charging
  BY <1>2
<1>4. Shows(part.charge) = Some(10 * (part.charge \div 10))
  BY <1>1 DEF Shows
<1> QED
  BY <1>2, <1>3, <1>4

LEMMA EncryptedIsRead == ASSUME AdvertInv PROVE EncryptedAgrees
<1> DEFINE fine == DecryptBattery(Block, Bit(At(data, 5), 5))
           Agrees(a, part) ==
             \E f \in fine[part] : /\ a.battery[part] = Some(10 * (f.charge \div 10))
                                   /\ a.charging[part] = f.charging
<1> SUFFICES ASSUME NEW a \in ParseAdvertisement(data),
                    NEW part \in {"left", "right", "case"}, a.battery[part] # None
             PROVE  Agrees(a, part)
  BY DEF EncryptedAgrees
<1>1. PICK id \in BleIds : data = Advertisement(id)
  BY OnlyAdvertisements
<1>2. PodsOK /\ a = Decode(data)
  BY OnlyAdvertisements DEF AdvertInv
<1>3. /\ a.battery = [left |-> Shows(pod["left"].charge),
                      right |-> Shows(pod["right"].charge), case |-> Shows(box.charge)]
      /\ a.charging = [left |-> pod["left"].charging, right |-> pod["right"].charging,
                       case |-> box.charging]
  BY <1>1, <1>2, ChargesAreRight
<1>4. Bit(At(data, 5), 5) = (primary = "left")
  BY <1>1, <1>2, BytesAre, StatusIs
<1>5. fine = [left |-> Some(Fine(FineByte(pod["left"]))),
              right |-> Some(Fine(FineByte(pod["right"]))),
              case |-> IF Unavailable(FineByte(box)) THEN None ELSE Some(Fine(FineByte(box)))]
  BY <1>2, <1>4, BlockIsRight
<1>6. /\ pod["left"].charge \in Charges /\ pod["left"].charging \in BOOLEAN
      /\ pod["right"].charge \in Charges /\ pod["right"].charging \in BOOLEAN
      /\ box.charge \in Charges /\ box.charging \in BOOLEAN
  BY <1>2, PartsAre DEF Sides
<1> HIDE DEF fine
<1>7. ASSUME NEW side \in Sides, part = side,
             pod[side].charge \in Charges, pod[side].charging \in BOOLEAN,
             fine[side] = Some(Fine(FineByte(pod[side]))),
             a.battery[side] = Shows(pod[side].charge), a.charging[side] = pod[side].charging
      PROVE  Agrees(a, part)
  <2> DEFINE f == Fine(FineByte(pod[side]))
  <2>1. f \in fine[part]
    BY <1>7 DEF Some
  <2>2. Shows(pod[side].charge) = Some(10 * (f.charge \div 10)) /\ pod[side].charging = f.charging
    BY <1>7, FineAgrees
  <2>3. a.battery[part] = Some(10 * (f.charge \div 10)) /\ a.charging[part] = f.charging
    BY <1>7, <2>2
  <2> HIDE DEF f
  <2> QED
    BY <2>1, <2>3
<1>8. CASE part = "left"
  BY <1>3, <1>5, <1>6, <1>7, <1>8 DEF Sides
<1>9. CASE part = "right"
  BY <1>3, <1>5, <1>6, <1>7, <1>9 DEF Sides
<1>10. CASE part = "case"
  <2> DEFINE f == Fine(FineByte(box))
  <2>1. a.battery[part] = Shows(box.charge) /\ a.charging[part] = box.charging
    BY <1>3, <1>10
  <2>2. /\ ~Unavailable(FineByte(box))
        /\ Shows(box.charge) = Some(10 * (f.charge \div 10)) /\ box.charging = f.charging
    BY <1>6, <2>1, FineAgrees
  <2>3. f \in fine[part]
    BY <1>5, <1>10, <2>2 DEF Some
  <2> HIDE DEF f
  <2> QED
    BY <2>1, <2>2, <2>3
<1> QED
  BY <1>8, <1>9, <1>10

(* Every advertisement of paired AirPods is decoded, to a known model or   *)
(* none, a lid state, and charges that are no more than 100 per cent.      *)
THEOREM AdvertsAreDecoded == Spec => []AdvertTypeOK
<1>1. AdvertInv => AdvertTypeOK
  BY AdvertsAreTyped
<1> QED
  BY <1>1, AdvertIsInvariant, PTL

(* parse_advertisement never exchanges the pods, whichever is the primary  *)
(* one and wherever it is: ears, charging flags and charges are those of   *)
(* the side they are said of, for all levels and models.                   *)
THEOREM SidesAreNeverSwapped == Spec => []SidesAreRight
<1>1. AdvertInv => SidesAreRight
  BY SidesAreRead
<1> QED
  BY <1>1, AdvertIsInvariant, PTL

(* decrypt_battery, given the role of the same advertisement, refines the  *)
(* open charges of each part that is in reach.                             *)
THEOREM EncryptedRefinesOpen == Spec => []EncryptedAgrees
<1>1. AdvertInv => EncryptedAgrees
  BY EncryptedIsRead
<1> QED
  BY <1>1, AdvertIsInvariant, PTL
=============================================================================
