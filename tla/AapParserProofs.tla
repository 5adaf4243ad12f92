--------------------------- MODULE AapParserProofs ---------------------------
(***************************************************************************)
(* Proofs about AapParser: whatever bytes arrive, of whatever length,      *)
(* parse and its sub-parsers return an error or a packet of one of the     *)
(* types, and never index behind the end of what they were given.          *)
(***************************************************************************)
EXTENDS AapParser, SequenceTheorems, WellFoundedInduction, TLAPS

-----------------------------------------------------------------------------
(* The least and the greatest of some numbers.                             *)

LEMMA NaturalsHaveLeast ==
  ASSUME NEW S, S \subseteq Nat, S # {}
  PROVE  \E k \in S : \A j \in S : k <= j
<1> DEFINE R == {ss \in Nat \X Nat : ss[1] < ss[2]}
<1>1. IsWellFoundedOn(R, Nat)
  BY NatLessThanWellFounded DEF OpToRel
<1>2. PICK k \in S : \A j \in S : ~(<<j, k>> \in R)
  <2> HIDE DEF R
  <2> QED
    BY <1>1, WFMin
<1>3. \A j \in S : ~(j < k) /\ j \in Nat /\ k \in Nat
  BY <1>2
<1> QED
  BY <1>3

LEMMA MinOfNaturals ==
  ASSUME NEW S, S \subseteq Nat, S # {}
  PROVE  Min(S) \in S /\ \A j \in S : Min(S) <= j
BY NaturalsHaveLeast DEF Min

LEMMA MaxOfPositions ==
  ASSUME NEW n \in Nat, NEW S, S \subseteq 1..n, S # {}
  PROVE  Max(S) \in S /\ \A j \in S : j <= Max(S)
<1> DEFINE T == {k \in 0..n : n - k \in S}
<1>1. \A j \in S : n - j \in 0..n /\ n - (n - j) = j
  OBVIOUS
<1>2. T # {} /\ T \subseteq Nat
  <2>1. PICK j \in S : TRUE
    OBVIOUS
  <2>2. n - j \in T
    BY <1>1, <2>1
  <2>3. T \subseteq Nat
    OBVIOUS
  <2> HIDE DEF T
  <2> QED
    BY <2>2, <2>3
<1>3. PICK k \in T : \A l \in T : k <= l
  <2> HIDE DEF T
  <2> QED
    BY <1>2, NaturalsHaveLeast
<1>4. n - k \in S /\ \A j \in S : j <= n - k
  BY <1>1, <1>3
<1> QED
  BY <1>4 DEF Max

-----------------------------------------------------------------------------
(* Recursion over the naturals, for a step that is a function.             *)

(* g is what m steps make of r0, one after the other.                      *)
IsRun(g, R, r0, step, m) ==
  g \in [0..m -> R] /\ g[0] = r0 /\ \A n \in 1..m : g[n] = step[g[n - 1]]

LEMMA RecursionExists ==
  ASSUME NEW R, NEW r0 \in R, NEW step \in [R -> R], NEW m \in Nat
  PROVE  \E g : IsRun(g, R, r0, step, m)
<1> DEFINE Good(k) == \E g : IsRun(g, R, r0, step, k)
           Bad == {k \in Nat : ~Good(k)}
<1>1. Good(0)
  <2> DEFINE g == [k \in 0..0 |-> r0]
  <2>1. g \in [0..0 -> R] /\ g[0] = r0 /\ \A n \in 1..0 : g[n] = step[g[n - 1]]
    OBVIOUS
  <2> QED
    BY <2>1 DEF IsRun
<1>2. ASSUME NEW k \in Nat, Good(k) PROVE Good(k + 1)
  <2>1. PICK g \in [0..k -> R] : g[0] = r0 /\ \A n \in 1..k : g[n] = step[g[n - 1]]
    BY <1>2 DEF IsRun
  <2> DEFINE h == [n \in 0..(k + 1) |-> IF n = k + 1 THEN step[g[k]] ELSE g[n]]
  <2>2. h \in [0..(k + 1) -> R] /\ h[0] = r0
    BY <2>1
  <2>3. \A n \in 1..(k + 1) : h[n] = step[h[n - 1]]
    BY <2>1
  <2> QED
    BY <2>2, <2>3 DEF IsRun
<1>3. Bad = {}
  <2> SUFFICES ASSUME Bad # {} PROVE FALSE
    OBVIOUS
  <2>1. Bad \subseteq Nat
    OBVIOUS
  <2>2. PICK k \in Bad : \A j \in Bad : k <= j
    <3> HIDE DEF Bad
    <3> QED
      BY <2>1, NaturalsHaveLeast
  <2> HIDE DEF Good
  <2>3. k \in Nat /\ ~Good(k) /\ k # 0
    BY <1>1, <2>2
  <2>4. k - 1 \in Nat /\ (k - 1) + 1 = k /\ ~(k <= k - 1)
    BY <2>3
  <2>5. Good(k - 1)
    BY <2>2, <2>4
  <2> QED
    BY <1>2, <2>3, <2>4, <2>5
<1> HIDE DEF Good
<1>4. Good(m)
  BY <1>3
<1> QED
  BY <1>4 DEF Good

(* What holds at first and after every step holds always.                  *)
LEMMA RecursionKeeps ==
  ASSUME NEW R, NEW m \in Nat, NEW g, g[0] \in R,
         \A n \in 1..m : g[n - 1] \in R => g[n] \in R
  PROVE  \A n \in 0..m : g[n] \in R
<1> DEFINE Bad == {n \in 0..m : g[n] \notin R}
<1> SUFFICES ASSUME Bad # {} PROVE FALSE
  OBVIOUS
<1>1. Bad \subseteq Nat
  OBVIOUS
<1>2. PICK k \in Bad : \A j \in Bad : k <= j
  <2> HIDE DEF Bad
  <2> QED
    BY <1>1, NaturalsHaveLeast
<1>3. k \in 1..m /\ k - 1 \in 0..m /\ ~(k <= k - 1)
  BY <1>2
<1> QED
  BY <1>2, <1>3

-----------------------------------------------------------------------------
(* Bytes of a packet.                                                      *)

LEMMA BytesAreNumbers == \A b \in Byte : b \in Nat /\ b <= 255
BY DEF Byte

LEMMA AtType ==
  ASSUME NEW p \in Seq(Byte), NEW i \in Nat, i < Len(p) PROVE At(p, i) \in Byte
BY DEF At

LEMMA TextType ==
  ASSUME NEW p \in Seq(Byte), NEW i \in Nat \ {0}, NEW j \in Int, j <= Len(p)
  PROVE  SubSeq(p, i, j) \in Seq(Byte)
OBVIOUS

LEMMA SliceType ==
  ASSUME NEW p \in Seq(Byte), NEW i \in Nat, NEW j \in Nat, j <= Len(p),
         NEW n \in Nat, i + n = j
  PROVE  /\ Slice(p, i, j) \in Seq(Byte)
         /\ Slice(p, i, j) \in [1..n -> Byte]
<1>1. \A k \in (i + 1)..j : p[k] \in Byte
  OBVIOUS
<1>2. /\ SubSeq(p, i + 1, j) \in Seq(Byte)
      /\ Len(SubSeq(p, i + 1, j)) = n
  OBVIOUS
<1>3. SubSeq(p, i + 1, j) \in [1..n -> Byte]
  BY <1>2, LenProperties
<1> QED
  BY <1>2, <1>3 DEF Slice

-----------------------------------------------------------------------------
(* Battery.                                                                *)

LEMMA BatteryType ==
  ASSUME NEW p \in Seq(Byte), NEW count \in 0..3, Len(p) >= 7 + 5 * count
  PROVE  BatteryOf(p, count) \in ParsedPackets
<1> DEFINE comps == [i \in 1..count |-> ComponentFromByte(At(p, Offset(i)))]
           Latest(c) == LET named == {i \in 1..count : comps[i] = c}
                        IN  IF named = {} THEN DefaultReading ELSE Reads(p, Max(named))
<1>1. CASE \E i \in 1..count : BadSpacer(p, i) \/ comps[i] = "Unknown"
  BY <1>1 DEF BatteryOf, ParsedPackets, ParseError
<1>2. CASE ~\E i \in 1..count : BadSpacer(p, i) \/ comps[i] = "Unknown"
  <2>1. \A c : Latest(c) \in BatteryState
    <3> TAKE c
    <3> DEFINE named == {i \in 1..count : comps[i] = c}
    <3>1. DefaultReading \in BatteryState
      BY DEF DefaultReading, BatteryState, Byte
    <3>2. \A i \in 1..count : Reads(p, i) \in BatteryState
      <4> TAKE i \in 1..count
      <4>1. Offset(i) + 2 \in Nat /\ Offset(i) + 2 < Len(p)
        BY DEF Offset
      <4>2. At(p, Offset(i) + 2) \in Byte
        BY <4>1, AtType
      <4> QED
        BY <4>2 DEF Reads, BatteryState, StatusFromByte
    <3>3. named # {} => Max(named) \in 1..count
      <4>1. named \subseteq 1..count
        OBVIOUS
      <4>2. count \in Nat
        OBVIOUS
      <4> HIDE DEF named
      <4> QED
        BY <4>1, <4>2, MaxOfPositions
    <3> QED
      BY <3>1, <3>2, <3>3
  <2>2. PrimaryPod(comps) \in {"Left", "Right"}
    <3>1. \A i \in DOMAIN comps : comps[i] \in {"Left", "Right", "Case"}
      BY <1>2 DEF ComponentFromByte
    <3>2. PodsIn(comps) \subseteq Nat /\ PodsIn(comps) \subseteq DOMAIN comps
      BY DEF PodsIn
    <3> HIDE DEF comps
    <3>3. PodsIn(comps) # {} => Min(PodsIn(comps)) \in PodsIn(comps)
      BY <3>2, MinOfNaturals
    <3> QED
      BY <3>1, <3>2, <3>3 DEF PrimaryPod, PodsIn
  <2>3. BatteryOf(p, count) =
          [t |-> "Battery", left |-> Latest("Left"),
           right |-> Latest("Right"), case |-> Latest("Case"),
           primary |-> PrimaryPod(comps)]
    BY <1>2 DEF BatteryOf
  <2> HIDE DEF Latest, comps
  <2> QED
    BY <2>1, <2>2, <2>3 DEF ParsedPackets
<1> QED
  BY <1>1, <1>2

LEMMA ParseBatteryType ==
  ASSUME NEW p \in Seq(Byte) PROVE ParseBattery(p) \in ParsedPackets
<1>1. CASE ParseBattery(p) = ParseError
  BY <1>1 DEF ParsedPackets, ParseError
<1>2. CASE ParseBattery(p) # ParseError
  <2>1. Len(p) >= 7
    BY <1>2 DEF ParseBattery
  <2>2. PICK count \in Nat : count = At(p, 6)
    BY <2>1, AtType, BytesAreNumbers
  <2>3. count <= 3 /\ Len(p) >= 7 + 5 * count
    BY <1>2, <2>2 DEF ParseBattery
  <2>4. ParseBattery(p) = BatteryOf(p, count)
    BY <1>2, <2>2, <2>3 DEF ParseBattery, Reading
  <2> QED
    BY <2>3, <2>4, BatteryType
<1> QED
  BY <1>1, <1>2

-----------------------------------------------------------------------------
(* The other sub-parsers.                                                  *)

LEMMA ParseEarDetectionType ==
  ASSUME NEW p \in Seq(Byte) PROVE ParseEarDetection(p) \in ParsedPackets
<1>1. CASE Len(p) < 8
  BY <1>1 DEF ParseEarDetection, ParsedPackets, ParseError
<1>2. CASE ~(Len(p) < 8)
  BY <1>2 DEF ParseEarDetection, ParsedPackets, Reading
<1> QED
  BY <1>1, <1>2

LEMMA ControlCommandType ==
  ASSUME NEW p \in Seq(Byte), Len(p) >= 11 PROVE ControlCommandOf(p) \in ParsedPackets
<1>1. CASE At(p, 6) \notin ControlCommandIds
  <2>1. ListeningMode \in ControlCommandIds
    BY DEF ListeningMode, ControlCommandIds
  <2>2. ControlCommandOf(p) = Unknown
    BY <1>1, <2>1 DEF ControlCommandOf
  <2> QED
    BY <2>2 DEF ParsedPackets, Unknown
<1>2. CASE At(p, 6) \in ControlCommandIds /\ At(p, 6) = ListeningMode
  <2>1. CASE ModeFromByte(At(p, 7)) = None
    BY <1>2, <2>1 DEF ControlCommandOf, ParsedPackets, Unknown
  <2>2. CASE ModeFromByte(At(p, 7)) # None
    <3> DEFINE mode == CHOOSE m \in ModeFromByte(At(p, 7)) : TRUE
    <3>1. mode \in NoiseControlModes
      BY <2>2 DEF ModeFromByte, None
    <3>2. ControlCommandOf(p) = [t |-> "NoiseControl", mode |-> mode]
      BY <1>2, <2>2 DEF ControlCommandOf
    <3> HIDE DEF mode
    <3> QED
      BY <3>1, <3>2 DEF ParsedPackets
  <2> QED
    BY <2>1, <2>2
<1>3. CASE At(p, 6) \in ControlCommandIds /\ At(p, 6) # ListeningMode
  <2> DEFINE data == IF ParseData(p) = None
                       THEN Zeros(4) ELSE CHOOSE d \in ParseData(p) : TRUE
  <2>1. Slice(p, 7, 11) \in [1..4 -> Byte]
    <3>1. 7 + 4 = 11 /\ 11 <= Len(p) /\ 4 \in Nat /\ 7 \in Nat /\ 11 \in Nat
      OBVIOUS
    <3> QED
      BY <3>1, SliceType
  <2>2. data \in [1..4 -> Byte]
    <3>1. Zeros(4) \in [1..4 -> Byte]
      BY DEF Zeros, Byte
    <3>2. ParseData(p) \subseteq {Slice(p, 7, 11)}
      BY DEF ParseData, None, Some
    <3> QED
      BY <2>1, <3>1, <3>2 DEF None
  <2>3. ControlCommandOf(p) = [t |-> "ControlCommand", id |-> At(p, 6), data |-> data]
    BY <1>3 DEF ControlCommandOf
  <2> HIDE DEF data
  <2> QED
    BY <1>3, <2>2, <2>3 DEF ParsedPackets
<1> QED
  BY <1>1, <1>2, <1>3

LEMMA ParseControlCommandType ==
  ASSUME NEW p \in Seq(Byte) PROVE ParseControlCommand(p) \in ParsedPackets
<1>1. CASE Len(p) < 11
  BY <1>1 DEF ParseControlCommand, ParsedPackets, ParseError
<1>2. CASE ~(Len(p) < 11)
  <2>1. Len(p) >= 11
    BY <1>2
  <2> QED
    BY <1>2, <2>1, ControlCommandType DEF ParseControlCommand, Reading
<1> QED
  BY <1>1, <1>2

LEMMA ParseConversationalAwarenessType ==
  ASSUME NEW p \in Seq(Byte) PROVE ParseConversationalAwareness(p) \in ParsedPackets
<1>1. CASE Len(p) >= 10 /\ StartsWith(p, CA_DATA_PREFIX)
  <2>1. At(p, 9) \in Byte /\ ~(Len(p) < 10)
    BY <1>1, AtType
  <2> QED
    BY <1>1, <2>1 DEF ParseConversationalAwareness, ParsedPackets, Reading
<1>2. CASE ~(Len(p) >= 10 /\ StartsWith(p, CA_DATA_PREFIX))
  BY <1>2 DEF ParseConversationalAwareness, ParsedPackets, Unknown
<1> QED
  BY <1>1, <1>2

(* A text ends behind its beginning, and within data or just behind it.    *)
LEMMA TextEndType ==
  ASSUME NEW data \in Seq(Byte), NEW i \in Nat \ {0}
  PROVE  /\ TextEnd(data, i) \in 1..(Len(data) + 1)
         /\ i <= TextEnd(data, i) \/ TextEnd(data, i) = Len(data) + 1
<1> DEFINE nuls == {j \in i..Len(data) : data[j] = 0}
<1>1. Len(data) \in Nat /\ nuls \subseteq i..Len(data) /\ nuls \subseteq Nat
  OBVIOUS
<1>2. TextEnd(data, i) = IF nuls = {} THEN Len(data) + 1 ELSE Min(nuls)
  BY DEF TextEnd
<1> HIDE DEF nuls
<1>3. CASE nuls # {}
  <2>1. Min(nuls) \in i..Len(data)
    BY <1>1, <1>3, MinOfNaturals
  <2> QED
    BY <1>1, <1>2, <1>3, <2>1
<1>4. CASE nuls = {}
  BY <1>1, <1>2, <1>4
<1> QED
  BY <1>3, <1>4

LEMMA TextsInType ==
  ASSUME NEW data \in Seq(Byte)
  PROVE  /\ TextsIn(data)[1] \in Seq(Byte)
         /\ TextsIn(data)[2] \in Seq(Byte)
         /\ TextsIn(data)[3] \in Seq(Byte)
<1> DEFINE first == TextEnd(data, 1)
           second == TextEnd(data, first + 1)
           third == TextEnd(data, second + 1)
<1>1. Len(data) \in Nat /\ first \in 1..(Len(data) + 1)
  BY TextEndType
<1>2. first + 1 \in Nat \ {0}
  BY <1>1
<1>3. second \in 1..(Len(data) + 1)
  BY <1>2, TextEndType
<1>4. second + 1 \in Nat \ {0}
  BY <1>1, <1>3
<1>5. third \in 1..(Len(data) + 1)
  BY <1>4, TextEndType
<1>6. TextsIn(data) =
        <<SubSeq(data, 1, first - 1), SubSeq(data, first + 1, second - 1),
          SubSeq(data, second + 1, third - 1)>>
  BY DEF TextsIn
<1> HIDE DEF first, second, third
<1>7. /\ first - 1 \in Int /\ first - 1 <= Len(data)
      /\ second - 1 \in Int /\ second - 1 <= Len(data)
      /\ third - 1 \in Int /\ third - 1 <= Len(data)
  BY <1>1, <1>3, <1>5
<1>8. /\ SubSeq(data, 1, first - 1) \in Seq(Byte)
      /\ SubSeq(data, first + 1, second - 1) \in Seq(Byte)
      /\ SubSeq(data, second + 1, third - 1) \in Seq(Byte)
  BY <1>2, <1>4, <1>7, TextType
<1> QED
  BY <1>6, <1>8

LEMMA ParseMetadataType ==
  ASSUME NEW p \in Seq(Byte) PROVE ParseMetadata(p) \in ParsedPackets
<1>1. Len(METADATA_PREFIX) = 5
  BY DEF METADATA_PREFIX, HEADER
<1>2. CASE Len(p) < 14
  BY <1>1, <1>2 DEF ParseMetadata, ParsedPackets, ParseError
<1>3. CASE ~(Len(p) < 14)
  <2> DEFINE texts == TextsIn(Slice(p, 11, Len(p)))
  <2>1. Slice(p, 11, Len(p)) \in Seq(Byte)
    BY <1>3, SliceType
  <2>2. texts[1] \in Seq(Byte) /\ texts[2] \in Seq(Byte) /\ texts[3] \in Seq(Byte)
    BY <2>1, TextsInType
  <2>3. ParseMetadata(p) = [t |-> "Metadata", name |-> texts[1],
                            modelNumber |-> texts[2], manufacturer |-> texts[3]]
    BY <1>1, <1>3 DEF ParseMetadata
  <2> HIDE DEF texts
  <2> QED
    BY <2>2, <2>3 DEF ParsedPackets
<1> QED
  BY <1>2, <1>3

LEMMA ParseHeadTrackingType ==
  ASSUME NEW p PROVE ParseHeadTracking(p) \in ParsedPackets
BY DEF ParseHeadTracking, ParsedPackets, ParseError

LEMMA ParseMagicCloudKeysType ==
  ASSUME NEW p \in Seq(Byte) PROVE ParseMagicCloudKeys(p) \in ParsedPackets
<1>1. CASE Len(p) < 47 \/ ~IsTlv(p, 7, 1) \/ ~IsTlv(p, 27, 4)
  BY <1>1 DEF ParseMagicCloudKeys, ParsedPackets, ParseError
<1>2. CASE ~(Len(p) < 47 \/ ~IsTlv(p, 7, 1) \/ ~IsTlv(p, 27, 4))
  <2>1. /\ 11 + 16 = 27 /\ 31 + 16 = 47 /\ 27 <= Len(p) /\ 47 <= Len(p)
        /\ 11 \in Nat /\ 27 \in Nat /\ 31 \in Nat /\ 47 \in Nat /\ 16 \in Nat
    BY <1>2
  <2>2. Slice(p, 11, 27) \in [1..16 -> Byte] /\ Slice(p, 31, 47) \in [1..16 -> Byte]
    BY <2>1, SliceType
  <2>3. ParseMagicCloudKeys(p) = [t |-> "MagicCloudKeys", irk |-> Slice(p, 11, 27),
                                  encKey |-> Slice(p, 31, 47)]
    BY <1>2 DEF ParseMagicCloudKeys, Reading
  <2> QED
    BY <2>2, <2>3 DEF ParsedPackets
<1> QED
  BY <1>1, <1>2

-----------------------------------------------------------------------------
(* Proximity keys: the loop over the entries.                              *)

KeyRecords == [type: {1, 4}, data: Seq(Byte)]
Progress == [offset: Nat, keys: Seq(KeyRecords)]
AtFirst == [offset |-> 7, keys |-> <<>>]

(* A turn reads no further than the packet goes.                           *)
LEMMA NextKeyType ==
  ASSUME NEW p \in Seq(Byte), NEW r \in Progress PROVE NextKey(p, r) \in Progress
<1>1. CASE NextKey(p, r) = r
  BY <1>1
<1>2. CASE NextKey(p, r) # r
  <2>1. r.offset \in Nat /\ r.keys \in Seq(KeyRecords) /\ Len(p) \in Nat
    BY DEF Progress
  <2>2. r.offset + 4 <= Len(p)
    BY <1>2, <2>1 DEF NextKey
  <2>3. r.offset + 2 \in Nat /\ r.offset + 2 < Len(p)
    BY <2>1, <2>2
  <2>4. PICK n \in Nat : n = At(p, r.offset + 2)
    BY <2>3, AtType, BytesAreNumbers
  <2> DEFINE end == r.offset + 4 + n
             key == [type |-> At(p, r.offset), data |-> Slice(p, r.offset + 4, end)]
  <2>5. end <= Len(p)
    BY <1>2, <2>1, <2>2, <2>4 DEF NextKey
  <2>6. NextKey(p, r) =
          [offset |-> end,
           keys |-> IF key.type \in {1, 4} THEN Append(r.keys, key) ELSE r.keys]
    BY <1>2, <2>4 DEF NextKey
  <2>7. r.offset + 4 \in Nat /\ end \in Nat /\ (r.offset + 4) + n = end
    BY <2>1
  <2>8. Slice(p, r.offset + 4, end) \in Seq(Byte)
    <3> HIDE DEF end
    <3> QED
      BY <2>5, <2>7, SliceType
  <2>9. key.type \in {1, 4} => key \in KeyRecords
    BY <2>8 DEF KeyRecords
  <2> HIDE DEF key, end
  <2> QED
    BY <2>1, <2>6, <2>7, <2>9 DEF Progress
<1> QED
  BY <1>1, <1>2

(* The loop is well defined, and what it has read is so many keys.         *)
LEMMA KeysReadIsLoop ==
  ASSUME NEW p \in Seq(Byte)
  PROVE  KeysRead(p) = [n \in Byte |-> IF n = 0 THEN AtFirst
                                       ELSE NextKey(p, KeysRead(p)[n - 1])]
<1> DEFINE Loop(h) == [n \in Byte |-> IF n = 0 THEN AtFirst ELSE NextKey(p, h[n - 1])]
           step == [r \in Progress |-> NextKey(p, r)]
<1>1. step \in [Progress -> Progress]
  BY NextKeyType
<1>2. AtFirst \in Progress
  BY DEF AtFirst, Progress
<1> DEFINE m == 255
<1>m. m \in Nat /\ Byte = 0..m
  BY DEF Byte
<1> HIDE DEF m, step
<1>3. PICK h : IsRun(h, Progress, AtFirst, step, m)
  BY <1>1, <1>2, <1>m, RecursionExists
<1>4. h = Loop(h)
  <2>a. /\ h \in [0..m -> Progress] /\ h[0] = AtFirst
        /\ \A n \in 1..m : h[n] = step[h[n - 1]]
    BY <1>3 DEF IsRun
  <2>1. \A n \in 0..m : n # 0 => n \in 1..m /\ h[n - 1] \in Progress
    BY <1>m, <2>a
  <2>2. \A n \in 0..m : h[n] = IF n = 0 THEN AtFirst ELSE NextKey(p, h[n - 1])
    BY <2>a, <2>1 DEF step
  <2> QED
    BY <1>m, <2>a, <2>2
<1> DEFINE g == CHOOSE f : f = Loop(f)
<1>5. KeysRead(p) = g
  BY DEF KeysRead, AtFirst
<1>6. g = Loop(g)
  BY <1>4
<1> HIDE DEF g
<1> QED
  BY <1>5, <1>6

LEMMA KeysReadType ==
  ASSUME NEW p \in Seq(Byte), NEW n \in Byte PROVE KeysRead(p)[n] \in Progress
<1> DEFINE g == KeysRead(p)
<1>1. g = [k \in Byte |-> IF k = 0 THEN AtFirst ELSE NextKey(p, g[k - 1])]
  BY KeysReadIsLoop
<1> HIDE DEF g
<1>2. g[0] = AtFirst /\ \A k \in 1..255 : g[k] = NextKey(p, g[k - 1])
  BY <1>1 DEF Byte
<1>3. g[0] \in Progress
  BY <1>2 DEF AtFirst, Progress
<1>4. \A k \in 1..255 : g[k - 1] \in Progress => g[k] \in Progress
  BY <1>2, NextKeyType
<1>5. \A k \in 0..255 : g[k] \in Progress
  <2>1. 255 \in Nat
    OBVIOUS
  <2> QED
    BY <1>3, <1>4, <2>1, RecursionKeeps
<1> QED
  BY <1>5 DEF Byte, g

LEMMA TurnsType ==
  ASSUME NEW p \in Seq(Byte), Len(p) >= 7 PROVE Turns(p) \in Byte
<1> DEFINE S == {At(p, 6), Len(p) \div 4}
<1>1. At(p, 6) \in Byte
  BY AtType
<1>2. Len(p) \div 4 \in Nat
  OBVIOUS
<1>3. S \subseteq Nat /\ S # {}
  BY <1>1, <1>2, BytesAreNumbers
<1> HIDE DEF S
<1>4. Min(S) \in S /\ \A j \in S : Min(S) <= j
  BY <1>3, MinOfNaturals
<1>5. Min(S) \in Nat /\ Min(S) <= At(p, 6)
  BY <1>3, <1>4 DEF S
<1>6. \A b \in Byte : \A k \in Nat : k <= b => k \in Byte
  BY DEF Byte
<1> QED
  BY <1>1, <1>5, <1>6 DEF Turns, S

LEMMA ParseProximityKeysType ==
  ASSUME NEW p \in Seq(Byte) PROVE ParseProximityKeys(p) \in ParsedPackets
<1>1. CASE Len(p) < 7
  BY <1>1 DEF ParseProximityKeys, ParsedPackets, ParseError
<1>2. CASE ~(Len(p) < 7)
  <2>1. Len(p) >= 7
    BY <1>2
  <2>2. KeysRead(p)[Turns(p)].keys \in Seq(KeyRecords)
    BY <2>1, TurnsType, KeysReadType DEF Progress
  <2> QED
    BY <1>2, <2>2 DEF ParseProximityKeys, ParsedPackets, KeyRecords
<1> QED
  BY <1>1, <1>2

-----------------------------------------------------------------------------
(* Whatever bytes arrive, of whatever number, parse returns an error or a  *)
(* packet of one of its types: no sub-parser reads behind the end (Panic   *)
(* is none of these).                                                      *)
THEOREM ParseIsTotal == ASSUME NEW p \in Seq(Byte) PROVE Parse(p) \in ParsedPackets
<1>1. DispatchOnOpcode(p) \in ParsedPackets
  <2>1. Unknown \in ParsedPackets
    BY DEF Unknown, ParsedPackets
  <2> QED
    BY <2>1, ParseBatteryType, ParseEarDetectionType, ParseControlCommandType,
       ParseHeadTrackingType, ParseMetadataType, ParseProximityKeysType,
       ParseConversationalAwarenessType
    DEF DispatchOnOpcode
<1>2. /\ ParseError \in ParsedPackets
      /\ [t |-> "HandshakeAck"] \in ParsedPackets
      /\ [t |-> "FeaturesAck"] \in ParsedPackets
  BY DEF ParseError, ParsedPackets
<1> QED
  BY <1>1, <1>2, ParseMagicCloudKeysType DEF Parse
=============================================================================
