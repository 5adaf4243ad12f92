----------------------------- MODULE AapParser -----------------------------
(***************************************************************************)
(* What an incoming AAP packet is taken for: parse and its sub-parsers     *)
(* (librepods-core/src/protocol/parser.rs) and parse_battery               *)
(* (librepods-core/src/device/battery.rs).                                 *)
(*                                                                         *)
(* The errors are one value, for no caller tells them apart.  A text is    *)
(* the sequence of its bytes: from_utf8_lossy changes none that is ASCII.  *)
(* Indexing a packet behind its end aborts the program; it is a value of   *)
(* its own here, so that it can be seen never to happen.                   *)
(***************************************************************************)
EXTENDS AapPackets

ParseError == [t |-> "ParseError"]
Unknown == [t |-> "Unknown"]
Panic == [t |-> "Panic"]

(* r, computed from as many as n bytes of p.                               *)
Reading(p, n, r) == IF Len(p) < n THEN Panic ELSE r

-----------------------------------------------------------------------------
(* Battery.                                                                *)

Components == {"Left", "Right", "Case"}
ComponentFromByte(b) ==
  CASE b = 2 -> "Right" [] b = 4 -> "Left" [] b = 8 -> "Case" [] OTHER -> "Unknown"
StatusFromByte(b) ==
  CASE b = 1 -> "Charging" [] b = 2 -> "Discharging" [] OTHER -> "Disconnected"

DefaultReading == [level |-> 0, status |-> "Disconnected"]

PodsIn(comps) == {i \in DOMAIN comps : comps[i] # "Case"}

(* Mistake: the last pod listed is the primary one. *)
LastPod(comps) ==
  IF PodsIn(comps) = {} THEN "Left" ELSE comps[Max(PodsIn(comps))]

(* The first pod listed is the primary one.                                *)
PrimaryPod(comps) ==
  IF PodsIn(comps) = {} THEN "Left" ELSE comps[Min(PodsIn(comps))]

(* Entry i of a battery packet: component, 01, level, status, 01.          *)
Offset(i) == 7 + 5 * (i - 1)
Reads(p, i) == [level |-> At(p, Offset(i) + 2),
                status |-> StatusFromByte(At(p, Offset(i) + 3))]
BadSpacer(p, i) == At(p, Offset(i) + 1) # 1 \/ At(p, Offset(i) + 4) # 1

(* A component that no entry names keeps its default, and of two entries   *)
(* that name one the later counts.                                         *)
BatteryOf(p, count) ==
  LET comps == [i \in 1..count |-> ComponentFromByte(At(p, Offset(i)))]
      Latest(c) == LET named == {i \in 1..count : comps[i] = c}
                   IN  IF named = {} THEN DefaultReading ELSE Reads(p, Max(named))
  IN  IF \E i \in 1..count : BadSpacer(p, i) \/ comps[i] = "Unknown"
        THEN ParseError
        ELSE [t |-> "Battery", left |-> Latest("Left"),
              right |-> Latest("Right"), case |-> Latest("Case"),
              primary |-> PrimaryPod(comps)]

(* Mistake: the count is believed. *)
ParseBatteryUnmeasured(p) ==
  IF Len(p) < 7 \/ ~StartsWith(p, BATTERY_PREFIX) \/ At(p, 6) > 3
    THEN ParseError
    ELSE Reading(p, 7 + 5 * At(p, 6), BatteryOf(p, At(p, 6)))

ParseBattery(p) ==
  IF \/ Len(p) < 7 \/ ~StartsWith(p, BATTERY_PREFIX)
     \/ At(p, 6) > 3 \/ Len(p) < 7 + 5 * At(p, 6)
    THEN ParseError
    ELSE Reading(p, 7 + 5 * At(p, 6), BatteryOf(p, At(p, 6)))

-----------------------------------------------------------------------------
(* The other sub-parsers.                                                  *)

ParseEarDetection(p) ==
  IF Len(p) < 8
    THEN ParseError
    ELSE Reading(p, 8, [t |-> "EarDetection",
                        primary |-> At(p, 6) = 0, secondary |-> At(p, 7) = 0])

(* ParseData also looks at byte 5, which the dispatch on the opcode does   *)
(* not: a packet with another byte there has all zeros for data.           *)
ControlCommandOf(p) ==
  CASE At(p, 6) \notin ControlCommandIds -> Unknown
    [] At(p, 6) = ListeningMode ->
         IF ModeFromByte(At(p, 7)) = None
           THEN Unknown
           ELSE [t |-> "NoiseControl",
                 mode |-> CHOOSE m \in ModeFromByte(At(p, 7)) : TRUE]
    [] OTHER ->
         [t |-> "ControlCommand", id |-> At(p, 6),
          data |-> IF ParseData(p) = None
                     THEN Zeros(4) ELSE CHOOSE d \in ParseData(p) : TRUE]

ParseControlCommand(p) ==
  IF Len(p) < 11 THEN ParseError ELSE Reading(p, 11, ControlCommandOf(p))

ParseConversationalAwareness(p) ==
  IF Len(p) >= 10 /\ StartsWith(p, CA_DATA_PREFIX)
    THEN Reading(p, 10, [t |-> "ConversationalAwareness", status |-> At(p, 9)])
    ELSE Unknown

(* Where the text that begins at position i of data ends: at a NUL or at   *)
(* the end of data.                                                        *)
TextEnd(data, i) ==
  LET nuls == {j \in i..Len(data) : data[j] = 0}
  IN  IF nuls = {} THEN Len(data) + 1 ELSE Min(nuls)

(* The first three texts in data, those that are not there being empty.    *)
TextsIn(data) ==
  LET first == TextEnd(data, 1)
      second == TextEnd(data, first + 1)
      third == TextEnd(data, second + 1)
  IN  <<SubSeq(data, 1, first - 1), SubSeq(data, first + 1, second - 1),
        SubSeq(data, second + 1, third - 1)>>

ParseMetadata(p) ==
  IF Len(p) < Len(METADATA_PREFIX) + 6 + 3
    THEN ParseError
    ELSE LET texts == TextsIn(Slice(p, Len(METADATA_PREFIX) + 6, Len(p)))
         IN  [t |-> "Metadata", name |-> texts[1],
              modelNumber |-> texts[2], manufacturer |-> texts[3]]

ParseHeadTracking(p) ==
  IF Len(p) < 70 THEN ParseError ELSE [t |-> "HeadTracking"]

(* Mistake: a key that does not fit is taken as far as it goes. *)
NextKeyTakesRest(p, r) ==
  IF r.offset + 4 > Len(p)
    THEN r
    ELSE LET end == Min({r.offset + 4 + At(p, r.offset + 2), Len(p)})
             key == [type |-> At(p, r.offset), data |-> Slice(p, r.offset + 4, end)]
         IN  [offset |-> end,
              keys |-> IF key.type \in {1, 4} THEN Append(r.keys, key) ELSE r.keys]

(* One turn of the loop over the keys: type, length, length, reserved, and *)
(* the key.  Only the second length byte is used.  At an entry that does   *)
(* not fit the loop breaks: further turns would leave r alone as well.     *)
NextKey(p, r) ==
  IF r.offset + 4 > Len(p) \/ r.offset + 4 + At(p, r.offset + 2) > Len(p)
    THEN r
    ELSE LET end == r.offset + 4 + At(p, r.offset + 2)
             key == [type |-> At(p, r.offset), data |-> Slice(p, r.offset + 4, end)]
         IN  [offset |-> end,
              keys |-> IF key.type \in {1, 4} THEN Append(r.keys, key) ELSE r.keys]

(* An entry has four bytes at least, so that a larger count makes no       *)
(* difference.                                                             *)
Turns(p) == Min({At(p, 6), Len(p) \div 4})

(* What the loop has read, by the number of its turns.                     *)
KeysRead(p) ==
  LET after[n \in Byte] ==
        IF n = 0 THEN [offset |-> 7, keys |-> <<>>] ELSE NextKey(p, after[n - 1])
  IN  after

ParseProximityKeys(p) ==
  IF Len(p) < 7
    THEN ParseError
    ELSE [t |-> "ProximityKeys", keys |-> KeysRead(p)[Turns(p)].keys]

(* A TLV at offset i: type, two length bytes, reserved, 16 bytes.          *)
IsTlv(p, i, type) == At(p, i) = type /\ 256 * At(p, i + 1) + At(p, i + 2) = 16

ParseMagicCloudKeys(p) ==
  IF Len(p) < 47 \/ ~IsTlv(p, 7, 1) \/ ~IsTlv(p, 27, 4)
    THEN ParseError
    ELSE Reading(p, 47, [t |-> "MagicCloudKeys", irk |-> Slice(p, 11, 27),
                         encKey |-> Slice(p, 31, 47)])

-----------------------------------------------------------------------------
(* parse.                                                                  *)

DispatchOnOpcode(p) ==
  CASE At(p, 4) = 4 -> ParseBattery(p)
    [] At(p, 4) = 6 -> ParseEarDetection(p)
    [] At(p, 4) = 9 -> ParseControlCommand(p)
    [] At(p, 4) = 23 -> ParseHeadTracking(p)             \* 17
    [] At(p, 4) = 29 -> ParseMetadata(p)                 \* 1D
    [] At(p, 4) = 49 -> ParseProximityKeys(p)            \* 31
    [] At(p, 4) = 75 -> ParseConversationalAwareness(p)  \* 4B
    [] OTHER -> Unknown

Parse(p) ==
  CASE Len(p) < 4 -> ParseError
    [] StartsWith(p, HANDSHAKE_ACK_PREFIX) -> [t |-> "HandshakeAck"]
    [] StartsWith(p, FEATURES_ACK_PREFIX) -> [t |-> "FeaturesAck"]
    [] StartsWith(p, MAGIC_CLOUD_KEYS_HEADER) -> ParseMagicCloudKeys(p)
    [] OTHER -> IF ~StartsWith(p, HEADER) \/ Len(p) < 6
                  THEN ParseError ELSE DispatchOnOpcode(p)

BatteryState == [level: Byte, status: {"Charging", "Discharging", "Disconnected"}]

ParsedPackets ==
  [t: {"Battery"}, left: BatteryState, right: BatteryState, case: BatteryState,
   primary: {"Left", "Right"}]
  \union [t: {"EarDetection"}, primary: BOOLEAN, secondary: BOOLEAN]
  \union [t: {"NoiseControl"}, mode: NoiseControlModes]
  \union [t: {"ConversationalAwareness"}, status: Byte]
  \union [t: {"ControlCommand"}, id: ControlCommandIds \ {ListeningMode},
          data: [1..4 -> Byte]]
  \union [t: {"Metadata"}, name: Seq(Byte), modelNumber: Seq(Byte),
          manufacturer: Seq(Byte)]
  \union [t: {"ProximityKeys"}, keys: Seq([type: {1, 4}, data: Seq(Byte)])]
  \union [t: {"MagicCloudKeys"}, irk: [1..16 -> Byte], encKey: [1..16 -> Byte]]
  \union [t: {"HeadTracking", "HandshakeAck", "FeaturesAck", "Unknown",
              "ParseError"}]
=============================================================================
