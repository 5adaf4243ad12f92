-------------------------------- MODULE Wire --------------------------------
(***************************************************************************)
(* A packet on its way from whoever composes it to whoever reads it.       *)
(*                                                                         *)
(* The AirPods compose theirs field by field, after the layouts that the   *)
(* comments of parser.rs, battery.rs and packets.rs state; the daemon's    *)
(* library composes its own with the builders.  `meant' is what the sender *)
(* wants to say; it is kept up to date beside the packet, never read from  *)
(* it.  On the way the packet may lose its end, as it does when a read is  *)
(* shorter than the packet, or one of its bytes may be another.            *)
(***************************************************************************)
EXTENDS AapParser, CrossDevice

CONSTANTS
  Levels,       \* battery levels, noise levels and status bytes that are sent
  Texts,        \* names and the like: sequences of ASCII bytes
  KeyData,      \* keys
  MaxKeys,      \* as many in one response
  OddBytes      \* what a byte may be instead

ASSUME WireAssumption ==
  /\ Levels \subseteq Byte /\ OddBytes \subseteq Byte
  /\ Texts \subseteq Seq(1..127) /\ \A name \in Texts : Len(name) < 256
  /\ KeyData \subseteq Seq(Byte) /\ \A data \in KeyData : Len(data) < 256
  /\ MaxKeys \in Byte

VARIABLES
  packet,  \* the bytes
  meant,   \* what the sender means by them
  fault    \* what happened to them: "none", "cut" or "odd"

vars == <<packet, meant, fault>>

Nothing == [t |-> "Nothing"]

Init ==
  /\ packet = <<>>
  /\ meant = Nothing
  /\ fault = "none"

Says(p, meaning) ==
  /\ meant = Nothing
  /\ packet' = p
  /\ meant' = meaning
  /\ UNCHANGED fault

(* The packet, which counts its entries in byte 6, with one entry more.    *)
WithEntry(entry) == [packet EXCEPT ![7] = @ + 1] \o entry

-----------------------------------------------------------------------------
(* The AirPods.                                                            *)

NoReadings ==
  [t |-> "Battery", left |-> DefaultReading, right |-> DefaultReading,
   case |-> DefaultReading, primary |-> "Left"]

Field == [Left |-> "left", Right |-> "right", Case |-> "case"]
ComponentByte == [Right |-> 2, Left |-> 4, Case |-> 8]
StatusByte == [Charging |-> 1, Discharging |-> 2, Disconnected |-> 4]

BeginBattery == Says(BATTERY_PREFIX \o <<0>>, NoReadings)

Listed(c) ==
  \E i \in 1..packet[7] : packet[Offset(i) + 1] = ComponentByte[c]

(* The AirPods list each component once, their primary pod before the other *)
AddReading(c, level, status) ==
  /\ fault = "none" /\ meant.t = "Battery" /\ ~Listed(c)
  /\ packet' = WithEntry(<<ComponentByte[c], 1, level, StatusByte[status], 1>>)
  /\ LET said == [meant EXCEPT ![Field[c]] = [level |-> level, status |-> status]]
     IN  meant' = IF c = "Case" \/ Listed("Left") \/ Listed("Right")
                    THEN said ELSE [said EXCEPT !.primary = c]
  /\ UNCHANGED fault

BeginKeys ==
  Says(HEADER \o <<49, 0, 0>>, [t |-> "ProximityKeys", keys |-> <<>>])

(* Types 1 and 4 are the Irk and the EncKey, of which there is one each;   *)
(* there may be other types.                                               *)
AddKey(type, data) ==
  /\ fault = "none" /\ meant.t = "ProximityKeys" /\ packet[7] < MaxKeys
  /\ type \notin {meant.keys[i].type : i \in DOMAIN meant.keys}
  /\ packet' = WithEntry(<<type, Len(data) \div 256, Len(data) % 256, 0>> \o data)
  /\ meant' = IF type \in {1, 4}
                THEN [meant EXCEPT !.keys = Append(@, [type |-> type, data |-> data])]
                ELSE meant
  /\ UNCHANGED fault

(* A pod is in an ear, out of it, or in the case.                          *)
ReportEars(primary, secondary) ==
  Says(EAR_DETECTION_PREFIX \o <<primary, secondary>>,
       [t |-> "EarDetection", primary |-> primary = 0, secondary |-> secondary = 0])

ReportMetadata(name, number, maker) ==
  Says(METADATA_PREFIX \o Zeros(6) \o name \o <<0>> \o number \o <<0>> \o maker \o <<0>>,
       [t |-> "Metadata", name |-> name, modelNumber |-> number,
        manufacturer |-> maker])

ReportConversation(status) ==
  Says(CA_DATA_PREFIX \o <<1, status>>,
       [t |-> "ConversationalAwareness", status |-> status])

ReportSensors(tag) ==
  Says(HEADER \o <<23, 0, 0, 0, 16, 0, tag, 0>> \o Zeros(59), [t |-> "HeadTracking"])

Acknowledge ==
  \/ Says(HANDSHAKE_ACK_PREFIX \o <<1, 2>>, [t |-> "HandshakeAck"])
  \/ Says(FEATURES_ACK_PREFIX \o <<1>>, [t |-> "FeaturesAck"])

(* A setting that was changed on the AirPods or on another device.         *)
ReportSetting(id, on) ==
  Says(IF on THEN Enabled(id) ELSE Disabled(id),
       [t |-> "ControlCommand", id |-> id, data |-> <<IF on THEN 1 ELSE 2, 0, 0, 0>>])

AirPods ==
  \/ BeginBattery \/ BeginKeys \/ Acknowledge
  \/ \E c \in Components, level \in Levels, status \in DOMAIN StatusByte :
       AddReading(c, level, status)
  \/ \E type \in {1, 2, 4}, data \in KeyData : AddKey(type, data)
  \/ \E primary, secondary \in 0..2 : ReportEars(primary, secondary)
  \/ \E name, number, maker \in Texts : ReportMetadata(name, number, maker)
  \/ \E status \in Levels : ReportConversation(status)
  \/ \E tag \in {68, 69} : ReportSensors(tag)
  \/ \E id \in {27, 40}, on \in BOOLEAN : ReportSetting(id, on)

-----------------------------------------------------------------------------
(* The library, speaking to the AirPods or, with what the AirPods say of   *)
(* these settings, in their layout.                                        *)

SetMode(mode) ==
  Says(BuildNoiseControl(mode), [t |-> "NoiseControl", mode |-> mode])

SetNoiseLevel(level) ==
  Says(BuildAdaptiveNoiseLevel(level), [t |-> "NoiseLevel", level |-> level])

SetLongPress(modes) ==
  Says(BuildListeningModeConfig(modes), [t |-> "LongPress", modes |-> ToSet(modes)])

Rename(name) == Says(BuildRename(name), [t |-> "Name", name |-> name])

Requests ==
  {HANDSHAKE, SET_SPECIFIC_FEATURES, REQUEST_NOTIFICATIONS, HEAD_TRACKING_START,
   HEAD_TRACKING_STOP, BuildRequestProximityKeys(5)}
Request == \E p \in Requests : Says(p, [t |-> "Request"])

Library ==
  \/ \E mode \in NoiseControlModes : SetMode(mode)
  \/ \E level \in Levels : SetNoiseLevel(level)
  \/ \E modes \in BoundedSeq(NoiseControlModes, 3) : SetLongPress(modes)
  \/ \E name \in Texts : Rename(name)
  \/ Request

-----------------------------------------------------------------------------
(* What happens on the way.                                                *)

Cut ==
  /\ packet # <<>> /\ fault \in {"none", "cut"}
  /\ packet' = Front(packet)
  /\ fault' = "cut"
  /\ UNCHANGED meant

ByteChanges ==
  /\ fault = "none"
  /\ \E i \in DOMAIN packet : \E b \in OddBytes \ {packet[i]} :
       packet' = [packet EXCEPT ![i] = b]
  /\ fault' = "odd"
  /\ UNCHANGED meant

(* The packet has been read: the next one.                                 *)
Read ==
  /\ meant # Nothing
  /\ packet' = <<>> /\ meant' = Nothing /\ fault' = "none"

Next == AirPods \/ Library \/ Cut \/ ByteChanges \/ Read

Spec == Init /\ [][Next]_vars

-----------------------------------------------------------------------------
(* Properties.                                                             *)

(* Whatever bytes arrive, parse returns a packet of one of its types or an *)
(* error: it never indexes behind the end of what it was given.            *)
WireTypeOK ==
  /\ packet \in Seq(Byte)
  /\ fault \in {"none", "cut", "odd"}
  /\ Parse(packet) \in ParsedPackets

(* What a reader makes of a packet.  The AirPods read a name after the     *)
(* layout of packets.rs:115.                                               *)
Understand(p) ==
  LET r == Parse(p)
  IN  CASE r.t = "MagicCloudKeys" ->
             [t |-> "ProximityKeys", keys |-> <<[type |-> 1, data |-> r.irk],
                                               [type |-> 4, data |-> r.encKey]>>]
        [] r.t = "ControlCommand" /\ r.id = ListeningModeConfigs ->
             [t |-> "LongPress", modes |-> ParseListeningModeConfig(r.data[1])]
        [] r.t = "ControlCommand" /\ r.id = AutoAncStrength ->
             [t |-> "NoiseLevel", level |-> r.data[1]]
        [] r = Unknown /\ At(p, 4) = 26 ->
             [t |-> "Name", name |-> Slice(p, 9, 9 + At(p, 7))]
        [] OTHER -> r

(* Two keys that are not a 16-byte Irk and a 16-byte EncKey, in this order:*)
(* the layout of parser.rs:286 allows them, but the header is that of a    *)
(* magic-cloud-keys response, and as such they are refused.                *)
OtherTwoKeys(p, m) ==
  /\ StartsWith(p, MAGIC_CLOUD_KEYS_HEADER)
  /\ \/ [i \in DOMAIN m.keys |-> m.keys[i].type] # <<1, 4>>
     \/ \E i \in DOMAIN m.keys : Len(m.keys[i].data) # 16

Intended(m) ==
  IF m.t = "NoiseLevel" /\ m.level > 100 THEN [m EXCEPT !.level = 100] ELSE m

(* A packet that arrives whole is understood: the reading of each          *)
(* component, the primary pod, each key, each text, the set of modes.      *)
Understood ==
  fault = "none" /\ meant.t \notin {"Nothing", "Request"} /\ ~OtherTwoKeys(packet, meant)
    => Understand(packet) = Intended(meant)

(* r says what m says or less, never something else.                       *)
SaysNoMore(r, m) ==
  \/ r.t \in {"ParseError", "Unknown"} \/ r = m
  \/ r.t = "ProximityKeys" /\ r.t = m.t /\ IsPrefix(r.keys, m.keys)
  \/ /\ r.t = "Metadata" /\ r.t = m.t
     /\ IsPrefix(r.name, m.name)
     /\ IsPrefix(r.modelNumber, m.modelNumber)
     /\ IsPrefix(r.manufacturer, m.manufacturer)

(* A packet whose end is missing is refused or says less, never something  *)
(* else: fewer keys, the beginnings of the texts.                          *)
CutIsNotMistaken == fault = "cut" => SaysNoMore(Parse(packet), meant)

(* There are two ways to look at a control command, parse and the helpers  *)
(* of ControlCommand, and two to look at head tracking, parse and          *)
(* is_head_tracking_data, which the receive loop asks about every packet,  *)
(* before it parses it, to keep sensor data out of its log.  Whatever      *)
(* arrives, what the helpers say of it is what parse says, and the log     *)
(* misses no packet that changes the state; of what the AirPods send it    *)
(* misses all the sensor data that parse accepts.                          *)
AccessorsAgree ==
  LET r == Parse(packet)
  IN  /\ \A id \in ParseId(packet), data \in ParseData(packet) :
           /\ ParseValue(packet) = Some(data[1])
           /\ (data[1] = 1) = (ParseState(packet) = Some(TRUE))
           /\ \/ r.t = "ControlCommand" /\ r.id = id /\ r.data = data
              \/ /\ r.t = "NoiseControl" /\ id = ListeningMode
                 /\ ModeFromByte(data[1]) = {r.mode}
              \/ /\ r = Unknown
                 /\ \/ id \notin ControlCommandIds
                    \/ id = ListeningMode /\ ModeFromByte(data[1]) = None
      /\ IsHeadTrackingData(packet) => r.t \in {"HeadTracking", "ParseError"}
      /\ r.t = "HeadTracking" /\ fault # "odd" => IsHeadTrackingData(packet)

(* Relaying does not change an AAP packet, and neither protocol takes the  *)
(* other's packets, or the daemon's own requests, for something it knows.  *)
ProtocolsApart ==
  /\ HandlePacket(DATA_HEADER \o packet) = [t |-> "RelayedData", payload |-> packet]
  /\ fault = "none" => HandlePacket(packet) = [t |-> "Unknown"]
  /\ fault = "none" /\ meant.t = "Request" =>
       Parse(packet) \in {ParseError, Unknown}
=============================================================================
