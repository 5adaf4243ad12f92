----------------------------- MODULE DeviceState -----------------------------
(***************************************************************************)
(* The daemon's picture of the AirPods: the struct DeviceState             *)
(* (librepods-core/src/device/state.rs), the packets the parser hands out  *)
(* (ParsedPacket, librepods-core/src/protocol/parser.rs) and how one       *)
(* changes the other (apply_to_state, librepods-cli/src/main.rs).          *)
(*                                                                         *)
(* Names, battery readings and keys are values of constant sets: nothing   *)
(* here looks inside them.  A model number is a string, because the model  *)
(* is derived from it.  `adaptive_noise_level' and `bluetooth_address' are *)
(* left out: no packet changes them.                                       *)
(***************************************************************************)
EXTENDS Naturals, Sequences, FiniteSetsExt

CONSTANTS
  Texts, NoText,          \* names, manufacturers, model numbers; the empty one
  Batteries, NoBattery,   \* BatteryInfo values; its default
  Keys, NoKey             \* 16-byte keys; Option::None

ASSUME StateAssumption ==
  /\ NoText \in Texts
  /\ NoBattery \in Batteries
  /\ NoKey \notin Keys

NoiseModes == {"Off", "NoiseCancellation", "Transparency", "Adaptive"}

ModelNumbers ==
  [AirPods1 |-> {"A1523", "A1722"},
   AirPods2 |-> {"A2032", "A2031"},
   AirPods3 |-> {"A2565", "A2564"},
   AirPodsPro |-> {"A2084", "A2083"},
   AirPodsPro2Lightning |-> {"A2931", "A2699", "A2698"},
   AirPodsPro2Usbc |-> {"A3047", "A3048", "A3049"},
   AirPodsMaxLightning |-> {"A2096"},
   AirPodsMaxUsbc |-> {"A3184"},
   AirPods4 |-> {"A3053", "A3050", "A3054"},
   AirPods4Anc |-> {"A3056", "A3055", "A3057"}]

Models == DOMAIN ModelNumbers \union {"Unknown"}

ModelFromNumber(number) ==
  IF \E m \in DOMAIN ModelNumbers : number \in ModelNumbers[m]
    THEN CHOOSE m \in DOMAIN ModelNumbers : number \in ModelNumbers[m]
    ELSE "Unknown"

States ==
  [deviceName: Texts, modelNumber: Texts, manufacturer: Texts, model: Models,
   battery: Batteries, noiseControl: NoiseModes,
   conversationalAwareness: BOOLEAN,
   primaryInEar: BOOLEAN, secondaryInEar: BOOLEAN, oneBudAnc: BOOLEAN,
   irk: Keys \union {NoKey}, encKey: Keys \union {NoKey}]

DefaultState ==
  [deviceName |-> NoText, modelNumber |-> NoText, manufacturer |-> NoText,
   model |-> "Unknown", battery |-> NoBattery, noiseControl |-> "Off",
   conversationalAwareness |-> FALSE,
   primaryInEar |-> FALSE, secondaryInEar |-> FALSE, oneBudAnc |-> FALSE,
   irk |-> NoKey, encKey |-> NoKey]

AnyPodInEar(s) == s.primaryInEar \/ s.secondaryInEar

-----------------------------------------------------------------------------
(* Packets as parse() returns them; "ParseError" is its Err.               *)

(* The control commands that are told apart; "Other" is any other id.      *)
CommandIds == {"ConversationDetectConfig", "OneBudAncMode", "Other"}

(* A TLV of a proximity-keys response; only 16-byte keys are kept.         *)
KeyEntries ==
  [type: {"Irk", "EncKey"}, whole: BOOLEAN, data: Keys]

StatePackets ==
  [t: {"Battery"}, info: Batteries]
  \union [t: {"EarDetection"}, primary: BOOLEAN, secondary: BOOLEAN]
  \union [t: {"NoiseControl"}, mode: NoiseModes]
  \union [t: {"ControlCommand"}, id: CommandIds, on: BOOLEAN]
  \union [t: {"Metadata"}, name: Texts, modelNumber: Texts, manufacturer: Texts]
  \union [t: {"ProximityKeys"}, keys: Seq(KeyEntries)]
  \union [t: {"MagicCloudKeys"}, irk: Keys, encKey: Keys]

(* Logged at most: no field depends on them.                               *)
OtherPackets ==
  [t: {"ConversationalAwareness", "HeadTracking", "HandshakeAck",
       "FeaturesAck", "Unknown", "ParseError"}]

Packets == StatePackets \union OtherPackets

(* Mistake: the type is kept instead of the data. *)
LastType(keys, type, old) ==
  LET whole == {i \in DOMAIN keys : keys[i].type = type /\ keys[i].whole}
  IN  IF whole = {} THEN old ELSE keys[Max(whole)].type

(* The value of the last whole key of a type, if there is one.             *)
LastKey(keys, type, old) ==
  LET whole == {i \in DOMAIN keys : keys[i].type = type /\ keys[i].whole}
  IN  IF whole = {} THEN old ELSE keys[Max(whole)].data

(* Mistake: one-bud ANC taken for conversational awareness. *)
ApplyConfused(s, p) ==
  CASE p.t = "Battery" -> [s EXCEPT !.battery = p.info]
    [] p.t = "NoiseControl" -> [s EXCEPT !.noiseControl = p.mode]
    [] p.t = "ControlCommand" -> [s EXCEPT !.conversationalAwareness = p.on]
    [] OTHER -> s

ApplyToState(s, p) ==
  CASE p.t = "Battery" -> [s EXCEPT !.battery = p.info]
    [] p.t = "EarDetection" ->
         [s EXCEPT !.primaryInEar = p.primary, !.secondaryInEar = p.secondary]
    [] p.t = "NoiseControl" -> [s EXCEPT !.noiseControl = p.mode]
    [] p.t = "ControlCommand" /\ p.id = "ConversationDetectConfig" ->
         [s EXCEPT !.conversationalAwareness = p.on]
    [] p.t = "ControlCommand" /\ p.id = "OneBudAncMode" ->
         [s EXCEPT !.oneBudAnc = p.on]
    [] p.t = "Metadata" ->
         [s EXCEPT !.deviceName = p.name,
                   !.modelNumber = p.modelNumber,
                   !.manufacturer = p.manufacturer,
                   !.model = ModelFromNumber(p.modelNumber)]
    [] p.t = "ProximityKeys" ->
         [s EXCEPT !.irk = LastKey(p.keys, "Irk", @),
                   !.encKey = LastKey(p.keys, "EncKey", @)]
    [] p.t = "MagicCloudKeys" -> [s EXCEPT !.irk = p.irk, !.encKey = p.encKey]
    [] OTHER -> s
=============================================================================
