----------------------------- MODULE AapPackets -----------------------------
(***************************************************************************)
(* AAP packets as the daemon's library builds and inspects them, byte for  *)
(* byte: librepods-core/src/protocol/packets.rs, control_command.rs and    *)
(* device/listening_mode.rs.                                               *)
(***************************************************************************)
EXTENDS Bytes

HEADER == <<4, 0, 4, 0>>
SET_SPECIFIC_FEATURES == HEADER \o <<77, 0, 255>> \o Zeros(7)
REQUEST_NOTIFICATIONS == HEADER \o <<15, 0, 255, 255, 255, 255>>
HANDSHAKE == <<0, 0, 4, 0, 1, 0, 2>> \o Zeros(9)
HEAD_TRACKING_START ==
  HEADER \o <<23, 0, 0, 0, 16, 0, 16, 0, 8, 161, 2, 66, 11, 8, 14, 16, 2, 26,
              5, 1, 64, 156, 0, 0>>
HEAD_TRACKING_STOP ==
  HEADER \o <<23, 0, 0, 0, 16, 0, 17, 0, 8, 126, 16, 2, 66, 11, 8, 78, 16, 2,
              26, 5, 1, 0, 0, 0, 0>>

HANDSHAKE_ACK_PREFIX == <<1, 0, 4, 0>>
FEATURES_ACK_PREFIX == HEADER \o <<43, 0>>          \* 2B 00
BATTERY_PREFIX == HEADER \o <<4, 0>>
EAR_DETECTION_PREFIX == HEADER \o <<6, 0>>
METADATA_PREFIX == HEADER \o <<29>>                 \* 1D
CA_DATA_PREFIX == HEADER \o <<75, 0, 2, 0>>         \* 4B 00 02 00
MAGIC_CLOUD_KEYS_HEADER == HEADER \o <<49, 0, 2>>   \* 31 00 02
CONTROL_COMMAND_HEADER == HEADER \o <<9, 0>>

-----------------------------------------------------------------------------
(* Control commands: header, identifier, four bytes of data.               *)

ControlCommandIds ==
  {1, 5, 13, 26, 27, 28, 30, 31, 44} \union (18..24 \ {19}) \union (35..41)
    \union (46..52)
ListeningMode == 13          \* 0D
ListeningModeConfigs == 26   \* 1A
AutoAncStrength == 46        \* 2E

Create(id, data) == CONTROL_COMMAND_HEADER \o <<id>> \o data
Enabled(id) == Create(id, <<1, 0, 0, 0>>)
Disabled(id) == Create(id, <<2, 0, 0, 0>>)

IsCommand(p, n) == Len(p) >= n /\ StartsWith(p, CONTROL_COMMAND_HEADER)
ParseId(p) == IF IsCommand(p, 7) THEN Some(At(p, 6)) ELSE None

(* Mistake: the identifier taken for the value. *)
ValueIsId(p) == IF IsCommand(p, 8) THEN Some(At(p, 6)) ELSE None

ParseValue(p) == IF IsCommand(p, 8) THEN Some(At(p, 7)) ELSE None
ParseState(p) ==
  CASE ParseValue(p) = Some(1) -> Some(TRUE)
    [] ParseValue(p) = Some(2) -> Some(FALSE)
    [] OTHER -> None
ParseData(p) == IF IsCommand(p, 11) THEN Some(Slice(p, 7, 11)) ELSE None

-----------------------------------------------------------------------------
(* Noise control and the long-press cycle.                                 *)

NoiseControlModes == {"Off", "NoiseCancellation", "Transparency", "Adaptive"}

ModeByte ==
  [Off |-> 1, NoiseCancellation |-> 2, Transparency |-> 3, Adaptive |-> 4]
ModeFromByte(b) == {m \in NoiseControlModes : ModeByte[m] = b}

BuildNoiseControl(mode) == Create(ListeningMode, <<ModeByte[mode], 0, 0, 0>>)
BuildAdaptiveNoiseLevel(level) ==
  Create(AutoAncStrength, <<IF level > 100 THEN 100 ELSE level, 0, 0, 0>>)

ModeBit(mode) ==
  CASE mode = "Off" -> 1
    [] mode = "NoiseCancellation" -> 2
    [] mode = "Transparency" -> 4
    [] mode = "Adaptive" -> 8

(* `modes' may list a mode twice: the bits are or-ed, not added.           *)
BuildListeningModeConfig(modes) ==
  LET bit(m) == IF m \in ToSet(modes) THEN ModeBit(m) ELSE 0
  IN  Create(ListeningModeConfigs,
             <<bit("Off") + bit("NoiseCancellation") + bit("Transparency")
                 + bit("Adaptive"), 0, 0, 0>>)

(* Listed in the order of their bits; which ones they are is what counts.  *)
ParseListeningModeConfig(bitmask) ==
  {m \in NoiseControlModes : (bitmask \div ModeBit(m)) % 2 = 1}

-----------------------------------------------------------------------------
(* Names, keys and head tracking.                                          *)

(* The length is cut to a byte, the name is not.                           *)
BuildRename(name) == HEADER \o <<26, 0, 1, Len(name) % 256, 0>> \o name

BuildRequestProximityKeys(mask) == HEADER \o <<48, 0, mask, 0>>

IsHeadTrackingData(p) ==
  /\ Len(p) > 60
  /\ StartsWith(p, HEADER \o <<23, 0, 0, 0, 16, 0>>)
  /\ At(p, 10) \in {68, 69}
  /\ At(p, 11) = 0
=============================================================================
