----------------------------- MODULE CrossDevice -----------------------------
(***************************************************************************)
(* The protocol between two devices that share a pair of AirPods: its      *)
(* packets (librepods-core/src/crossdevice/packets.rs) and what a received *)
(* one asks for (handle_packet, crossdevice/relay.rs).                     *)
(***************************************************************************)
EXTENDS Naturals, Sequences

CONNECTED == <<0, 1, 0, 1>>
DISCONNECTED == <<0, 1, 0, 0>>
REQUEST_DISCONNECT == <<0, 2, 0, 0>>
REQUEST_BATTERY == <<0, 2, 0, 1>>
REQUEST_ANC == <<0, 2, 0, 2>>
REQUEST_STATUS == <<0, 2, 0, 3>>
DATA_HEADER == <<0, 4, 0, 1>>

(* Mistake: the header is relayed with the data. *)
HandleWithHeader(p) ==
  IF Len(p) >= 4 /\ SubSeq(p, 1, 4) = DATA_HEADER
    THEN [t |-> "RelayedData", payload |-> p] ELSE [t |-> "Unknown"]

HandlePacket(p) ==
  LET prefix == IF Len(p) < 4 THEN <<>> ELSE SubSeq(p, 1, 4)
  IN  CASE prefix = CONNECTED -> [t |-> "RemoteConnected"]
        [] prefix = DISCONNECTED -> [t |-> "RemoteDisconnected"]
        [] prefix = REQUEST_DISCONNECT -> [t |-> "DisconnectRequested"]
        [] prefix = REQUEST_BATTERY -> [t |-> "SendBattery"]
        [] prefix = REQUEST_ANC -> [t |-> "SendAnc"]
        [] prefix = REQUEST_STATUS -> [t |-> "SendConnectionStatus"]
        [] prefix = DATA_HEADER ->
             [t |-> "RelayedData", payload |-> SubSeq(p, 5, Len(p))]
        [] OTHER -> [t |-> "Unknown"]
=============================================================================
