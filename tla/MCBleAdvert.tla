----------------------------- MODULE MCBleAdvert -----------------------------
(* Small instances of BleAdvert. *)
EXTENDS BleAdvert

(* Below ten per cent, full, and out of reach. *)
SomeCharges == {5, 100, 127}

(* AirPods Pro 2 (9248 is 2420), and a model that is not known. *)
SomeIds == {9248, 1}
=============================================================================
