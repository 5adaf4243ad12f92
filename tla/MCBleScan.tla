------------------------------ MODULE MCBleScan ------------------------------
(* Small instances of BleScan. *)
EXTENDS BleScan

CONSTANTS p1, p2, pro2, max

TwoPeripherals == {p1, p2}
OnePeripheral == {p1}
TwoModels == {pro2, max}
=============================================================================
