------------------------------- MODULE MCWire -------------------------------
(* Small instances of Wire. *)
EXTENDS Wire

(* The ends of a byte, and the first number that is not a percentage.      *)
SomeLevels == {0, 101, 255}
SomeTexts == {<<>>, <<65>>, <<66, 67>>}
SixteenBytes == [i \in 1..16 |-> 7]
SomeKeys == {<<>>, <<1, 0, 4>>, SixteenBytes}
SomeOdd == {0, 4, 255}
=============================================================================
