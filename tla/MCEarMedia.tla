----------------------------- MODULE MCEarMedia -----------------------------
(* Small instances of EarMedia. *)
EXTENDS EarMedia, TLC

Ids == {1, 2}
EveryToolset == SUBSET Tools
WpctlOnly == {{"wpctl", "playerctl"}}
AllMoves == Moves
EitherName == {"airpods", "renamed"}
NamedAirPods == {"airpods"}
BothKinds == {"other", "twin"}
OneKind == {"other"}
=============================================================================
