---------------------------- MODULE MCKillSwitch ----------------------------
(* Values of the kill switch's constants for TLC. *)
EXTENDS KillSwitch, TLC

Steady == {}
SteppedBack == {-4}
EitherWay == {-2, 2}

AnyCall == Permutations(Checks)
=============================================================================
