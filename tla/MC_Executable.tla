---------------------------- MODULE MC_Executable ----------------------------
(* Instances of Executable for TLC. *)
EXTENDS Executable

CONSTANTS c1, c2, c3

AllFaults == FaultPoints
NoFaults == {}
TwoCallers == {c1, c2}
ThreeCallers == {c1, c2, c3}
=============================================================================
