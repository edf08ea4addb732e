---------------------------- MODULE MC_Telemetry -----------------------------
(* Instances of Telemetry for TLC. *)
EXTENDS Telemetry, TLC

CONSTANTS c1, c2, c3, name

TwoClients == {c1, c2}
ThreeClients == {c1, c2, c3}
OneName == {name}
Alike == Permutations(Clients)
=============================================================================
