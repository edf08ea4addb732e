------------------------- MODULE MC_ServiceContainer -------------------------
(* Instances of ServiceContainer for TLC. *)
EXTENDS ServiceContainer

CONSTANTS scope1, name1, name2

OneScope == {Root, scope1}
TwoNames == {name1, name2}
Interchangeable == Permutations(Names)
=============================================================================
