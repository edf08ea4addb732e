-------------------------- MODULE MC_EventEmitter ---------------------------
(* Instances of EventEmitter for TLC. *)
EXTENDS EventEmitter, TLC

CONSTANTS e1, e2, l1, l2, noted, glob

TwoEmitters == {e1, e2}
TwoListeners == {l1, l2}
OneListener == {l1}
OneType == {noted}
TwoPatterns == {noted, glob}
Alike == Permutations(TwoEmitters)
BothCover == (noted :> {noted}) @@ (glob :> {noted})
=============================================================================
