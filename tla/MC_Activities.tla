---------------------------- MODULE MC_Activities ----------------------------
(* Instances of Activities for TLC. *)
EXTENDS Activities

CONSTANTS a1, a2, a3, u1, u2

AllFaults == FaultPoints
SomeFaults == {"activation", "handler"}
TwoActivities == {a1, a2}
ThreeActivities == {a1, a2, a3}
OneUser == {u1}
TwoUsers == {u1, u2}

\* Two activities, in any tree.
AnyPlace == {<<App, a1>>, <<App, a2>>, <<a1, a2>>}

\* A root with two children, or with a child and a grandchild.
FamilyPlaces == {<<App, a1>>, <<a1, a2>>, <<a1, a3>>, <<a2, a3>>}
=============================================================================
