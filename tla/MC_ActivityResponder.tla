------------------------ MODULE MC_ActivityResponder ------------------------
(* An instance of ActivityResponder for TLC. *)
EXTENDS ActivityResponder

CONSTANTS r1, r2, reader1, reader2, reader3

TwoResponses == {r1, r2}
ThreeReaders == {reader1, reader2, reader3}
=============================================================================
