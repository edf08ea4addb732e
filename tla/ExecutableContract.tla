------------------------- MODULE ExecutableContract -------------------------
(***************************************************************************)
(* What an executable scope promises the code around it: its status walks  *)
(* the lifecycle diagram, every part it owns has been released by the time *)
(* it is disposed, a disposal that was accepted stops new work, and an     *)
(* accepted disposal ends in a terminal status.  The module Executable     *)
(* implements this one.                                                    *)
(***************************************************************************)

CONSTANT
  LateDisposal  \* whether an accepted disposal may still run, or still
                \* fail, in a scope that is already terminal

VARIABLES
  status,       \* the lifecycle status observers see
  ending,       \* a disposal has been accepted and has not settled
  intact        \* no owned part has been released yet

contractVars == <<status, ending, intact>>

Terminal == {"disposed", "error"}

\* The phases a healthy scope starts by itself.  None of them starts once a
\* disposal has been accepted.
Beginnings == {<<"created", "creating">>, <<"initialized", "activating">>,
               <<"inactive", "activating">>}

\* How a phase that was started goes on, and the deactivation, which a
\* disposal may start too.
Continuations ==
  {<<"creating", "initializing">>, <<"initializing", "initialized">>,
   <<"activating", "active">>, <<"active", "deactivating">>,
   <<"deactivating", "inactive">>}

\* A healthy scope moves along the diagram.
Advance ==
  /\ \E edge \in Continuations \cup (IF ending THEN {} ELSE Beginnings) :
        status = edge[1] /\ status' = edge[2]
  /\ UNCHANGED <<ending, intact>>

\* A lifecycle failure ends a scope that has not ended.  If it was the
\* disposal that failed, parts may have been released and more may be.
Fail ==
  /\ status \notin Terminal \/ (LateDisposal /\ ending /\ status = "disposed")
  /\ status' = "error"
  /\ intact' \in {intact} \cup {i \in {FALSE} : ending}
  /\ UNCHANGED ending

AcceptDisposal ==
  /\ ~ending /\ status \notin Terminal
  /\ ending' = TRUE
  /\ UNCHANGED <<status, intact>>

\* A disposal never cuts a phase short, and never skips the deactivation.
BeginDisposal ==
  /\ ending
  /\ status \in {"created", "initialized", "inactive"} \cup {s \in {"error"} : LateDisposal}
  /\ status' = "disposing"
  /\ UNCHANGED <<ending, intact>>

\* Parts are released while the scope is disposing, never before.
Release ==
  /\ ending /\ status = "disposing"
  /\ intact /\ intact' = FALSE
  /\ UNCHANGED <<status, ending>>

CompleteDisposal ==
  /\ ending /\ status = "disposing" /\ ~intact
  /\ status' = "disposed"
  /\ UNCHANGED <<ending, intact>>

SettleDisposal ==
  /\ ending /\ status \in Terminal
  /\ ending' = FALSE
  /\ UNCHANGED <<status, intact>>

Init == status = "created" /\ ending = FALSE /\ intact = TRUE

Next == Advance \/ Fail \/ AcceptDisposal \/ BeginDisposal \/ Release
          \/ CompleteDisposal \/ SettleDisposal

\* An accepted disposal is never left half way.
Concluding == ending /\ Next

Spec == Init /\ [][Next]_contractVars /\ WF_contractVars(Concluding)
=============================================================================
