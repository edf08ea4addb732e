-------------------------- MODULE ExecutableProofs --------------------------
(***************************************************************************)
(* Proofs about Executable, for every set of callers and every set of      *)
(* fault points.  The inductive invariant says why the waits of the        *)
(* allSettled calls and the second look at the status are enough, and why  *)
(* a scope keeps the contract and answers its callers honestly.            *)
(***************************************************************************)
EXTENDS Executable, TLAPS

Regular == {"initializing", "activating", "deactivating"}

\* A transition only awaits transitions in flight it conflicts with, and
\* awaits nothing once it has gone on.
WaitsAreLive ==
  \A t \in Transitions :
    /\ waits[t] \subseteq ConflictsOf(t)
    /\ \A u \in waits[t] : InFlight(u)
    /\ stage[t] # "waiting" => waits[t] = {}

\* Of two regular transitions in flight the later one awaits the earlier one.
LaterAwaitsEarlier ==
  \A t, u \in Regular :
    t # u /\ InFlight(t) /\ InFlight(u) => t \in waits[u] \/ u \in waits[t]

\* A transition a disposal in flight does not await has not begun, and can
\* only return.
DisposalHoldsOthers ==
  InFlight("disposing") =>
    \A t \in Regular \ waits["disposing"] : stage[t] \in {"idle", "waiting", "returned"}

\* The stages and phases each transition can be in.
StagesFit ==
  /\ \A t \in Regular : /\ stage[t] \notin {"services", "fulfilled"}
                        /\ phase[t] # "dispose"
  /\ \A t \in Transitions : stage[t] \in Hooks \cup {"services"} => phase[t] # "none"
  /\ stage["disposing"] = "services" => phase["disposing"] = "dispose"
  /\ stage["disposing"] \in {"returned", "fulfilled"} =>
       phase["disposing"] \in {"deactivate", "dispose"}
  /\ phase["disposing"] \in {"none", "deactivate", "dispose"}

\* How far the release of the parts is at each stage of the disposal phase.
ReleaseFollowsStage ==
  phase["disposing"] = "dispose" =>
    /\ stage["disposing"] \in {"services", "returned", "thrown", "fulfilled", "rejected"}
         => {"kernel", "plugins"} \subseteq released
    /\ stage["disposing"] \in {"returned", "thrown", "fulfilled", "rejected"}
         => "services" \in released
    /\ stage["disposing"] \in {"fulfilled", "rejected"}
         => {"telemetry", "parent"} \subseteq released

\* A disposal that is over has left a terminal status.
DisposalEnds ==
  /\ stage["disposing"] = "fulfilled" => status = "disposed"
  /\ stage["disposing"] = "rejected" => status = "error"

\* Once the runner of the kernel is disposed, the disposal is past its hooks,
\* or over for good, and no other transition can be in a hook.
ReleasedIsLate ==
  "kernel" \in released =>
    /\ \A t \in Regular : stage[t] \in {"idle", "waiting", "returned"}
    /\ stage["disposing"] \notin Hooks \cup {"waiting"}
    /\ InFlight("disposing") => phase["disposing"] = "dispose"
    /\ ~InFlight("disposing") => status \in Terminal

IInv == /\ TypeOK
        /\ WaitsAreLive
        /\ LaterAwaitsEarlier
        /\ DisposalHoldsOthers
        /\ StagesFit
        /\ ReleaseFollowsStage
        /\ DisposalEnds
        /\ ReleasedIsLate
        /\ BusyHasWorker
-----------------------------------------------------------------------------
USE DEF Transitions, Regular, Answered, Hooks, InFlight, Free, Answer

\* The transitions a transition waits for are transitions.
LEMMA ConflictsAreTransitions ==
  ASSUME NEW t \in Transitions
  PROVE  /\ ConflictsOf(t) \subseteq Transitions \ {"disposing"}
         /\ t \notin ConflictsOf(t)
         /\ t \in Regular => ConflictsOf(t) = Regular \ {t}
         /\ t = "disposing" => ConflictsOf(t) = Regular
  BY DEF ConflictsOf

\* The initial state is of the right kind.
LEMMA InitTypeOK == Init => TypeOK
  BY DEF Init, TypeOK, Statuses, Stages, Phases

\* Every action of a transition preserves the type invariant.
LEMMA RunTypeOK ==
  ASSUME TypeOK, NEW t \in Transitions, Run(t)
  PROVE  TypeOK'
<1> USE DEF TypeOK, Statuses, Stages, Phases, Parts
<1>1. CASE Begin(t)
  BY <1>1 DEF Begin, BeginPhase, StatusOf, FirstPhase
<1>2. CASE Cancel(t)
  BY <1>2 DEF Cancel
<1>3. CASE CallbackReturns(t)
  BY <1>3 DEF CallbackReturns
<1>4. CASE HookThrows(t)
  BY <1>4 DEF HookThrows
<1>5. CASE Created(t)
  BY <1>5 DEF Created, BeginPhase, StatusOf
<1>6. CASE KernelReturns(t)
  BY <1>6 DEF KernelReturns, StatusAfter
<1>7. CASE DisposeCallbackSettles(t)
  BY <1>7 DEF DisposeCallbackSettles, MayFail
<1>8. CASE DisposeKernelSettles(t)
  BY <1>8 DEF DisposeKernelSettles, MayFail
<1>9. CASE ServicesSettle(t)
  BY <1>9 DEF ServicesSettle, MayFail
<1>10. CASE BeginDisposal
  BY <1>10 DEF BeginDisposal, BeginPhase, StatusOf
<1>11. CASE ConcludeDisposal
  <2>1. PICK end \in Stages : stage' = [stage EXCEPT !["disposing"] = end]
    BY <1>11 DEF ConcludeDisposal
  <2>2. status' \in Statuses /\ released' \in SUBSET Parts
    BY <1>11 DEF ConcludeDisposal
  <2> QED
    BY <1>11, <2>1, <2>2 DEF ConcludeDisposal
<1>12. CASE HandleFailure(t)
  BY <1>12 DEF HandleFailure
<1>13. CASE Settle(t)
  BY <1>13 DEF Settle, Outcome
<1> QED
  BY <1>1, <1>2, <1>3, <1>4, <1>5, <1>6, <1>7, <1>8, <1>9, <1>10, <1>11, <1>12,
     <1>13 DEF Run

\* What a call does to the slots: at most one transition is started.
LEMMA StartOrJoinEffect ==
  ASSUME TypeOK, NEW t \in Transitions, StartOrJoin(t)
  PROVE  \/ UNCHANGED <<stage, waits>>
         \/ /\ stage[t] = "idle"
            /\ stage' = [stage EXCEPT ![t] = "waiting"]
            /\ waits' = [waits EXCEPT ![t] = {u \in ConflictsOf(t) : InFlight(u)}]
  BY DEF StartOrJoin, Start

\* Calls preserve the type invariant.
LEMMA CallTypeOK ==
  ASSUME TypeOK, NEW c \in Callers, Ask(c) \/ ResumeActivate(c)
  PROVE  TypeOK'
<1> USE ConflictsAreTransitions DEF TypeOK, Stages, StartOrJoin, Start
<1>1. CASE Refuse(c)
  BY <1>1 DEF Refuse
<1>2. CASE RequestActivate(c)
  BY <1>2 DEF RequestActivate
<1>3. ASSUME NEW t \in Transitions, Request(c, t) PROVE TypeOK'
  BY <1>3 DEF Request
<1>4. CASE ResumeActivate(c)
  BY <1>4 DEF ResumeActivate
<1> QED
  BY <1>1, <1>2, <1>3, <1>4 DEF Ask

\* Every variable keeps to its kind in every behaviour.
THEOREM TypeCorrect == Spec => []TypeOK
<1>1. TypeOK /\ [Next]_vars => TypeOK'
  <2>1. TypeOK /\ UNCHANGED vars => TypeOK'
    BY DEF TypeOK, vars
  <2> QED
    BY <2>1, RunTypeOK, CallTypeOK DEF Next
<1> QED
  BY InitTypeOK, <1>1, PTL DEF Spec
-----------------------------------------------------------------------------
(* The inductive invariant.                                                *)

\* Between its start and the step that frees its slot, a transition changes
\* nothing but its own stage, and a regular one that has not begun when a
\* disposal is in flight can only return.
LEMMA RunStep ==
  ASSUME TypeOK, WaitsAreLive, NEW t \in Transitions, Run(t), ~Settle(t)
  PROVE  \E s \in Stages \ {"idle", "waiting"} :
           /\ stage' = [stage EXCEPT ![t] = s]
           /\ stage[t] # "idle" /\ waits[t] = {} /\ waits' = waits
           /\ t \in Regular /\ InFlight("disposing") /\ stage[t] \in {"waiting", "returned"}
                => s = "returned"
<1> USE DEF TypeOK, WaitsAreLive, Stages
<1>1. CASE Begin(t)
  BY <1>1 DEF Begin, BeginPhase, Waited, Eligible
<1>2. CASE Cancel(t)
  BY <1>2 DEF Cancel, Waited
<1>3. CASE CallbackReturns(t)
  BY <1>3 DEF CallbackReturns
<1>4. CASE HookThrows(t)
  BY <1>4 DEF HookThrows
<1>5. CASE Created(t)
  BY <1>5 DEF Created, BeginPhase
<1>6. CASE KernelReturns(t)
  BY <1>6 DEF KernelReturns
<1>7. CASE DisposeCallbackSettles(t)
  BY <1>7 DEF DisposeCallbackSettles
<1>8. CASE DisposeKernelSettles(t)
  BY <1>8 DEF DisposeKernelSettles
<1>9. CASE ServicesSettle(t)
  BY <1>9 DEF ServicesSettle
<1>10. CASE t = "disposing" /\ BeginDisposal
  BY <1>10 DEF BeginDisposal, BeginPhase, Waited
<1>11. CASE t = "disposing" /\ ConcludeDisposal
  BY <1>11 DEF ConcludeDisposal
<1>12. CASE HandleFailure(t)
  BY <1>12 DEF HandleFailure
<1> QED
  BY <1>1, <1>2, <1>3, <1>4, <1>5, <1>6, <1>7, <1>8, <1>9, <1>10, <1>11, <1>12 DEF Run

WaitingInv == WaitsAreLive /\ LaterAwaitsEarlier /\ DisposalHoldsOthers

\* The steps of a transition preserve what is known of who waits for whom.
LEMMA RunWaitingInv ==
  ASSUME TypeOK, WaitingInv, NEW t \in Transitions, Run(t)
  PROVE  WaitingInv'
<1> USE ConflictsAreTransitions
    DEF TypeOK, WaitingInv, WaitsAreLive, LaterAwaitsEarlier, DisposalHoldsOthers
<1>1. CASE Settle(t)
  <2>1. /\ stage' = [stage EXCEPT ![t] = "idle"]
        /\ waits' = [u \in Transitions |-> waits[u] \ {t}]
        /\ stage[t] # "waiting"
    BY <1>1 DEF Settle, Succeeded
  <2>2. WaitsAreLive'
    BY <2>1
  <2>3. LaterAwaitsEarlier'
    BY <2>1
  <2>4. DisposalHoldsOthers'
    BY <2>1
  <2> QED
    BY <2>2, <2>3, <2>4
<1>2. CASE ~Settle(t)
  <2>1. PICK s \in Stages \ {"idle", "waiting"} :
           /\ stage' = [stage EXCEPT ![t] = s]
           /\ stage[t] # "idle" /\ waits[t] = {} /\ waits' = waits
           /\ t \in Regular /\ InFlight("disposing") /\ stage[t] \in {"waiting", "returned"}
                => s = "returned"
    BY <1>2, RunStep
  <2>2. WaitsAreLive'
    BY <2>1
  <2>3. LaterAwaitsEarlier'
    BY <2>1
  <2>4. DisposalHoldsOthers'
    BY <2>1
  <2> QED
    BY <2>2, <2>3, <2>4
<1> QED
  BY <1>1, <1>2

\* Starting a transition preserves it too: the new transition awaits every
\* transition in flight it conflicts with.
LEMMA StartWaitingInv ==
  ASSUME TypeOK, WaitingInv, NEW t \in Transitions, StartOrJoin(t)
  PROVE  WaitingInv'
<1> USE ConflictsAreTransitions
    DEF TypeOK, WaitingInv, WaitsAreLive, LaterAwaitsEarlier, DisposalHoldsOthers
<1>1. CASE UNCHANGED <<stage, waits>>
  BY <1>1
<1>2. CASE /\ stage[t] = "idle"
           /\ stage' = [stage EXCEPT ![t] = "waiting"]
           /\ waits' = [waits EXCEPT ![t] = {u \in ConflictsOf(t) : InFlight(u)}]
  <2>1. WaitsAreLive'
    BY <1>2
  <2>2. LaterAwaitsEarlier'
    BY <1>2
  <2>3. DisposalHoldsOthers'
    BY <1>2
  <2> QED
    BY <2>1, <2>2, <2>3
<1> QED
  BY <1>1, <1>2, StartOrJoinEffect
-----------------------------------------------------------------------------
DisposalInv == StagesFit /\ ReleaseFollowsStage /\ DisposalEnds /\ ReleasedIsLate

\* The steps of a transition preserve what is known of a disposal: how far it
\* has released the parts, and that nothing overtakes it.
LEMMA RunDisposalInv ==
  ASSUME TypeOK, WaitingInv, DisposalInv, NEW t \in Transitions, Run(t)
  PROVE  DisposalInv'
<1> USE ConflictsAreTransitions
    DEF TypeOK, Phases, Stages, Parts, Terminal, WaitingInv, WaitsAreLive, DisposalHoldsOthers,
        DisposalInv, StagesFit, ReleaseFollowsStage, DisposalEnds, ReleasedIsLate
<1>1. CASE Begin(t)
  <2>1. t \in Regular /\ ~InFlight("disposing") /\ status \notin Terminal
    BY <1>1 DEF Begin, Eligible
  <2>2. FirstPhase(t) \in {"create", "activate", "deactivate"}
    BY <2>1 DEF FirstPhase
  <2>3. /\ stage' = [stage EXCEPT ![t] = "callback"]
        /\ phase' = [phase EXCEPT ![t] = FirstPhase(t)]
        /\ released' = released
    BY <1>1 DEF Begin, BeginPhase
  <2> QED
    BY <2>1, <2>2, <2>3
<1>2. CASE Cancel(t)
  BY <1>2 DEF Cancel, Waited
<1>3. CASE CallbackReturns(t)
  BY <1>3 DEF CallbackReturns
<1>4. CASE HookThrows(t)
  BY <1>4 DEF HookThrows
<1>5. CASE Created(t)
  BY <1>5 DEF Created, BeginPhase, StatusOf
<1>6. CASE KernelReturns(t)
  BY <1>6 DEF KernelReturns, StatusAfter
<1>7. CASE DisposeCallbackSettles(t)
  BY <1>7 DEF DisposeCallbackSettles, MayFail
<1>8. CASE DisposeKernelSettles(t)
  BY <1>8 DEF DisposeKernelSettles, MayFail
<1>9. CASE ServicesSettle(t)
  BY <1>9 DEF ServicesSettle, MayFail
<1>10. CASE t = "disposing" /\ BeginDisposal
  BY <1>10 DEF BeginDisposal, BeginPhase, StatusOf, Waited
<1>11. CASE t = "disposing" /\ ConcludeDisposal
  BY <1>11 DEF ConcludeDisposal
<1>12. CASE HandleFailure(t)
  BY <1>12 DEF HandleFailure
<1>13. CASE Settle(t)
  BY <1>13 DEF Settle, Succeeded
<1> QED
  BY <1>1, <1>2, <1>3, <1>4, <1>5, <1>6, <1>7, <1>8, <1>9, <1>10, <1>11, <1>12, <1>13 DEF Run

\* A step that changes the status to one that says work is going on is taken
\* by the transition that does the work.
LEMMA RunBusyHasWorker ==
  ASSUME TypeOK, DisposalInv, BusyHasWorker, NEW t \in Transitions, Run(t)
  PROVE  BusyHasWorker'
<1> USE DEF TypeOK, Phases, Stages, BusyHasWorker, Busy, Occupied, Works
<1>1. CASE Begin(t)
  <2>1. /\ FirstPhase(t) \in Phases
        /\ stage' = [stage EXCEPT ![t] = "callback"]
        /\ phase' = [phase EXCEPT ![t] = FirstPhase(t)]
        /\ status' = StatusOf(FirstPhase(t))
    BY <1>1 DEF Begin, BeginPhase, FirstPhase
  <2> QED
    BY <2>1
<1>2. CASE Cancel(t)
  BY <1>2 DEF Cancel, Waited
<1>3. CASE CallbackReturns(t)
  BY <1>3 DEF CallbackReturns
<1>4. CASE HookThrows(t)
  BY <1>4 DEF HookThrows
<1>5. CASE Created(t)
  BY <1>5 DEF Created, BeginPhase
<1>6. CASE KernelReturns(t)
  BY <1>6 DEF KernelReturns, StatusAfter
<1>7. CASE DisposeCallbackSettles(t)
  BY <1>7 DEF DisposeCallbackSettles
<1>8. CASE DisposeKernelSettles(t)
  BY <1>8 DEF DisposeKernelSettles
<1>9. CASE ServicesSettle(t)
  BY <1>9 DEF ServicesSettle, DisposalInv, StagesFit
<1>10. CASE t = "disposing" /\ BeginDisposal
  BY <1>10 DEF BeginDisposal, BeginPhase
<1>11. CASE t = "disposing" /\ ConcludeDisposal
  BY <1>11 DEF ConcludeDisposal
<1>12. CASE HandleFailure(t)
  BY <1>12 DEF HandleFailure
<1>13. CASE Settle(t)
  BY <1>13 DEF Settle, Succeeded
<1> QED
  BY <1>1, <1>2, <1>3, <1>4, <1>5, <1>6, <1>7, <1>8, <1>9, <1>10, <1>11, <1>12, <1>13 DEF Run

\* A call starts at most one transition, and a disposal only in a scope that
\* has not ended; it changes nothing else an invariant speaks of.
LEMMA CallEffect ==
  ASSUME TypeOK, NEW c \in Callers, Ask(c) \/ ResumeActivate(c)
  PROVE  /\ UNCHANGED <<status, phase, released>>
         /\ \/ UNCHANGED <<stage, waits>>
            \/ \E t \in Transitions : /\ StartOrJoin(t)
                                      /\ t = "disposing" => status \notin Terminal
<1>1. CASE Refuse(c)
  BY <1>1 DEF Refuse
<1>2. CASE RequestActivate(c)
  BY <1>2 DEF RequestActivate
<1>3. ASSUME NEW t \in Transitions, Request(c, t)
      PROVE  /\ UNCHANGED <<status, phase, released>>
             /\ StartOrJoin(t) /\ status \notin Terminal
  BY <1>3 DEF Request
<1>4. CASE ResumeActivate(c)
  BY <1>4 DEF ResumeActivate
<1> QED
  BY <1>1, <1>2, <1>3, <1>4 DEF Ask

\* Calls preserve the inductive invariant.
LEMMA CallIInv ==
  ASSUME IInv, NEW c \in Callers, Ask(c) \/ ResumeActivate(c)
  PROVE  IInv'
<1> USE DEF IInv
<1>1. UNCHANGED <<status, phase, released>>
  BY CallEffect
<1>2. WaitingInv'
  BY CallEffect, StartWaitingInv
     DEF WaitingInv, TypeOK, WaitsAreLive, LaterAwaitsEarlier, DisposalHoldsOthers
<1>3. \/ UNCHANGED stage
      \/ \E t \in Transitions : /\ stage[t] = "idle"
                                /\ stage' = [stage EXCEPT ![t] = "waiting"]
                                /\ t = "disposing" => status \notin Terminal
  BY CallEffect, StartOrJoinEffect
<1>4. DisposalInv'
  BY <1>1, <1>3 DEF DisposalInv, TypeOK, Stages, StagesFit, ReleaseFollowsStage,
                    DisposalEnds, ReleasedIsLate
<1>5. BusyHasWorker'
  BY <1>1, <1>3 DEF TypeOK, Stages, BusyHasWorker, Occupied, Works
<1>6. TypeOK'
  BY CallTypeOK
<1> QED
  BY <1>2, <1>4, <1>5, <1>6 DEF WaitingInv, DisposalInv

\* The inductive invariant holds in every behaviour.
THEOREM Inductive == Spec => []IInv
<1>1. Init => IInv
  <2> SUFFICES ASSUME Init PROVE IInv
    OBVIOUS
  <2> QED
    BY InitTypeOK DEF Init, IInv, WaitsAreLive, LaterAwaitsEarlier, DisposalHoldsOthers,
       StagesFit, ReleaseFollowsStage, DisposalEnds, ReleasedIsLate, BusyHasWorker, Busy
<1>2. IInv /\ [Next]_vars => IInv'
  <2> SUFFICES ASSUME IInv, [Next]_vars PROVE IInv'
    OBVIOUS
  <2>1. ASSUME NEW t \in Transitions, Run(t) PROVE IInv'
    BY <2>1, RunTypeOK, RunWaitingInv, RunDisposalInv, RunBusyHasWorker
       DEF IInv, WaitingInv, DisposalInv
  <2>2. ASSUME NEW c \in Callers, Ask(c) \/ ResumeActivate(c) PROVE IInv'
    BY <2>2, CallIInv
  <2>3. CASE UNCHANGED vars
    BY <2>3 DEF vars, IInv, TypeOK, WaitsAreLive, LaterAwaitsEarlier, DisposalHoldsOthers,
       StagesFit, ReleaseFollowsStage, DisposalEnds, ReleasedIsLate, BusyHasWorker,
       Occupied, Works
  <2> QED
    BY <2>1, <2>2, <2>3 DEF Next
<1> QED
  BY <1>1, <1>2, PTL DEF Spec
-----------------------------------------------------------------------------
(* What follows from it.                                                   *)

\* Phases of two transitions never overlap (the allSettled waits of
\* initialize, activate, deactivate and dispose).
THEOREM PhasesNeverOverlap == Spec => []OneWorker
<1>1. ASSUME IInv, NEW t \in Transitions, NEW u \in Transitions, Works(t), Works(u), t # u
      PROVE  FALSE
  <2>1. waits[t] = {} /\ waits[u] = {}
    BY <1>1 DEF IInv, WaitsAreLive, Works
  <2>2. InFlight(t) /\ InFlight(u)
    BY <1>1 DEF Works
  <2>3. ~(t \in Regular /\ u \in Regular)
    BY <1>1, <2>1, <2>2 DEF IInv, LaterAwaitsEarlier
  <2>4. t \in Regular => stage[t] \notin Hooks \cup {"services"}
    BY <1>1, <2>1, <2>2, <2>3 DEF IInv, DisposalHoldsOthers
  <2>5. u \in Regular => stage[u] \notin Hooks \cup {"services"}
    BY <1>1, <2>1, <2>2, <2>3 DEF IInv, DisposalHoldsOthers
  <2> QED
    BY <1>1, <2>4, <2>5 DEF Works
<1>2. IInv => OneWorker
  BY <1>1 DEF OneWorker
<1> QED
  BY Inductive, <1>2, PTL

\* A status that says work is going on always has a transition that works.
THEOREM BusyIsNeverStuck == Spec => []BusyHasWorker
<1>1. IInv => BusyHasWorker
  BY DEF IInv
<1> QED
  BY Inductive, <1>1, PTL

\* No callback or hook runs once the runner of the kernel is disposed
\* (runDisposalPhase against the transitions that were in flight).
THEOREM ReleasedMeansQuiet == Spec => []NothingRunsOnReleased
<1>1. IInv => NothingRunsOnReleased
  BY DEF IInv, NothingRunsOnReleased, ReleasedIsLate
<1> QED
  BY Inductive, <1>1, PTL

\* A disposal phase releases every owned part, whatever throws in it.
THEOREM FailuresDoNotStopCleanup == Spec => []CleanupContinues
<1>1. IInv => CleanupContinues
  <2> SUFFICES ASSUME IInv, stage["disposing"] \in {"fulfilled", "rejected"},
                      phase["disposing"] = "dispose"
               PROVE  released = Parts
    BY DEF CleanupContinues
  <2>1. Parts \subseteq released
    BY DEF IInv, ReleaseFollowsStage, Parts
  <2>2. released \subseteq Parts
    BY DEF IInv, TypeOK
  <2> QED
    BY <2>1, <2>2
<1> QED
  BY Inductive, <1>1, PTL

-----------------------------------------------------------------------------
(***************************************************************************)
(* Executable implements the safety part of ExecutableContract: whatever is*)
(* called while transitions are in flight, the status walks the lifecycle  *)
(* diagram.                                                                *)
(***************************************************************************)

\* A transition that runs a phase has announced it.
Announced == \A t \in Transitions : Works(t) => status = StatusOf(phase[t])

\* The status a disposal has left behind at each of its later stages.
DisposalStatus ==
  /\ stage["disposing"] = "returned" =>
       status = IF phase["disposing"] = "deactivate" THEN "inactive" ELSE "disposing"
  /\ stage["disposing"] = "thrown" =>
       status \in {"deactivating", "inactive", "disposing", "disposed"}
  /\ status = "disposed" => /\ stage["disposing"] \in {"idle", "thrown", "fulfilled"}
                            /\ "kernel" \in released

\* Nothing fails unless something may throw.
FaultsExplain ==
  /\ status = "error" => Faults # {}
  /\ failed => Faults # {}
  /\ \A t \in Transitions : stage[t] = "thrown" => Faults # {}

WInv == IInv /\ Announced /\ DisposalStatus /\ FaultsExplain
-----------------------------------------------------------------------------

\* Who changes the status is alone: no other transition is in a phase, and a
\* disposal in flight that is past its waits is not overtaken.
LEMMA StatusChangesAlone ==
  ASSUME IInv, NEW t \in Transitions, Run(t), status' # status
  PROVE  /\ \A u \in Transitions \ {t} : ~Works(u)
         /\ t # "disposing" => stage["disposing"] \in {"idle", "waiting"}
         /\ ~Settle(t)
<1> USE DEF IInv
<1>1. ~Settle(t) /\ ~Cancel(t)
  BY DEF Settle, Cancel
<1>2. InFlight(t) /\ waits[t] = {}
  BY <1>1, RunStep
<1>3. ASSUME t \in Regular, stage[t] \in {"waiting", "returned"}
      PROVE  stage["disposing"] = "idle"
  BY <1>1, <1>3 DEF Run, Begin, Eligible, CallbackReturns, HookThrows, Created, KernelReturns,
     DisposeCallbackSettles, DisposeKernelSettles, ServicesSettle, HandleFailure
<1>4. ASSUME t \in Regular, stage["disposing"] \notin {"idle", "waiting"} PROVE FALSE
  <2>1. waits["disposing"] = {} /\ InFlight("disposing")
    BY <1>4 DEF WaitsAreLive
  <2>2. stage[t] \in {"waiting", "returned"}
    BY <1>2, <1>4, <2>1 DEF DisposalHoldsOthers
  <2> QED
    BY <1>3, <1>4, <2>2
<1>5. ASSUME NEW u \in Transitions \ {t}, Works(u) PROVE FALSE
  <2>1. waits[u] = {} /\ InFlight(u) /\ stage[u] \notin {"idle", "waiting", "returned"}
    BY <1>5 DEF WaitsAreLive, Works
  <2>2. CASE t \in Regular /\ u \in Regular
    BY <1>2, <1>5, <2>1, <2>2 DEF LaterAwaitsEarlier
  <2>3. CASE t = "disposing"
    BY <1>2, <1>5, <2>1, <2>3 DEF DisposalHoldsOthers
  <2>4. CASE t \in Regular /\ u = "disposing"
    BY <1>4, <2>1, <2>4
  <2> QED
    BY <2>2, <2>3, <2>4
<1>6. t # "disposing" => t \in Regular
  OBVIOUS
<1> QED
  BY <1>1, <1>4, <1>5, <1>6

\* A transition touches its own stage and phase only.
LEMMA RunOwn ==
  ASSUME IInv, NEW t \in Transitions, Run(t)
  PROVE  \A u \in Transitions \ {t} : stage'[u] = stage[u] /\ phase'[u] = phase[u]
<1> USE DEF IInv, TypeOK
<1>1. CASE Begin(t)
  BY <1>1 DEF Begin, BeginPhase
<1>2. CASE Cancel(t)
  BY <1>2 DEF Cancel
<1>3. CASE CallbackReturns(t)
  BY <1>3 DEF CallbackReturns
<1>4. CASE HookThrows(t)
  BY <1>4 DEF HookThrows
<1>5. CASE Created(t)
  BY <1>5 DEF Created, BeginPhase
<1>6. CASE KernelReturns(t)
  BY <1>6 DEF KernelReturns
<1>7. CASE DisposeCallbackSettles(t)
  BY <1>7 DEF DisposeCallbackSettles
<1>8. CASE DisposeKernelSettles(t)
  BY <1>8 DEF DisposeKernelSettles
<1>9. CASE ServicesSettle(t)
  BY <1>9 DEF ServicesSettle
<1>10. CASE t = "disposing" /\ BeginDisposal
  BY <1>10 DEF BeginDisposal, BeginPhase
<1>11. CASE t = "disposing" /\ ConcludeDisposal
  BY <1>11 DEF ConcludeDisposal
<1>12. CASE HandleFailure(t)
  BY <1>12 DEF HandleFailure
<1>13. CASE Settle(t)
  BY <1>13 DEF Settle
<1> QED
  BY <1>1, <1>2, <1>3, <1>4, <1>5, <1>6, <1>7, <1>8, <1>9, <1>10, <1>11, <1>12, <1>13 DEF Run

\* Entering a phase sets the status of that phase, and nothing else sets it
\* while the phase runs.
LEMMA RunAnnounced ==
  ASSUME IInv, Announced, NEW t \in Transitions, Run(t)
  PROVE  Announced'
<1> USE DEF IInv, TypeOK, Phases, Stages, Works
<1>1. Works(t)' => status' = StatusOf(phase'[t])
  <2> USE DEF Announced
  <2>1. CASE Begin(t)
    <3>1. FirstPhase(t) \in Phases
      BY <2>1 DEF Begin, FirstPhase
    <3> QED
      BY <2>1, <3>1 DEF Begin, BeginPhase
  <2>2. CASE Cancel(t)
    BY <2>2 DEF Cancel
  <2>3. CASE CallbackReturns(t)
    BY <2>3 DEF CallbackReturns
  <2>4. CASE HookThrows(t)
    BY <2>4 DEF HookThrows
  <2>5. CASE Created(t)
    BY <2>5 DEF Created, BeginPhase
  <2>6. CASE KernelReturns(t)
    BY <2>6 DEF KernelReturns
  <2>7. CASE DisposeCallbackSettles(t)
    BY <2>7 DEF DisposeCallbackSettles
  <2>8. CASE DisposeKernelSettles(t)
    BY <2>8 DEF DisposeKernelSettles
  <2>9. CASE ServicesSettle(t)
    BY <2>9 DEF ServicesSettle
  <2>10. CASE t = "disposing" /\ BeginDisposal
    BY <2>10 DEF BeginDisposal, BeginPhase
  <2>11. CASE t = "disposing" /\ ConcludeDisposal
    BY <2>11 DEF ConcludeDisposal
  <2>12. CASE HandleFailure(t)
    BY <2>12 DEF HandleFailure
  <2>13. CASE Settle(t)
    BY <2>13 DEF Settle
  <2> QED
    BY <2>1, <2>2, <2>3, <2>4, <2>5, <2>6, <2>7, <2>8, <2>9, <2>10, <2>11, <2>12, <2>13
       DEF Run
<1>2. ASSUME NEW u \in Transitions \ {t}, Works(u)' PROVE status' = StatusOf(phase'[u])
  <2>1. Works(u) /\ phase'[u] = phase[u]
    BY <1>2, RunOwn
  <2>2. status' = status
    BY <2>1, StatusChangesAlone
  <2> QED
    BY <2>1, <2>2 DEF Announced
<1> QED
  BY <1>1, <1>2 DEF Announced

\* A disposal knows the status it has left behind.
LEMMA RunDisposalStatus ==
  ASSUME IInv, Announced, DisposalStatus, NEW t \in Transitions, Run(t)
  PROVE  DisposalStatus'
<1> USE DEF IInv, TypeOK, Phases, Stages
<1>1. CASE t = "disposing"
  <2> USE <1>1 DEF Announced, Works, DisposalStatus
  <2>1. ~Begin(t) /\ ~Cancel(t) /\ ~Created(t)
    BY DEF Begin, Cancel, Created, StagesFit
  <2>2. CASE CallbackReturns(t)
    BY <2>2 DEF CallbackReturns
  <2>3. CASE HookThrows(t)
    BY <2>3 DEF HookThrows, StagesFit, StatusOf
  <2>4. CASE KernelReturns(t)
    BY <2>4 DEF KernelReturns, StagesFit, StatusAfter
  <2>5. CASE DisposeCallbackSettles(t)
    BY <2>5 DEF DisposeCallbackSettles
  <2>6. CASE DisposeKernelSettles(t)
    BY <2>6 DEF DisposeKernelSettles, StatusOf
  <2>7. CASE ServicesSettle(t)
    BY <2>7 DEF ServicesSettle, StagesFit, StatusOf
  <2>8. CASE BeginDisposal
    BY <2>8 DEF BeginDisposal, BeginPhase, StatusOf
  <2>9. CASE ConcludeDisposal
    BY <2>9 DEF ConcludeDisposal, ReleaseFollowsStage
  <2>10. CASE HandleFailure(t)
    BY <2>10 DEF HandleFailure
  <2>11. CASE Settle(t)
    BY <2>11 DEF Settle, Succeeded
  <2> QED
    BY <2>1, <2>2, <2>3, <2>4, <2>5, <2>6, <2>7, <2>8, <2>9, <2>10, <2>11 DEF Run
<1>2. CASE t # "disposing"
  <2>1. stage'["disposing"] = stage["disposing"] /\ phase'["disposing"] = phase["disposing"]
    BY <1>2, RunOwn
  <2>2. status' # status => stage["disposing"] \in {"idle", "waiting"} /\ status' # "disposed"
    <3>1. status' # "disposed" \/ status' = status
      BY <1>2 DEF Run, Begin, BeginPhase, FirstPhase, StatusOf, Cancel, CallbackReturns, HookThrows,
         Created, KernelReturns, StatusAfter, DisposeCallbackSettles, DisposeKernelSettles,
         ServicesSettle, HandleFailure, Settle
    <3> QED
      BY <1>2, <3>1, StatusChangesAlone
  <2>3. released \subseteq released'
    BY <1>2 DEF Run, Begin, Cancel, CallbackReturns, HookThrows, Created, KernelReturns,
       DisposeCallbackSettles, DisposeKernelSettles, ServicesSettle, HandleFailure, Settle
  <2> QED
    BY <2>1, <2>2, <2>3 DEF DisposalStatus
<1> QED
  BY <1>1, <1>2

\* runDisposalPhase remembers a failure only of what may throw.
LEMMA FailureHasFault ==
  ASSUME FaultsExplain, NEW p, MayFail(p)
  PROVE  failed' => Faults # {}
<1>1. failed' = failed \/ p \in Faults
  BY DEF MayFail
<1> QED
  BY <1>1 DEF FaultsExplain

\* A transition fails only because something threw.
LEMMA RunFaultsExplain ==
  ASSUME IInv, FaultsExplain, NEW t \in Transitions, Run(t)
  PROVE  FaultsExplain'
<1> USE DEF IInv, TypeOK, FaultsExplain, Stages, Phases
<1>1. CASE Begin(t)
  <2>1. StatusOf(FirstPhase(t)) # "error"
    BY <1>1 DEF Begin, FirstPhase, StatusOf
  <2> QED
    BY <1>1, <2>1 DEF Begin, BeginPhase
<1>2. CASE Cancel(t)
  BY <1>2 DEF Cancel
<1>3. CASE CallbackReturns(t)
  BY <1>3 DEF CallbackReturns
<1>4. CASE HookThrows(t)
  BY <1>4 DEF HookThrows
<1>5. CASE Created(t)
  BY <1>5 DEF Created, BeginPhase, StatusOf
<1>6. CASE KernelReturns(t)
  BY <1>6 DEF KernelReturns, StatusAfter
<1>7. CASE DisposeCallbackSettles(t)
  <2>1. failed' => Faults # {}
    BY <1>7, FailureHasFault DEF DisposeCallbackSettles
  <2> QED
    BY <1>7, <2>1 DEF DisposeCallbackSettles
<1>8. CASE DisposeKernelSettles(t)
  <2>1. failed' => Faults # {}
    BY <1>8, FailureHasFault DEF DisposeKernelSettles
  <2>2. status' = status /\ stage' = [stage EXCEPT ![t] = "services"]
    BY <1>8 DEF DisposeKernelSettles
  <2> QED
    BY <2>1, <2>2
<1>9. CASE ServicesSettle(t)
  <2>1. failed' => Faults # {}
    BY <1>9, FailureHasFault DEF ServicesSettle
  <2>2. status' = status
        /\ stage' = [stage EXCEPT ![t] = IF failed' THEN "thrown" ELSE "returned"]
    BY <1>9 DEF ServicesSettle
  <2> QED
    BY <2>1, <2>2
<1>10. CASE t = "disposing" /\ BeginDisposal
  BY <1>10 DEF BeginDisposal, BeginPhase, StatusOf
<1>11. CASE t = "disposing" /\ ConcludeDisposal
  BY <1>11 DEF ConcludeDisposal
<1>12. CASE HandleFailure(t)
  BY <1>12 DEF HandleFailure
<1>13. CASE Settle(t)
  BY <1>13 DEF Settle
<1> QED
  BY <1>1, <1>2, <1>3, <1>4, <1>5, <1>6, <1>7, <1>8, <1>9, <1>10, <1>11, <1>12, <1>13 DEF Run

\* A call starts at most one transition and leaves the failures alone.
LEMMA CallStarts ==
  ASSUME TypeOK, NEW c \in Callers, Ask(c) \/ ResumeActivate(c)
  PROVE  /\ UNCHANGED <<status, phase, failed, released>>
         /\ \/ UNCHANGED stage
            \/ \E t \in Transitions : /\ stage[t] = "idle"
                                      /\ stage' = [stage EXCEPT ![t] = "waiting"]
                                      /\ t = "disposing" => status \notin Terminal
<1>1. failed' = failed
  BY DEF Ask, Refuse, RequestActivate, Request, ResumeActivate
<1> QED
  BY <1>1, CallEffect, StartOrJoinEffect

\* The invariant of the refinement holds in every behaviour.
LEMMA InductiveWInv == Spec => []WInv
<1>1. Init /\ IInv => WInv
  BY DEF Init, WInv, Announced, Works, DisposalStatus, FaultsExplain
<1>2. WInv /\ IInv' /\ [Next]_vars => WInv'
  <2> SUFFICES ASSUME WInv, IInv', [Next]_vars PROVE WInv'
    OBVIOUS
  <2>1. ASSUME NEW t \in Transitions, Run(t) PROVE WInv'
    BY <2>1, RunAnnounced, RunDisposalStatus, RunFaultsExplain DEF WInv
  <2>2. ASSUME NEW c \in Callers, Ask(c) \/ ResumeActivate(c) PROVE WInv'
    <3>1. /\ UNCHANGED <<status, phase, failed, released>>
          /\ \/ UNCHANGED stage
             \/ \E t \in Transitions : /\ stage[t] = "idle"
                                       /\ stage' = [stage EXCEPT ![t] = "waiting"]
                                       /\ t = "disposing" => status \notin Terminal
      BY <2>2, CallStarts DEF WInv, IInv
    <3> QED
      BY <3>1 DEF WInv, IInv, TypeOK, Announced, Works, DisposalStatus, FaultsExplain, Terminal
  <2>3. CASE UNCHANGED vars
    BY <2>3 DEF vars, WInv, Announced, Works, DisposalStatus, FaultsExplain
  <2> QED
    BY <2>1, <2>2, <2>3 DEF Next
<1> QED
  BY <1>1, <1>2, Inductive, PTL DEF Spec
-----------------------------------------------------------------------------
(* The refinement.                                                         *)

\* A step that leaves the status and both slots of the contract alone.
LEMMA Stutter ==
  ASSUME status' = status, released' = released,
         stage'["disposing"] # "idle" <=> stage["disposing"] # "idle"
  PROVE  UNCHANGED Contract!contractVars
  BY DEF Contract!contractVars

\* The step of a regular transition along the diagram.
LEMMA AdvanceStep ==
  ASSUME released' = released,
         stage'["disposing"] # "idle" <=> stage["disposing"] # "idle",
         \/ <<status, status'>> \in Contract!Continuations
         \/ <<status, status'>> \in Contract!Beginnings /\ stage["disposing"] = "idle"
  PROVE  Contract!Next
<1>1. PICK edge \in Contract!Continuations
             \cup (IF InFlight("disposing") THEN {} ELSE Contract!Beginnings) :
         edge = <<status, status'>>
  OBVIOUS
<1>2. status = edge[1] /\ status' = edge[2]
  BY <1>1
<1> QED
  BY <1>1, <1>2 DEF Contract!Next, Contract!Advance

\* Beginning a phase, or cancelling.
LEMMA RegularBeginRefines ==
  ASSUME WInv, NEW t \in Regular, Begin(t)
  PROVE  Contract!Next
<1> USE DEF WInv, IInv, TypeOK, Stages
<1>1. stage["disposing"] = "idle" /\ stage'["disposing"] = "idle" /\ released' = released
  BY DEF Begin, BeginPhase, Eligible
<1>2. <<status, status'>> \in Contract!Beginnings \cup Contract!Continuations
  BY DEF Begin, BeginPhase, Eligible, FirstPhase, StatusOf, Contract!Beginnings,
     Contract!Continuations
<1> QED
  BY <1>1, <1>2, AdvanceStep

\* The steps inside the phases of a transition.
LEMMA PhaseRefines ==
  ASSUME WInv, NEW t \in Transitions,
         Cancel(t) \/ CallbackReturns(t) \/ HookThrows(t) \/ Created(t) \/ KernelReturns(t)
  PROVE  Contract!Next \/ UNCHANGED Contract!contractVars
<1> USE DEF WInv, IInv, TypeOK, Stages
<1>1. released' = released
  BY DEF Cancel, CallbackReturns, HookThrows, Created, KernelReturns
<1>2. stage'["disposing"] # "idle" <=> stage["disposing"] # "idle"
  BY DEF Cancel, CallbackReturns, HookThrows, Created, BeginPhase, KernelReturns, Waited
<1>3. status' = status \/ <<status, status'>> \in Contract!Continuations
  <2>1. CASE Cancel(t) \/ CallbackReturns(t) \/ HookThrows(t)
    BY <2>1 DEF Cancel, CallbackReturns, HookThrows
  <2>2. CASE Created(t)
    <3>1. status = "creating"
      BY <2>2 DEF Created, Announced, Works, StatusOf
    <3> QED
      BY <2>2, <3>1 DEF Created, BeginPhase, StatusOf, Contract!Continuations
  <2>3. CASE KernelReturns(t)
    <3>1. status = StatusOf(phase[t]) /\ status' = StatusAfter(phase[t])
            /\ phase[t] \in {"initialize", "activate", "deactivate"}
      BY <2>3 DEF KernelReturns, Announced, Works
    <3> QED
      BY <3>1 DEF StatusOf, StatusAfter, Contract!Continuations
  <2> QED
    BY <2>1, <2>2, <2>3
<1> QED
  BY <1>1, <1>2, <1>3, AdvanceStep, Stutter

\* A disposal begins where the diagram lets it.
LEMMA BeginDisposalRefines ==
  ASSUME WInv, BeginDisposal
  PROVE  Contract!Next
<1> USE DEF WInv, IInv, TypeOK, Stages
<1>1. released' = released /\ stage' = [stage EXCEPT !["disposing"] = "callback"]
        /\ stage["disposing"] \in {"waiting", "returned"}
  BY DEF BeginDisposal, BeginPhase, Waited
<1>2. CASE stage["disposing"] = "waiting" /\ status = "active"
  <2>1. status' = "deactivating"
    BY <1>2 DEF BeginDisposal, BeginPhase, StatusOf
  <2>2. <<status, status'>> \in Contract!Continuations
    BY <1>2, <2>1 DEF Contract!Continuations
  <2> QED
    BY <1>1, <2>2, AdvanceStep
<1>3. CASE ~(stage["disposing"] = "waiting" /\ status = "active")
  <2>1. status' = "disposing"
    BY <1>3 DEF BeginDisposal, BeginPhase, StatusOf
  <2>2. status \in {"created", "initialized", "inactive", "error"}
    <3>1. CASE stage["disposing"] = "returned"
      BY <3>1 DEF BeginDisposal, Waited, DisposalStatus
    <3>2. CASE stage["disposing"] = "waiting"
      <4>1. waits["disposing"] = {}
        BY <3>2 DEF BeginDisposal, Waited
      <4>2. \A t \in Transitions : ~Occupied(t)
        BY <3>2, <4>1 DEF DisposalHoldsOthers, Occupied, Works
      <4>3. status \notin Busy
        BY <4>2 DEF BusyHasWorker
      <4>4. status # "disposed"
        BY <3>2 DEF DisposalStatus
      <4> QED
        BY <1>3, <3>2, <4>3, <4>4 DEF Statuses, Busy
    <3> QED
      BY <1>1, <3>1, <3>2
  <2>3. status = "error" => Faults # {}
    BY DEF FaultsExplain
  <2>4. stage["disposing"] # "idle" /\ stage'["disposing"] # "idle"
    BY <1>1
  <2> QED
    BY <1>1, <2>1, <2>2, <2>3, <2>4 DEF Contract!Next, Contract!BeginDisposal
<1> QED
  BY <1>2, <1>3

\* The disposal phase releases parts while the status is disposing.
LEMMA DisposePhaseRefines ==
  ASSUME WInv, NEW t \in Transitions,
         DisposeCallbackSettles(t) \/ DisposeKernelSettles(t) \/ ServicesSettle(t)
  PROVE  Contract!Next \/ UNCHANGED Contract!contractVars
<1> USE DEF WInv, IInv, TypeOK, Stages
<1>1. t = "disposing" /\ phase[t] = "dispose"
  BY DEF DisposeCallbackSettles, DisposeKernelSettles, ServicesSettle, StagesFit
<1>2. status' = status /\ stage["disposing"] # "idle" /\ stage'["disposing"] # "idle"
  BY <1>1 DEF DisposeCallbackSettles, DisposeKernelSettles, ServicesSettle
<1>3. CASE DisposeCallbackSettles(t)
  BY <1>2, <1>3, Stutter DEF DisposeCallbackSettles
<1>4. CASE DisposeKernelSettles(t)
  <2>1. status = "disposing"
    BY <1>1, <1>4 DEF DisposeKernelSettles, Announced, Works, StatusOf
  <2>2. released' # {}
    BY <1>4 DEF DisposeKernelSettles
  <2>3. CASE released = {}
    BY <1>2, <2>1, <2>2, <2>3 DEF Contract!Next, Contract!Release
  <2>4. CASE released # {}
    BY <1>2, <2>2, <2>4 DEF Contract!contractVars
  <2> QED
    BY <2>3, <2>4
<1>5. CASE ServicesSettle(t)
  <2>1. released # {} /\ released' # {}
    BY <1>1, <1>5 DEF ServicesSettle, ReleaseFollowsStage
  <2> QED
    BY <1>2, <2>1 DEF Contract!contractVars
<1> QED
  BY <1>3, <1>4, <1>5

\* A scope is announced disposed only after its parts are released.
LEMMA ConcludeRefines ==
  ASSUME WInv, ConcludeDisposal
  PROVE  Contract!Next \/ UNCHANGED Contract!contractVars
<1> USE DEF WInv, IInv, TypeOK, Stages
<1>1. status = "disposing" /\ released # {} /\ stage["disposing"] # "idle"
        /\ stage'["disposing"] # "idle"
  BY DEF ConcludeDisposal, DisposalStatus, ReleaseFollowsStage
<1>2. CASE UNCHANGED <<status, released>>
  BY <1>1, <1>2, Stutter
<1>3. CASE status' = "disposed" /\ released' = released \cup {"telemetry", "parent"}
  <2>1. released' # {}
    BY <1>3
  <2> QED
    BY <1>1, <1>3, <2>1 DEF Contract!Next, Contract!CompleteDisposal
<1> QED
  BY <1>2, <1>3 DEF ConcludeDisposal

\* A failure ends a scope that has not ended.
LEMMA FailureRefines ==
  ASSUME WInv, NEW t \in Transitions, HandleFailure(t)
  PROVE  Contract!Next \/ UNCHANGED Contract!contractVars
<1> USE DEF WInv, IInv, TypeOK, Stages
<1>1. stage[t] = "thrown" /\ status' = "error" /\ Faults # {}
        /\ stage' = [stage EXCEPT ![t] = "rejected"]
  BY DEF HandleFailure, FaultsExplain
<1>2. stage'["disposing"] # "idle" <=> stage["disposing"] # "idle"
  BY <1>1
<1>3. CASE t = "disposing"
  <2>1. status \in {"deactivating", "inactive", "disposing", "disposed"}
    BY <1>1, <1>3 DEF DisposalStatus
  <2>2. released' # {} /\ stage["disposing"] # "idle" /\ stage'["disposing"] # "idle"
    BY <1>1, <1>3 DEF HandleFailure
  <2> QED
    BY <1>1, <2>1, <2>2 DEF Contract!Next, Contract!Fail, Contract!Terminal
<1>4. CASE t # "disposing"
  <2>1. released' = released
    BY <1>4 DEF HandleFailure
  <2>2. status # "disposed"
    BY <1>1, <1>4 DEF DisposalStatus, ReleasedIsLate
  <2>3. CASE status = "error"
    BY <1>1, <1>2, <2>1, <2>3, Stutter
  <2>4. CASE status # "error"
    BY <1>1, <1>2, <2>1, <2>2, <2>4 DEF Contract!Next, Contract!Fail, Contract!Terminal
  <2> QED
    BY <2>3, <2>4
<1> QED
  BY <1>3, <1>4

\* A disposal settles in a terminal status.
LEMMA SettleRefines ==
  ASSUME WInv, NEW t \in Transitions, Settle(t)
  PROVE  Contract!Next \/ UNCHANGED Contract!contractVars
<1> USE DEF WInv, IInv, TypeOK, Stages
<1>1. status' = status /\ released' = released
        /\ stage' = [stage EXCEPT ![t] = "idle"]
  BY DEF Settle
<1>2. CASE t = "disposing"
  <2>1. status \in Contract!Terminal /\ stage["disposing"] # "idle"
    BY <1>2 DEF Settle, Succeeded, DisposalEnds, Contract!Terminal
  <2>2. stage'["disposing"] = "idle"
    BY <1>1, <1>2
  <2> QED
    BY <1>1, <2>1, <2>2 DEF Contract!Next, Contract!SettleDisposal
<1>3. CASE t # "disposing"
  BY <1>1, <1>3, Stutter
<1> QED
  BY <1>2, <1>3

\* A call at most has a disposal accepted, in a scope that has not ended.
LEMMA CallRefines ==
  ASSUME WInv, NEW c \in Callers, Ask(c) \/ ResumeActivate(c)
  PROVE  Contract!Next \/ UNCHANGED Contract!contractVars
<1> USE DEF WInv, IInv, TypeOK, Stages
<1>1. /\ UNCHANGED <<status, phase, failed, released>>
      /\ \/ UNCHANGED stage
         \/ \E t \in Transitions : /\ stage[t] = "idle"
                                   /\ stage' = [stage EXCEPT ![t] = "waiting"]
                                   /\ t = "disposing" => status \notin Terminal
  BY CallStarts
<1>2. CASE UNCHANGED stage
  BY <1>1, <1>2, Stutter
<1>3. ASSUME NEW t \in Transitions, stage[t] = "idle",
             stage' = [stage EXCEPT ![t] = "waiting"],
             t = "disposing" => status \notin Terminal
      PROVE  Contract!Next \/ UNCHANGED Contract!contractVars
  <2>1. CASE t = "disposing"
    <3>1. stage["disposing"] = "idle" /\ stage'["disposing"] # "idle"
            /\ status \notin Contract!Terminal
      BY <1>3, <2>1 DEF Terminal, Contract!Terminal
    <3> QED
      BY <1>1, <3>1 DEF Contract!Next, Contract!AcceptDisposal
  <2>2. CASE t # "disposing"
    BY <1>1, <1>3, <2>2, Stutter
  <2> QED
    BY <2>1, <2>2
<1> QED
  BY <1>1, <1>2, <1>3

\* Every step of a scope is a step of the contract, or none.
LEMMA StepRefines == WInv /\ [Next]_vars => [Contract!Next]_Contract!contractVars
<1> SUFFICES ASSUME WInv, [Next]_vars
             PROVE  Contract!Next \/ UNCHANGED Contract!contractVars
  OBVIOUS
<1>1. ASSUME NEW t \in Transitions, Run(t)
      PROVE  Contract!Next \/ UNCHANGED Contract!contractVars
  <2>1. Begin(t) => t \in Regular
    BY DEF Begin
  <2> QED
    BY <1>1, <2>1, RegularBeginRefines, PhaseRefines, BeginDisposalRefines,
       DisposePhaseRefines, ConcludeRefines, FailureRefines, SettleRefines DEF Run
<1>2. ASSUME NEW c \in Callers, Ask(c) \/ ResumeActivate(c)
      PROVE  Contract!Next \/ UNCHANGED Contract!contractVars
  BY <1>2, CallRefines
<1>3. CASE UNCHANGED vars
  BY <1>3 DEF vars, Contract!contractVars
<1> QED
  BY <1>1, <1>2, <1>3 DEF Next

\* The status of a scope walks the lifecycle diagram, parts are released only
\* while it is disposing, and an accepted disposal settles in a terminal
\* status, for any calls and any faults (Executable.ts against the lifecycle
\* of its charter).
THEOREM ScopeKeepsContract ==
  Spec => Contract!Init /\ [][Contract!Next]_Contract!contractVars
<1>1. Init => Contract!Init
  BY DEF Init, Contract!Init
<1> QED
  BY <1>1, InductiveWInv, StepRefines, PTL DEF Spec

-----------------------------------------------------------------------------
(* What an answer means.                                                   *)

\* A transition runs the phases of its own method.
PhasesFit ==
  /\ phase["initializing"] \in {"none", "create", "initialize"}
  /\ phase["activating"] \in {"none", "activate"}
  /\ phase["deactivating"] \in {"none", "deactivate"}

\* activate() is not on its way in a scope that nobody has begun to initialize.
Begun ==
  InFlight("activating") \/ (\E c \in Callers : call[c] = "resuming") =>
    Overtaken \/ status # "created"

\* What a transition that returned will answer stays true until it does.
Kept == \A t \in Regular : stage[t] = "returned" => Honest(t)

AInv == PhasesFit /\ Begun /\ Kept

\* A scope whose disposal has begun stays overtaken: the disposal ends it.
LEMMA OvertakenStays ==
  ASSUME WInv, NEW t \in Transitions, Run(t), Overtaken
  PROVE  Overtaken'
<1> USE DEF WInv, IInv, TypeOK, Stages, Overtaken, Terminal
<1>1. CASE Settle(t)
  <2>1. /\ status' = status /\ stage' = [stage EXCEPT ![t] = "idle"]
        /\ t = "disposing" => stage[t] \in {"fulfilled", "rejected"}
    BY <1>1 DEF Settle, Succeeded
  <2>2. t = "disposing" => status \in {"disposed", "error"}
    BY <2>1 DEF DisposalEnds
  <2> QED
    BY <2>1, <2>2
<1>2. CASE ~Settle(t)
  <2>1. PICK s \in Stages \ {"idle", "waiting"} : stage' = [stage EXCEPT ![t] = s]
    BY <1>2, RunStep
  <2>2. CASE InFlight("disposing")
    BY <2>1, <2>2
  <2>3. CASE ~InFlight("disposing") /\ status \in {"disposed", "error"}
    <3>1. ~BeginDisposal /\ ~ConcludeDisposal
      BY <2>3 DEF BeginDisposal, ConcludeDisposal, Waited
    <3>2. ~Begin(t)
      BY <2>3 DEF Begin, Eligible
    <3>3. Works(t) => phase[t] # "none" /\ status = StatusOf(phase[t])
      BY DEF Announced, StagesFit, Works
    <3>4. ~Works(t)
      BY <2>3, <3>3 DEF StatusOf, Phases
    <3>5. status' = status \/ status' = "error"
      BY <1>2, <3>1, <3>2, <3>4
         DEF Run, Cancel, CallbackReturns, HookThrows, Created, KernelReturns, Works,
             DisposeCallbackSettles, DisposeKernelSettles, ServicesSettle, HandleFailure
    <3> QED
      BY <2>3, <3>5
  <2> QED
    BY <2>2, <2>3
<1> QED
  BY <1>1, <1>2

\* A regular transition that waits no longer is alone, as long as no disposal is
\* in flight.
LEMMA AloneInFlight ==
  ASSUME WInv, ~InFlight("disposing"), NEW t \in Regular, InFlight(t), waits[t] = {},
         NEW u \in Transitions, Run(u)
  PROVE  u = t
<1> USE DEF WInv, IInv, TypeOK, WaitsAreLive, LaterAwaitsEarlier
<1> SUFFICES ASSUME u # t PROVE FALSE
  OBVIOUS
<1>1. u # "disposing"
  BY DEF Run, Begin, Cancel, CallbackReturns, HookThrows, Created, KernelReturns,
         DisposeCallbackSettles, DisposeKernelSettles, ServicesSettle, BeginDisposal,
         ConcludeDisposal, HandleFailure, Settle, Succeeded, Waited
<1>2. InFlight(u) => waits[u] # {} /\ stage[u] = "waiting"
  BY <1>1
<1>3. ~Waited(u) /\ stage[u] \in {"idle", "waiting"}
  BY <1>2 DEF Waited
<1> QED
  BY <1>1, <1>3 DEF Run, Begin, Cancel, CallbackReturns, HookThrows, Created, KernelReturns,
     DisposeCallbackSettles, DisposeKernelSettles, ServicesSettle, HandleFailure, Settle,
     Succeeded

\* A transition that may look at the status again finds no work going on.
LEMMA NothingGoesOn ==
  ASSUME WInv, ~Overtaken, NEW t \in Regular, Waited(t)
  PROVE  status \in {"created", "initialized", "active", "inactive"}
<1> USE DEF WInv, IInv, TypeOK
<1>1. ASSUME status \in Busy PROVE FALSE
  <2>1. PICK u \in Transitions : Occupied(u)
    BY <1>1 DEF BusyHasWorker
  <2>2. u # t /\ u \in Regular
    BY <2>1 DEF Occupied, Works, Waited, Overtaken
  <2>3. waits[u] = {} /\ waits[t] = {} /\ InFlight(u) /\ InFlight(t)
    BY <2>1 DEF WaitsAreLive, Occupied, Works, Waited
  <2> QED
    BY <2>2, <2>3 DEF LaterAwaitsEarlier
<1> QED
  BY <1>1 DEF Statuses, Overtaken, Terminal, Busy

\* Every transition keeps to the phases of its method.
LEMMA RunPhasesFit ==
  ASSUME WInv, PhasesFit, NEW t \in Transitions, Run(t)
  PROVE  PhasesFit'
<1> USE DEF WInv, IInv, TypeOK, PhasesFit
<1>1. CASE Begin(t)
  BY <1>1 DEF Begin, BeginPhase, FirstPhase
<1>2. CASE Created(t)
  <2>1. t # "disposing" /\ (t = "initializing" \/ phase[t] # "create")
    BY <1>2 DEF Created, StagesFit
  <2> QED
    BY <1>2, <2>1 DEF Created, BeginPhase
<1>3. CASE t = "disposing" /\ BeginDisposal
  BY <1>3 DEF BeginDisposal, BeginPhase
<1>4. CASE ~Begin(t) /\ ~Created(t) /\ ~(t = "disposing" /\ BeginDisposal)
  <2>1. phase' = phase
    BY <1>4 DEF Run, Cancel, CallbackReturns, HookThrows, KernelReturns, DisposeCallbackSettles,
       DisposeKernelSettles, ServicesSettle, ConcludeDisposal, HandleFailure, Settle
  <2> QED
    BY <2>1
<1> QED
  BY <1>1, <1>2, <1>3, <1>4

\* The way into activate() stays behind a scope that is no longer only created.
LEMMA RunBegun ==
  ASSUME WInv, AInv, NEW t \in Transitions, Run(t)
  PROVE  Begun'
<1> USE DEF WInv, IInv, TypeOK, Stages
<1>1. Overtaken => Overtaken'
  BY OvertakenStays
<1>2. status # "created" => status' # "created"
  BY DEF Run, Begin, Cancel, CallbackReturns, HookThrows, Created, KernelReturns,
     DisposeCallbackSettles, DisposeKernelSettles, ServicesSettle, BeginDisposal,
     ConcludeDisposal, HandleFailure, Settle, BeginPhase, StatusOf, StatusAfter, FirstPhase
<1>3. InFlight("activating")' => InFlight("activating")
  <2>1. CASE Settle(t)
    BY <2>1 DEF Settle
  <2>2. CASE ~Settle(t)
    BY <2>2, RunStep
  <2> QED
    BY <2>1, <2>2
<1>4. ASSUME NEW c \in Callers, call'[c] = "resuming", call[c] # "resuming"
      PROVE  Overtaken' \/ status' # "created"
  <2>1. Settle(t)
    BY <1>4 DEF Run, Begin, Cancel, CallbackReturns, HookThrows, Created, KernelReturns,
       DisposeCallbackSettles, DisposeKernelSettles, ServicesSettle, BeginDisposal,
       ConcludeDisposal, HandleFailure
  <2>2. t = "initializing" /\ stage[t] = "returned" /\ status' = status
    BY <1>4, <2>1 DEF Settle, Outcome, Succeeded
  <2>3. Overtaken \/ status # "created"
    BY <2>2 DEF AInv, Kept, Honest
  <2> QED
    BY <1>1, <2>2, <2>3
<1> QED
  BY <1>1, <1>2, <1>3, <1>4 DEF AInv, Begun

\* What a transition returns with, and what it returned with before.
LEMMA RunKept ==
  ASSUME WInv, AInv, NEW t \in Transitions, Run(t)
  PROVE  Kept'
<1> USE DEF WInv, IInv, TypeOK, Stages
<1> SUFFICES ASSUME NEW u \in Regular, stage'[u] = "returned", ~Overtaken'
             PROVE  Honest(u)'
  BY DEF Kept, Honest
<1>1. ~Overtaken
  BY OvertakenStays
<1>2. CASE stage[u] # "returned"
  <2>1. ~Settle(t)
    BY <1>2 DEF Settle
  <2>2. u = t
    BY <1>2, <2>1, RunStep
  <2>3. Cancel(t) \/ KernelReturns(t)
    BY <1>2, <2>1, <2>2 DEF StagesFit, Run, Begin, CallbackReturns, HookThrows, Created,
       DisposeCallbackSettles, DisposeKernelSettles, ServicesSettle, HandleFailure, BeginPhase
  <2>4. CASE Cancel(t)
    <3>1. status' = status /\ Waited(t) /\ ~Eligible(t)
      BY <2>4 DEF Cancel
    <3>2. status \in {"created", "initialized", "active", "inactive"}
      BY <1>1, <2>2, <3>1, NothingGoesOn
    <3>3. u = "initializing" => status # "created"
      BY <1>1, <2>2, <3>1 DEF Eligible, Overtaken
    <3>4. u = "activating" => status = "active"
      BY <1>1, <2>2, <3>1, <3>2 DEF Eligible, Overtaken, AInv, Begun, Waited
    <3>5. u = "deactivating" => status # "active"
      BY <1>1, <2>2, <3>1 DEF Eligible, Overtaken
    <3> QED
      BY <3>1, <3>2, <3>3, <3>4, <3>5 DEF Honest
  <2>5. CASE KernelReturns(t)
    BY <2>2, <2>5 DEF KernelReturns, StatusAfter, AInv, PhasesFit, Honest
  <2> QED
    BY <2>3, <2>4, <2>5
<1>3. CASE stage[u] = "returned"
  <2>1. u = t
    BY <1>1, <1>3, AloneInFlight DEF WaitsAreLive, Overtaken
  <2>2. FALSE
    BY <1>3, <2>1 DEF Run, Begin, Cancel, CallbackReturns, HookThrows, Created, KernelReturns,
       DisposeCallbackSettles, DisposeKernelSettles, ServicesSettle, HandleFailure, Settle,
       BeginPhase, Waited
  <2> QED
    BY <2>2
<1> QED
  BY <1>2, <1>3

\* A call changes no status, and activate() is only begun after initialize().
LEMMA CallAInv ==
  ASSUME WInv, AInv, NEW c \in Callers, Ask(c) \/ ResumeActivate(c)
  PROVE  AInv'
<1> USE DEF WInv, IInv, TypeOK, Stages
<1>1. UNCHANGED <<status, phase>>
  BY CallEffect
<1>2. \/ UNCHANGED stage
      \/ \E t \in Transitions : stage[t] = "idle" /\ stage' = [stage EXCEPT ![t] = "waiting"]
  BY CallEffect, StartOrJoinEffect
<1>3. Overtaken => Overtaken'
  BY <1>1, <1>2 DEF Overtaken
<1>4. \A d \in Callers : call'[d] = "resuming" => call[d] = "resuming"
  BY DEF Ask, Refuse, RequestActivate, Request, ResumeActivate
<1>5. stage'["activating"] # "idle" /\ stage["activating"] = "idle" =>
        status # "created" \/ call[c] = "resuming"
  BY DEF Ask, Refuse, RequestActivate, Request, ResumeActivate, StartOrJoin, Start
<1>6. Begun'
  BY <1>1, <1>3, <1>4, <1>5 DEF AInv, Begun
<1>7. \A t \in Regular : stage'[t] = "returned" => stage[t] = "returned"
  BY <1>2
<1>8. Kept'
  BY <1>1, <1>3, <1>7 DEF AInv, Kept, Honest
<1>9. PhasesFit'
  BY <1>1 DEF AInv, PhasesFit
<1> QED
  BY <1>6, <1>8, <1>9 DEF AInv

\* Whoever awaits a method, and whatever else is called meanwhile: when the promise
\* resolves, the status is what the method promises, or a disposal has begun.
THEOREM HonestAnswers == Spec => AnswersAreHonest
<1>1. Init => AInv
  BY DEF Init, AInv, PhasesFit, Begun, Kept
<1>2. WInv /\ AInv /\ [Next]_vars => AInv'
  <2> SUFFICES ASSUME WInv, AInv, [Next]_vars PROVE AInv'
    OBVIOUS
  <2>1. ASSUME NEW t \in Transitions, Run(t) PROVE AInv'
    BY <2>1, RunPhasesFit, RunBegun, RunKept DEF AInv
  <2>2. ASSUME NEW c \in Callers, Ask(c) \/ ResumeActivate(c) PROVE AInv'
    BY <2>2, CallAInv
  <2>3. CASE UNCHANGED vars
    BY <2>3 DEF vars, AInv, PhasesFit, Begun, Kept, Honest, Overtaken
  <2> QED
    BY <2>1, <2>2, <2>3 DEF Next
<1>3. WInv /\ AInv /\ [Next]_vars =>
        [\A c \in Callers, t \in Transitions :
           call[c] = t /\ call'[c] = "resolved" => Honest(t)]_vars
  <2> SUFFICES ASSUME WInv, AInv, Next, NEW c \in Callers, NEW t \in Transitions,
                      call[c] = t, call'[c] = "resolved"
               PROVE  Honest(t)
    OBVIOUS
  <2> USE DEF WInv, IInv, TypeOK
  <2>1. ASSUME NEW d \in Callers, Ask(d) \/ ResumeActivate(d) PROVE FALSE
    BY <2>1 DEF Ask, Refuse, RequestActivate, Request, ResumeActivate
  <2>2. PICK u \in Transitions : Run(u)
    BY <2>1 DEF Next
  <2>3. Settle(u)
    BY <2>2 DEF Run, Begin, Cancel, CallbackReturns, HookThrows, Created, KernelReturns,
       DisposeCallbackSettles, DisposeKernelSettles, ServicesSettle, BeginDisposal,
       ConcludeDisposal, HandleFailure
  <2>4. u = t /\ Succeeded(t)
    BY <2>3 DEF Settle, Outcome
  <2>5. CASE t = "disposing"
    BY <2>4, <2>5 DEF Succeeded, DisposalEnds, Honest
  <2>6. CASE t # "disposing"
    BY <2>4, <2>6 DEF Succeeded, AInv, Kept
  <2> QED
    BY <2>5, <2>6
<1> QED
  BY <1>1, <1>2, <1>3, InductiveWInv, PTL DEF Spec, AnswersAreHonest
=============================================================================
