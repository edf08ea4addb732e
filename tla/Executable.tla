----------------------------- MODULE Executable -----------------------------
(***************************************************************************)
(* The lifecycle of one executable scope (classes/Executable.ts).          *)
(*                                                                         *)
(* Four transitions can be in flight at once, each in its slot of          *)
(* EXECUTABLE_TRANSITIONS.  A transition first waits for the conflicting   *)
(* ones it found in their slots, then looks at the status again, then runs *)
(* its phases: in each the callback of the specialization and the hook of  *)
(* the kernel, both awaited.  A step of this module is what runs between   *)
(* two awaits.  Calls arrive between any two steps, so they also stand for *)
(* the calls a callback, a hook or a listener makes without awaiting them. *)
(*                                                                         *)
(* The order of the microtasks of independent promises is not modelled:    *)
(* continuations that are ready run in any order.                          *)
(***************************************************************************)
EXTENDS FiniteSets

CONSTANTS
  Callers,  \* the pieces of code that call lifecycle methods
  Faults    \* where a callback, a hook, a listener or a cleanup may throw

Transitions == {"initializing", "activating", "deactivating", "disposing"}
Phases == {"create", "initialize", "activate", "deactivate", "dispose"}
FaultPoints == Phases \cup {"render", "listener", "release"}

ASSUME FaultsAssumption == Faults \subseteq FaultPoints

VARIABLES
  status,   \* EXECUTABLE_STATUS
  stage,    \* how far the transition of each slot is; "idle": slot is null
  phase,    \* the phase each transition runs or ran last
  waits,    \* the transitions whose promises each transition still awaits
  failed,   \* runDisposalPhase holds a first failure
  released, \* the owned parts whose disposal has been attempted
  call      \* what each caller awaits, or how its last call was answered

vars == <<status, stage, phase, waits, failed, released, call>>

Statuses == {"created", "creating", "initializing", "initialized", "activating",
             "active", "deactivating", "inactive", "disposing", "disposed", "error"}
Terminal == {"disposed", "error"}
Parts == {"kernel", "plugins", "services", "telemetry", "parent"}
Hooks == {"callback", "kernel"}
Stages == {"idle", "waiting", "services", "returned", "thrown", "fulfilled",
           "rejected"} \cup Hooks
Answered == {"none", "resolved", "rejected"}

InFlight(t) == stage[t] # "idle"

\* The transition runs one of its phases.
Works(t) == stage[t] \in Hooks \cup {"services"}
-----------------------------------------------------------------------------
(* Starting a transition: the body runs up to its first await.             *)

\* Mutant: dispose() does not wait for an activation in flight.
DisposeIgnoresActivation(t) ==
  IF t = "disposing" THEN {"initializing", "deactivating"}
                     ELSE Transitions \ {t, "disposing"}

\* Mutant: activate() does not wait for a deactivation in flight.
ActivateIgnoresDeactivation(t) ==
  IF t = "activating" THEN {"initializing"} ELSE Transitions \ {t, "disposing"}

\* The slots a transition reads before it waits.
ConflictsOf(t) ==
  CASE t = "initializing" -> {"activating", "deactivating"}
    [] t = "activating"   -> {"initializing", "deactivating"}
    [] t = "deactivating" -> {"initializing", "activating"}
    [] t = "disposing"    -> {"initializing", "activating", "deactivating"}

Start(t) ==
  /\ stage' = [stage EXCEPT ![t] = "waiting"]
  /\ waits' = [waits EXCEPT ![t] = {u \in ConflictsOf(t) : InFlight(u)}]

\* The call joins the transition in flight, or starts one, and awaits it.
StartOrJoin(t) ==
  IF InFlight(t) THEN UNCHANGED <<stage, waits>> ELSE Start(t)

Free(c) == call[c] \in Answered
Answer(c, a) == call' = [call EXCEPT ![c] = a]

\* ensureNotTerminal, and the explicit check of dispose(), reject a call.
Refuse(c) ==
  /\ Free(c) /\ status \in Terminal
  /\ Answer(c, "rejected")
  /\ UNCHANGED <<status, stage, phase, waits, failed, released>>

\* initialize(), deactivate() and dispose(): t is the slot of the method.
Request(c, t) ==
  /\ Free(c) /\ status \notin Terminal
  /\ t # "activating"
  /\ StartOrJoin(t)
  /\ Answer(c, t)
  /\ UNCHANGED <<status, phase, failed, released>>

\* activate() awaits initialize() first in a created scope.
RequestActivate(c) ==
  /\ Free(c) /\ status \notin Terminal
  /\ IF status = "created"
     THEN StartOrJoin("initializing") /\ Answer(c, "viaInitialize")
     ELSE StartOrJoin("activating") /\ Answer(c, "activating")
  /\ UNCHANGED <<status, phase, failed, released>>

\* activate() goes on after its own initialize(), without another look at the
\* status.  A disposed telemetry refuses the timer of a new transition.
ResumeActivate(c) ==
  /\ call[c] = "resuming"
  /\ IF ~InFlight("activating") /\ "telemetry" \in released
     THEN Answer(c, "rejected") /\ UNCHANGED <<stage, waits>>
     ELSE StartOrJoin("activating") /\ Answer(c, "activating")
  /\ UNCHANGED <<status, phase, failed, released>>
-----------------------------------------------------------------------------
(* The phases.                                                             *)

\* The status a phase sets when it starts.
StatusOf(p) ==
  CASE p = "create"     -> "creating"
    [] p = "initialize" -> "initializing"
    [] p = "activate"   -> "activating"
    [] p = "deactivate" -> "deactivating"
    [] p = "dispose"    -> "disposing"

BeginPhase(t, p) ==
  /\ status' = StatusOf(p)
  /\ phase' = [phase EXCEPT ![t] = p]
  /\ stage' = [stage EXCEPT ![t] = "callback"]

\* Mutant: the second look does not ask for a pending disposal.
EligibleDespiteDisposal(t) ==
  CASE t = "initializing" -> status = "created"
    [] t = "activating"   -> status \in {"initialized", "inactive"}
    [] t = "deactivating" -> status = "active"

\* The second look at the status, once the conflicting transitions settled.
Eligible(t) ==
  /\ ~InFlight("disposing")
  /\ CASE t = "initializing" -> status = "created"
       [] t = "activating"   -> status \in {"initialized", "inactive"}
       [] t = "deactivating" -> status = "active"

FirstPhase(t) ==
  CASE t = "initializing" -> "create"
    [] t = "activating"   -> "activate"
    [] t = "deactivating" -> "deactivate"

\* Mutant: the slots are read again instead of the captured promises.
WaitedOnSlots(t) ==
  stage[t] = "waiting" /\ \A u \in ConflictsOf(t) : ~InFlight(u)

\* The allSettled of the captured promises is over.
Waited(t) == stage[t] = "waiting" /\ waits[t] = {}

Begin(t) ==
  /\ t # "disposing" /\ Waited(t) /\ Eligible(t)
  /\ BeginPhase(t, FirstPhase(t))
  /\ UNCHANGED <<waits, failed, released, call>>

\* timer.cancel(): the transition returns without having done anything.
Cancel(t) ==
  /\ t # "disposing" /\ Waited(t) /\ ~Eligible(t)
  /\ stage' = [stage EXCEPT ![t] = "returned"]
  /\ UNCHANGED <<status, phase, waits, failed, released, call>>

\* dispose() deactivates an active scope first; it does not look for any
\* other status, and it goes on after that deactivation.
BeginDisposal ==
  /\ \/ Waited("disposing")
     \/ stage["disposing"] = "returned" /\ phase["disposing"] = "deactivate"
  /\ IF stage["disposing"] = "waiting" /\ status = "active"
     THEN BeginPhase("disposing", "deactivate")
     ELSE BeginPhase("disposing", "dispose")
  /\ UNCHANGED <<waits, failed, released, call>>

\* The callback of the specialization returned: the kernel hook is next.
CallbackReturns(t) ==
  /\ stage[t] = "callback"
  /\ stage' = [stage EXCEPT ![t] = "kernel"]
  /\ UNCHANGED <<status, phase, waits, failed, released, call>>

\* A failure outside the disposal phase abandons the rest of the transition.
HookThrows(t) ==
  /\ stage[t] \in Hooks /\ phase[t] \in Faults \ {"dispose"}
  /\ stage' = [stage EXCEPT ![t] = "thrown"]
  /\ UNCHANGED <<status, phase, waits, failed, released, call>>

\* The kernel created the scope: the renderable is composed, and the second
\* phase of initialize() begins.
Created(t) ==
  /\ stage[t] = "kernel" /\ phase[t] = "create"
  /\ \/ BeginPhase(t, "initialize")
     \/ /\ "render" \in Faults
        /\ stage' = [stage EXCEPT ![t] = "thrown"]
        /\ UNCHANGED <<status, phase>>
  /\ UNCHANGED <<waits, failed, released, call>>

\* The status a phase ends with, announced to listeners that may throw.
StatusAfter(p) ==
  CASE p = "initialize" -> "initialized"
    [] p = "activate"   -> "active"
    [] p = "deactivate" -> "inactive"

KernelReturns(t) ==
  /\ stage[t] = "kernel" /\ phase[t] \in {"initialize", "activate", "deactivate"}
  /\ status' = StatusAfter(phase[t])
  /\ \E end \in {"returned"} \cup {s \in {"thrown"} : "listener" \in Faults} :
        stage' = [stage EXCEPT ![t] = end]
  /\ UNCHANGED <<phase, waits, failed, released, call>>

\* runDisposalPhase: a callback or a hook that throws does not stop the
\* cleanup, it only leaves a failure behind.
MayFail(p) == failed' \in {failed} \cup {f \in {TRUE} : p \in Faults}

DisposeCallbackSettles(t) ==
  /\ stage[t] = "callback" /\ phase[t] = "dispose"
  /\ stage' = [stage EXCEPT ![t] = "kernel"]
  /\ MayFail("dispose")
  /\ UNCHANGED <<status, phase, waits, released, call>>

\* The kernel hook settled: the runner of the kernel and the plugin container
\* are disposed in one go, the service container's disposal is awaited.
DisposeKernelSettles(t) ==
  /\ stage[t] = "kernel" /\ phase[t] = "dispose"
  /\ stage' = [stage EXCEPT ![t] = "services"]
  /\ released' = released \cup {"kernel", "plugins"}
  /\ MayFail("dispose") \/ MayFail("release")
  /\ UNCHANGED <<status, phase, waits, call>>

ServicesSettle(t) ==
  /\ stage[t] = "services"
  /\ released' = released \cup {"services"}
  /\ MayFail("release")
  /\ stage' = [stage EXCEPT ![t] = IF failed' THEN "thrown" ELSE "returned"]
  /\ UNCHANGED <<status, phase, waits, call>>
-----------------------------------------------------------------------------
(* The promise chain around the body: then, catch, finally.                *)

\* The scope is disposed and announced.  A telemetry that cannot be disposed,
\* or a listener that throws, sends the chain to its catch.
ConcludeDisposal ==
  /\ stage["disposing"] = "returned" /\ phase["disposing"] = "dispose"
  /\ \/ /\ "release" \in Faults
        /\ stage' = [stage EXCEPT !["disposing"] = "thrown"]
        /\ UNCHANGED <<status, released>>
     \/ /\ released' = released \cup {"telemetry", "parent"}
        /\ status' = "disposed"
        /\ \E end \in {"fulfilled"} \cup {s \in {"thrown"} : "listener" \in Faults} :
              stage' = [stage EXCEPT !["disposing"] = end]
  /\ UNCHANGED <<phase, waits, failed, call>>

\* handleFatalError; dispose() releases what is left of its own first.  What
\* error callbacks and listeners throw is swallowed.
HandleFailure(t) ==
  /\ stage[t] = "thrown"
  /\ released' = IF t = "disposing" THEN released \cup {"telemetry", "parent"}
                                    ELSE released
  /\ status' = "error"
  /\ stage' = [stage EXCEPT ![t] = "rejected"]
  /\ UNCHANGED <<phase, waits, failed, call>>

Succeeded(t) == stage[t] = IF t = "disposing" THEN "fulfilled" ELSE "returned"

\* What the promise of a slot means to a caller that awaits it.
Outcome(t, c) ==
  CASE call[c] = t -> IF Succeeded(t) THEN "resolved" ELSE "rejected"
    [] call[c] = "viaInitialize" /\ t = "initializing" ->
         IF Succeeded(t) THEN "resuming" ELSE "rejected"
    [] OTHER -> call[c]

\* finally: the slot is null again, and everybody who awaited it goes on.
Settle(t) ==
  /\ Succeeded(t) \/ stage[t] = "rejected"
  /\ stage' = [stage EXCEPT ![t] = "idle"]
  /\ waits' = [u \in Transitions |-> waits[u] \ {t}]
  /\ call' = [c \in Callers |-> Outcome(t, c)]
  /\ UNCHANGED <<status, phase, failed, released>>
-----------------------------------------------------------------------------
Init ==
  /\ status = "created"
  /\ stage = [t \in Transitions |-> "idle"]
  /\ phase = [t \in Transitions |-> "none"]
  /\ waits = [t \in Transitions |-> {}]
  /\ failed = FALSE
  /\ released = {}
  /\ call = [c \in Callers |-> "none"]

\* What one transition does by itself.
Run(t) ==
  \/ Begin(t) \/ Cancel(t) \/ CallbackReturns(t) \/ HookThrows(t)
  \/ Created(t) \/ KernelReturns(t)
  \/ DisposeCallbackSettles(t) \/ DisposeKernelSettles(t) \/ ServicesSettle(t)
  \/ t = "disposing" /\ (BeginDisposal \/ ConcludeDisposal)
  \/ HandleFailure(t) \/ Settle(t)

\* What a caller does.
Ask(c) ==
  Refuse(c) \/ RequestActivate(c) \/ \E t \in Transitions : Request(c, t)

Next == (\E t \in Transitions : Run(t))
          \/ \E c \in Callers : Ask(c) \/ ResumeActivate(c)

\* The runtime runs every continuation that is ready, and every callback and
\* hook settles.  Nobody has to call.
Fairness == /\ \A t \in Transitions : WF_vars(Run(t))
            /\ \A c \in Callers : WF_vars(ResumeActivate(c))

Spec == Init /\ [][Next]_vars /\ Fairness
-----------------------------------------------------------------------------
(* Invariants.                                                             *)

\* Every variable keeps to its kind.
TypeOK ==
  /\ status \in Statuses
  /\ stage \in [Transitions -> Stages]
  /\ phase \in [Transitions -> Phases \cup {"none"}]
  /\ waits \in [Transitions -> SUBSET Transitions]
  /\ failed \in BOOLEAN
  /\ released \in SUBSET Parts
  /\ call \in [Callers -> Answered \cup Transitions \cup {"viaInitialize", "resuming"}]

\* However calls interleave, phases of two transitions never overlap: the
\* waits of the allSettled calls and the second look at the status exclude it.
OneWorker == \A t, u \in Transitions : Works(t) /\ Works(u) => t = u

Busy == {"creating", "initializing", "activating", "deactivating", "disposing"}

\* The transition runs a phase, or is on its way from it to the step that
\* changes the status.
Occupied(t) == \/ Works(t) \/ stage[t] = "thrown"
               \/ t = "disposing" /\ stage[t] = "returned"

\* A status that says work is going on is never left behind: a transition
\* runs that very phase.
BusyHasWorker ==
  status \in Busy =>
    \E t \in Transitions : /\ Occupied(t) /\ phase[t] # "none"
                           /\ StatusOf(phase[t]) = status

\* No callback and no kernel hook of a phase runs once the runner of the kernel
\* has been disposed, so no late transition reaches a runner that refuses it.
NothingRunsOnReleased ==
  "kernel" \in released => \A t \in Transitions : stage[t] \notin Hooks

\* A disposal that reached its disposal phase has attempted to release every
\* owned part when it settles, whatever failed in between.
CleanupContinues ==
  /\ stage["disposing"] \in {"fulfilled", "rejected"}
  /\ phase["disposing"] = "dispose"
  => released = Parts
-----------------------------------------------------------------------------
(* Action properties.                                                      *)

\* What a caller may conclude from a promise that resolved: the status fits
\* the method, unless a disposal is in flight or the scope has ended.
Overtaken == InFlight("disposing") \/ status \in Terminal
Honest(t) ==
  CASE t = "initializing" -> Overtaken \/ status \notin {"created", "creating", "initializing"}
    [] t = "activating"   -> Overtaken \/ status = "active"
    [] t = "deactivating" -> Overtaken \/ status \notin {"activating", "active", "deactivating"}
    [] t = "disposing"    -> status = "disposed"

AnswersAreHonest ==
  [][\A c \in Callers, t \in Transitions :
       call[c] = t /\ call'[c] = "resolved" => Honest(t)]_vars

-----------------------------------------------------------------------------
(* Liveness and refinement.                                                *)

\* No call waits forever: the transitions never wait for each other in a
\* circle, whatever is called while they are in flight.
EveryCallIsAnswered ==
  \A c \in Callers : ~Free(c) ~> Free(c)

\* A scope whose slots are all null and whose status is terminal has ended for
\* good: nothing that is still queued, and no later call, revives it.
Settled(s) == status = s /\ \A t \in Transitions : ~InFlight(t)
SettledIsFinal ==
  \A s \in Terminal : [](Settled(s) => [](status = s))

\* The lifecycle diagram, with what the code adds to it when something throws
\* while a disposal is in flight.
Contract == INSTANCE ExecutableContract WITH
  LateDisposal <- Faults # {},
  ending <- InFlight("disposing"),
  intact <- released = {}
ImplementsContract == Contract!Spec
-----------------------------------------------------------------------------
(* What the charter of the executable says and the code does not do.       *)

\* "disposed and error are terminal": a scope that failed stays failed.
ErrorIsFinal == [][status = "error" => status' = "error"]_status

\* "Disposal attempts the callback, kernel hook, kernel runner, plugin
\* container, service container, telemetry, and parent detachment."
CleanupIsComplete ==
  stage["disposing"] \in {"fulfilled", "rejected"} => released = Parts

\* "Kernels always receive ... dispose, and error": the runner of the kernel
\* can still run its error hook when the scope fails.
KernelHearsOfErrors ==
  [][status # "error" /\ status' = "error" => "kernel" \notin released]_vars
=============================================================================
