----------------------------- MODULE Activities -----------------------------
(***************************************************************************)
(* The tree of activities an application runs: launching one from an       *)
(* intent (IntentRegistry.createAndActivateActivity), its handler, and     *)
(* disposing it with everything below it (Activity.dispose).               *)
(*                                                                         *)
(* The lifecycle of an activity is the one of module Executable, seen from *)
(* this code: a phase is one step, and the deactivation of a disposal is   *)
(* part of its disposal phase.  Calls of dispose() come from code that     *)
(* holds an activity and from the launcher, when a handler fails; the      *)
(* calls they make on the children belong to the same origin.              *)
(***************************************************************************)
EXTENDS Naturals, FiniteSets, SequencesExt

CONSTANTS
  Activities,  \* the activities that may be launched
  Users,       \* the code that calls dispose(), once each
  App,         \* the application, parent of the root activities
  Places,      \* the pairs of a parent and an activity it may launch
  Faults       \* what may throw

FaultPoints == {"activation", "disposal", "listener", "handler"}

ASSUME ActivitiesAssumption == IsFiniteSet(Activities)
ASSUME FaultsAssumption == Faults \subseteq FaultPoints
ASSUME AppAssumption == App \notin Activities
ASSUME PlacesAssumption == Places \subseteq (Activities \cup {App}) \X Activities
ASSUME UsersAssumption == Users \cap Activities = {}

VARIABLES
  parent,    \* ACTIVITY_PARENT of the activities launched
  status,    \* EXECUTABLE_STATUS
  launching, \* how far createAndActivateActivity is, and then the handler
  ending,    \* how far the transition of dispose() is
  children,  \* ACTIVITY_CHILDREN
  roots,     \* INTENT_REGISTRY_ACTIVITIES
  listed,    \* INTENT_ACTIVITIES of the intents
  open,      \* the activities whose response channel is not complete
  call,      \* the calls of Activity.dispose, by origin and activity
  late       \* history: launched while its parent was being disposed

lifecycle == <<status, launching, ending>>
tracking == <<children, roots, listed>>
vars == <<parent, lifecycle, tracking, open, call, late>>

Origins == Users \cup Activities
Statuses == {"unborn", "created", "initializing", "initialized", "activating",
             "active", "disposing", "disposed", "error"}
Terminal == {"disposed", "error"}
Launchings == {"none", "requested", "initializing", "resuming", "waiting",
               "activating", "resolved", "rejected", "running", "threw"}
Endings == {"none", "waiting", "free", "running", "over"}

Born(a) == status[a] # "unborn"

\* A transition of the activation is in its slot.
Transitioning(a) ==
  launching[a] \in {"requested", "initializing", "waiting", "activating"}
-----------------------------------------------------------------------------
(* Calls of dispose().                                                     *)

\* A call disposes the children of its snapshot, then the activity itself.
Idle == [at |-> "idle", todo |-> <<>>]
Ats == {"idle", "children", "own", "succeeded", "failed", "resolved", "rejected"}
Underway(o, a) == call[o][a].at \notin {"idle", "resolved", "rejected"}

\* Executable.dispose: a terminal activity refuses, the transition in flight
\* is joined, and a new one waits for the activation it finds in its slots.
DisposeOwn(o, calls, a) ==
  /\ call' = [call EXCEPT ![o] = [calls EXCEPT ![a] =
       [at |-> IF status[a] \in Terminal THEN "failed" ELSE "own", todo |-> <<>>]]]
  /\ ending' = [ending EXCEPT ![a] =
       IF status[a] \in Terminal \/ @ # "none" THEN @
       ELSE IF Transitioning(a) THEN "waiting" ELSE "free"]

\* The way a call takes before its first await: down to a first child that
\* has no children.
Descents(a) ==
  {path \in UNION {[1..n -> Activities] : n \in 1..Cardinality(Activities)} :
     /\ path[1] = a /\ children[path[Len(path)]] = <<>>
     /\ \A i \in 1..(Len(path) - 1) :
          children[path[i]] # <<>> /\ path[i + 1] = Head(children[path[i]])}

Dispose(o, calls, a) ==
  \E path \in Descents(a) :
    LET above == {path[i] : i \in 1..(Len(path) - 1)}
        entered == [b \in Activities |->
          IF b \in above THEN [at |-> "children", todo |-> children[b]] ELSE calls[b]]
    IN  DisposeOwn(o, entered, path[Len(path)])

UserDisposes(u, a) ==
  /\ Born(a) /\ call[u] = [b \in Activities |-> Idle]
  /\ Dispose(u, call[u], a)
  /\ UNCHANGED <<parent, status, launching, tracking, open, late>>

\* Mutant: the loop goes on with the activity itself after the first child.
AfterChildSkipsRest(o, a) ==
  /\ call[o][a].at = "children"
  /\ \/ /\ call[o][Head(call[o][a].todo)].at = "rejected"
        /\ call' = [call EXCEPT ![o][a].at = "rejected"]
        /\ UNCHANGED ending
     \/ /\ call[o][Head(call[o][a].todo)].at = "resolved"
        /\ DisposeOwn(o, call[o], a)
  /\ UNCHANGED <<parent, status, launching, tracking, open, late>>

\* The child disposed last settled: a rejection ends the call there and then,
\* else the next child follows, or the activity itself.
AfterChild(o, a) ==
  /\ call[o][a].at = "children"
  /\ LET todo == call[o][a].todo
         outcome == call[o][Head(todo)].at
     IN  \/ /\ outcome = "rejected"
            /\ call' = [call EXCEPT ![o][a].at = "rejected"]
            /\ UNCHANGED ending
         \/ /\ outcome = "resolved" /\ Len(todo) > 1
            /\ Dispose(o, [call[o] EXCEPT ![a].todo = Tail(@)], todo[2])
         \/ /\ outcome = "resolved" /\ Len(todo) = 1
            /\ DisposeOwn(o, call[o], a)
  /\ UNCHANGED <<parent, status, launching, tracking, open, late>>

\* Mutant: the response channel stays open.
CleanUpHalf(o, a) ==
  /\ call[o][a].at \in {"succeeded", "failed"}
  /\ call' = [call EXCEPT ![o][a].at = IF @ = "succeeded" THEN "resolved" ELSE "rejected"]
  /\ children' = [p \in Activities |-> RemoveFirst(children[p], a)]
  /\ listed' = listed \ {a}
  /\ UNCHANGED <<parent, lifecycle, roots, open, late>>

\* finally: cleanup(), whether the own disposal succeeded or not.  A parent has
\* a child in its list once.
CleanUp(o, a) ==
  /\ call[o][a].at \in {"succeeded", "failed"}
  /\ call' = [call EXCEPT ![o][a].at = IF @ = "succeeded" THEN "resolved" ELSE "rejected"]
  /\ children' = [p \in Activities |->
       IF p = parent[a] THEN RemoveFirst(children[p], a) ELSE children[p]]
  /\ listed' = listed \ {a}
  /\ open' = open \ {a}
  /\ UNCHANGED <<parent, lifecycle, roots, late>>
-----------------------------------------------------------------------------
(* The lifecycle of an activity.                                           *)

\* Mutant: the slot of a transition that settled is not cleared.
FreedNever(a) == UNCHANGED ending

\* The transition of the activation settled, and a disposal that waited for
\* it goes on.
Freed(a) == ending' = [ending EXCEPT ![a] = IF @ = "waiting" THEN "free" ELSE @]

\* new Activity and activity.activate().  The infrastructure of a parent that
\* has been disposed refuses to be forked.
Launch(p, a) ==
  /\ <<p, a>> \in Places
  /\ ~Born(a)
  /\ p = App \/ (p \in Activities /\ Born(p) /\ ending[p] # "over")
  /\ parent' = [parent EXCEPT ![a] = p]
  /\ open' \in {open, open \cup {a}}
  /\ status' = [status EXCEPT ![a] = "created"]
  /\ launching' = [launching EXCEPT ![a] = "requested"]
  /\ children' = [b \in Activities |-> IF b = p THEN Append(children[b], a) ELSE children[b]]
  /\ roots' = IF p = App THEN roots \cup {a} ELSE roots
  /\ listed' = listed \cup {a}
  /\ late' = [late EXCEPT ![a] = p # App /\ \E o \in Origins : Underway(o, p)]
  /\ UNCHANGED <<ending, call>>

\* initialize() looks at the status and at a pending disposal again.
BeginInitialization(a) ==
  /\ launching[a] = "requested"
  /\ \/ /\ ending[a] = "none"
        /\ status' = [status EXCEPT ![a] = "initializing"]
        /\ launching' = [launching EXCEPT ![a] = "initializing"]
        /\ UNCHANGED ending
     \/ /\ ending[a] # "none"
        /\ launching' = [launching EXCEPT ![a] = "resuming"]
        /\ Freed(a) /\ UNCHANGED status
  /\ UNCHANGED <<parent, tracking, open, call, late>>

\* A phase of the activation throws: the activity fails and invoke() rejects.
Fail(a) ==
  /\ "activation" \in Faults
  /\ launching[a] \in {"initializing", "activating"}
  /\ status' = [status EXCEPT ![a] = "error"]
  /\ launching' = [launching EXCEPT ![a] = "rejected"]
  /\ Freed(a)
  /\ UNCHANGED <<parent, tracking, open, call, late>>

EndInitialization(a) ==
  /\ launching[a] = "initializing"
  /\ status' = [status EXCEPT ![a] = "initialized"]
  /\ launching' = [launching EXCEPT ![a] = "resuming"]
  /\ Freed(a)
  /\ UNCHANGED <<parent, tracking, open, call, late>>

\* activate() goes on after its own initialize(); the telemetry of an activity
\* that has been disposed meanwhile refuses the timer.
Resume(a) ==
  /\ launching[a] = "resuming"
  /\ launching' = [launching EXCEPT ![a] = IF ending[a] = "over" THEN "rejected" ELSE "waiting"]
  /\ UNCHANGED <<parent, status, ending, tracking, open, call, late>>

\* A pending disposal cancels the activation, which resolves all the same.
BeginActivation(a) ==
  /\ launching[a] = "waiting"
  /\ \/ /\ ending[a] = "none"
        /\ status' = [status EXCEPT ![a] = "activating"]
        /\ launching' = [launching EXCEPT ![a] = "activating"]
        /\ UNCHANGED ending
     \/ /\ ending[a] # "none"
        /\ launching' = [launching EXCEPT ![a] = "resolved"]
        /\ Freed(a) /\ UNCHANGED status
  /\ UNCHANGED <<parent, tracking, open, call, late>>

EndActivation(a) ==
  /\ launching[a] = "activating"
  /\ status' = [status EXCEPT ![a] = "active"]
  /\ launching' = [launching EXCEPT ![a] = "resolved"]
  /\ Freed(a)
  /\ UNCHANGED <<parent, tracking, open, call, late>>

BeginDisposal(a) ==
  /\ ending[a] = "free"
  /\ ending' = [ending EXCEPT ![a] = "running"]
  /\ status' = [status EXCEPT ![a] = "disposing"]
  /\ UNCHANGED <<parent, launching, tracking, open, call, late>>

\* The transition of dispose() settled, and with it every call that joined it.
OwnDisposed(a, outcome) ==
  /\ ending' = [ending EXCEPT ![a] = "over"]
  /\ call' = [o \in Origins |->
       [call[o] EXCEPT ![a].at = IF @ = "own" THEN outcome ELSE @]]

\* Mutant: the scope is detached from its parent after the event, which
\* bubbles to the listener of the parent.
EndDisposalBubbles(a) ==
  /\ ending[a] = "running"
  /\ status' = [status EXCEPT ![a] = "disposed"]
  /\ roots' = roots \ {a, parent[a]}
  /\ OwnDisposed(a, "succeeded")
  /\ UNCHANGED <<parent, launching, children, listed, open, late>>

\* 'executable:disposed' takes the activity out of the registry; a listener
\* that throws makes a failure of it all the same.
EndDisposal(a) ==
  /\ ending[a] = "running"
  /\ roots' = roots \ {a}
  /\ \/ /\ status' = [status EXCEPT ![a] = "disposed"]
        /\ OwnDisposed(a, "succeeded")
     \/ /\ "listener" \in Faults
        /\ status' = [status EXCEPT ![a] = "error"]
        /\ OwnDisposed(a, "failed")
  /\ UNCHANGED <<parent, launching, children, listed, open, late>>

FailDisposal(a) ==
  /\ "disposal" \in Faults
  /\ ending[a] = "running"
  /\ status' = [status EXCEPT ![a] = "error"]
  /\ OwnDisposed(a, "failed")
  /\ UNCHANGED <<parent, launching, tracking, open, late>>
-----------------------------------------------------------------------------
(* The handler.                                                            *)

\* activate() resolved: the handler is called, and invoke() resolves.
CallHandler(a) ==
  /\ launching[a] = "resolved"
  /\ launching' = [launching EXCEPT ![a] = "running"]
  /\ UNCHANGED <<parent, status, ending, tracking, open, call, late>>

\* A handler that throws answers with the error, which completes an awaitable
\* channel and not a stream, and the activity is disposed; nobody waits for
\* that, and its failure is dropped.
HandlerThrows(a) ==
  /\ "handler" \in Faults /\ launching[a] = "running"
  /\ launching' = [launching EXCEPT ![a] = "threw"]
  /\ open' \in {open, open \ {a}}
  /\ Dispose(a, call[a], a)
  /\ UNCHANGED <<parent, status, tracking, late>>

\* The only response of an awaitable activity, or complete() of a stream.
Respond(a) ==
  /\ a \in open
  /\ open' = open \ {a}
  /\ UNCHANGED <<parent, lifecycle, tracking, call, late>>
-----------------------------------------------------------------------------
Init ==
  /\ parent = [a \in Activities |-> App]
  /\ status = [a \in Activities |-> "unborn"]
  /\ launching = [a \in Activities |-> "none"]
  /\ ending = [a \in Activities |-> "none"]
  /\ children = [a \in Activities |-> <<>>]
  /\ roots = {} /\ listed = {} /\ open = {}
  /\ call = [o \in Origins |-> [a \in Activities |-> Idle]]
  /\ late = [a \in Activities |-> FALSE]

\* What goes on by itself once it has begun.
Run(a) ==
  \/ BeginInitialization(a) \/ EndInitialization(a) \/ Resume(a)
  \/ BeginActivation(a) \/ EndActivation(a) \/ Fail(a)
  \/ BeginDisposal(a) \/ EndDisposal(a) \/ FailDisposal(a) \/ CallHandler(a)

Continue(o, a) == AfterChild(o, a) \/ CleanUp(o, a)

Next ==
  \/ \E a \in Activities :
       \/ Run(a) \/ HandlerThrows(a) \/ Respond(a)
       \/ \E p \in Activities \cup {App} : Launch(p, a)
       \/ \E u \in Users : UserDisposes(u, a)
  \/ \E o \in Origins, a \in Activities : Continue(o, a)

\* Phases settle and continuations run; handlers, launches and the calls of
\* dispose() are up to the code around.
Fairness ==
  /\ \A a \in Activities : WF_vars(Run(a))
  /\ \A o \in Origins, a \in Activities : WF_vars(Continue(o, a))

Spec == Init /\ [][Next]_vars /\ Fairness
-----------------------------------------------------------------------------
(* Invariants.                                                             *)

Calls == [at : Ats, todo : Seq(Activities)]

\* Every variable keeps to its kind.
TypeOK ==
  /\ parent \in [Activities -> Activities \cup {App}]
  /\ status \in [Activities -> Statuses]
  /\ launching \in [Activities -> Launchings]
  /\ ending \in [Activities -> Endings]
  /\ children \in [Activities -> Seq(Activities)]
  /\ roots \in SUBSET Activities /\ listed \in SUBSET Activities
  /\ open \in SUBSET Activities
  /\ call \in [Origins -> [Activities -> Calls]]
  /\ late \in [Activities -> BOOLEAN]

Over(a) == status[a] \in Terminal

\* The registry lists a root activity for as long as it lives, and no activity
\* that has been disposed: the end of a nested activity does not take its
\* root out of the list.
RootsAreListed ==
  \A a \in Activities :
    /\ Born(a) /\ parent[a] = App /\ ~Over(a) => a \in roots
    /\ status[a] = "disposed" => a \notin roots

\* A child that was there when the disposal of its parent began has ended, or
\* its own disposal is under way, before the parent disposes itself: in no
\* order of calls is it left behind.
NoOrphans ==
  \A a, c \in Activities :
    Born(c) /\ parent[c] = a /\ ~late[c] /\ ending[a] # "none"
      => Over(c) \/ ending[c] # "none"

\* A call of dispose() that resolved, whoever began the disposal it joined, has
\* left no trace of the activity: it is disposed, out of every list, and its
\* response channel is closed.
DisposalIsThorough ==
  /\ TypeOK
  /\ \A o \in Origins, a \in Activities :
       call[o][a].at = "resolved" =>
         /\ status[a] = "disposed"
         /\ a \notin roots \cup listed \cup open
         /\ \A p \in Activities : \A i \in 1..Len(children[p]) : children[p][i] # a
-----------------------------------------------------------------------------
(* Liveness.                                                               *)

\* No call waits forever: of dispose(), however the disposals of parents and
\* children, of users and failed handlers meet; of invoke(), whatever happens to
\* the activity meanwhile.
EveryCallSettles ==
  /\ \A o \in Origins, a \in Activities : Underway(o, a) ~> ~Underway(o, a)
  /\ \A a \in Activities :
       launching[a] = "requested" ~> launching[a] \in {"rejected", "running"}
-----------------------------------------------------------------------------
(* What the comments of the launcher say and the code does not do.         *)

\* "Execute handler AFTER activation completes".
HandlerFollowsActivation ==
  [][\A a \in Activities :
       launching[a] = "resolved" /\ launching'[a] = "running" => status[a] = "active"]_vars

\* "Errors are routed to the responder ..., and the activity is disposed for
\* cleanup": once the launcher's call of dispose() settled, the activity has
\* ended.
FailedHandlerEndsActivity ==
  \A a \in Activities :
    launching[a] = "threw" /\ ~Underway(a, a) => Over(a)
=============================================================================
