-------------------------- MODULE ServiceContainer --------------------------
(***************************************************************************)
(* The tree of service containers (classes/ServiceContainer.ts): what is   *)
(* registered under a name, resolving it with factories that resolve what  *)
(* they depend on, scopes that read the registrations of their parent      *)
(* live, and disposal.                                                     *)
(*                                                                         *)
(* Resolution is synchronous, but factories call back into the container   *)
(* they are given; the calls in progress are a stack, and a step is what   *)
(* one call does between two of those.  A factory sees the read-only view  *)
(* of that container and nothing else: it resolves, it returns a new value *)
(* or it throws.  So does the factory of a value, which set() calls itself *)
(* before it registers anything.  Only a disposal is asynchronous: other   *)
(* calls come between its disposers.  Every registration has a disposer,   *)
(* and a value is a value of its own.                                      *)
(***************************************************************************)
EXTENDS Naturals, SequencesExt

CONSTANTS
  Containers,        \* the containers there may be
  Root,              \* the one that is not a fork
  NoOne,             \* no container
  Names,             \* the namespaces
  MaxRegistrations,  \* bound on the calls of set()
  MaxInstances       \* bound on the values factories make

ASSUME RootAssumption == Root \in Containers /\ NoOne \notin Containers
ASSUME BoundsAssumption == MaxRegistrations \in Nat /\ MaxInstances \in Nat

VARIABLES
  state,       \* "disposing" and "disposed": SERVICE_CONTAINER_DISPOSED is set
  parent,      \* SERVICE_CONTAINER_PARENT
  frozen,      \* the containers with SERVICE_CONTAINER_FROZEN set
  bindings,    \* SERVICE_CONTAINER_BINDINGS
  order,       \* SERVICE_CONTAINER_RESOLUTION_ORDER
  stack,       \* the factories that run, the innermost first
  pending,     \* the disposers a disposal has queued, by the value they are for
  made,        \* history: the values there have been, numbered from 1
  registered,  \* history: the number of registrations
  ended        \* history: the values whose disposers were called, in order

tree == <<state, parent, frozen>>
vars == <<tree, bindings, order, stack, pending, made, registered, ended>>

Kinds == {"value", "singleton", "scoped", "transient"}
States == {"unborn", "live", "disposing", "disposed"}

\* cached = 0: not resolved, or without a cache.
Nothing == [kind |-> "none", version |-> 0, cached |-> 0]

Live(c) == state[c] = "live"

\* Mutant: a parent is asked also after it was disposed.
HolderOfBeyondDisposed(n) ==
  LET holder[c \in Containers] ==
        IF bindings[c][n].kind # "none" THEN c
        ELSE IF parent[c] # NoOne THEN holder[parent[c]] ELSE NoOne
  IN  holder

\* Where a name is registered for a container: there, or in the nearest
\* container above it that it reaches through containers not disposed.
HolderOf(n) ==
  LET holder[c \in Containers] ==
        IF bindings[c][n].kind # "none" THEN c
        ELSE IF parent[c] # NoOne /\ Live(parent[c]) THEN holder[parent[c]] ELSE NoOne
  IN  holder

\* missing() is asked first: n is found in h, the nearest for c.
Found(c, h, n) ==
  /\ h \in Containers /\ Live(h)
  /\ bindings[h][n].kind # "none"
  /\ h # c => bindings[c][n].kind = "none"
-----------------------------------------------------------------------------
(* Registration, forks and freezing.                                       *)

\* Mutant: what the name resolved to before stays cached.
SetKeepsCache(c, n, kind) ==
  /\ stack = <<>> /\ Live(c) /\ c \notin frozen
  /\ registered < MaxRegistrations /\ kind # "value"
  /\ registered' = registered + 1
  /\ bindings' = [bindings EXCEPT ![c][n] =
       [kind |-> kind, version |-> registered', cached |-> @.cached]]
  /\ UNCHANGED <<tree, order, stack, pending, made, ended>>

\* set(): what the name resolved to before is forgotten.
Set(c, n, kind) ==
  /\ stack = <<>> /\ Live(c) /\ c \notin frozen
  /\ registered < MaxRegistrations /\ kind # "value"
  /\ registered' = registered + 1
  /\ bindings' = [bindings EXCEPT ![c][n] =
       [kind |-> kind, version |-> registered', cached |-> 0]]
  /\ UNCHANGED <<tree, order, stack, pending, made, ended>>

\* set() of a value calls its factory.  What was registered stays until that
\* returns, and no resolution is under way: the factory may ask for n too.
SetValue(c, n) ==
  /\ stack = <<>> /\ Live(c) /\ c \notin frozen
  /\ registered < MaxRegistrations /\ Len(made) < MaxInstances
  /\ registered' = registered + 1
  /\ stack' = <<[name |-> n, version |-> registered', at |-> c,
                 kept |-> TRUE, given |-> TRUE, uses |-> {}]>>
  /\ UNCHANGED <<tree, bindings, order, pending, made, ended>>

\* That factory returns: its value is registered, which the order of
\* resolutions does not hear of.
Give ==
  /\ stack # <<>> /\ Head(stack).given
  /\ LET frame == Head(stack)
     IN  /\ made' = Append(made, frame)
         /\ bindings' = [bindings EXCEPT ![frame.at][frame.name] =
              [kind |-> "value", version |-> frame.version, cached |-> Len(made')]]
  /\ stack' = <<>>
  /\ UNCHANGED <<tree, order, pending, registered, ended>>

Fork(p, c) ==
  /\ stack = <<>> /\ Live(p) /\ state[c] = "unborn"
  /\ state' = [state EXCEPT ![c] = "live"]
  /\ parent' = [parent EXCEPT ![c] = p]
  /\ UNCHANGED <<frozen, bindings, order, stack, pending, made, registered, ended>>

\* freeze() does not look at SERVICE_CONTAINER_DISPOSED.
Freeze(c) ==
  /\ stack = <<>> /\ state[c] # "unborn"
  /\ frozen' = frozen \cup {c}
  /\ UNCHANGED <<state, parent, bindings, order, stack, pending, made, registered, ended>>
-----------------------------------------------------------------------------
(* Resolution.                                                             *)

\* The code that may resolve from c: what runs outside, or the factory that
\* was given c.
MayAsk(c) == Live(c) /\ (stack # <<>> => Head(stack).at = c)

\* Mutant: circles are not looked for.
ResolvingNever(n) == FALSE

\* The set of names a resolution hands on, to parents too.
Resolving(n) == \E i \in 1..Len(stack) : stack[i].name = n /\ ~stack[i].given

\* Resolving n from c answers with a value that is cached.
IsCached(c, h, n) ==
  /\ bindings[h][n].cached # 0
  /\ h = c \/ bindings[h][n].kind # "scoped"

\* A factory gets a cached value.
Reuse(n) ==
  /\ stack # <<>> /\ ~Resolving(n)
  /\ LET c == Head(stack).at
         h == HolderOf(n)[c]
     IN  /\ Found(c, h, n) /\ IsCached(c, h, n)
         /\ stack' = [stack EXCEPT ![1].uses = @ \cup {bindings[h][n].cached}]
  /\ UNCHANGED <<tree, bindings, order, pending, made, registered, ended>>

\* The factory of n is called: with the container that registered a singleton,
\* with c else.  A scoped registration of a parent is copied first.
Invoke(c, n) ==
  /\ MayAsk(c) /\ ~Resolving(n)
  /\ Len(made) + Len(stack) < MaxInstances
  /\ LET h == HolderOf(n)[c]
         b == bindings[h][n]
         at == IF b.kind = "singleton" THEN h ELSE c
     IN  /\ Found(c, h, n) /\ ~IsCached(c, h, n)
         /\ stack' = <<[name |-> n, version |-> b.version, at |-> at,
                        kept |-> b.kind # "transient", given |-> FALSE, uses |-> {}]>>
                     \o stack
         /\ bindings' = IF b.kind = "scoped" /\ h # c
                        THEN [bindings EXCEPT ![c][n] = [b EXCEPT !.cached = 0]]
                        ELSE bindings
  /\ UNCHANGED <<tree, order, pending, made, registered, ended>>

\* Mutant: only what is asked for from outside is recorded in the order.
ReturnRecordsOutermost ==
  /\ stack # <<>> /\ ~Head(stack).given
  /\ LET frame == Head(stack)
         id == Len(made) + 1
     IN  /\ made' = Append(made, frame)
         /\ bindings' = IF frame.kept
                        THEN [bindings EXCEPT ![frame.at][frame.name].cached = id]
                        ELSE bindings
         /\ order' = IF frame.kept /\ Len(stack) = 1
                     THEN [order EXCEPT ![frame.at] = Append(@, frame.name)]
                     ELSE order
         /\ stack' = IF Len(stack) = 1 THEN <<>>
                     ELSE [Tail(stack) EXCEPT ![1].uses = @ \cup {id}]
  /\ UNCHANGED <<tree, pending, registered, ended>>

\* The factory returns: the value is cached, unless it is a transient one, and
\* handed to the factory that asked for it.
Return ==
  /\ stack # <<>> /\ ~Head(stack).given
  /\ LET frame == Head(stack)
         id == Len(made) + 1
     IN  /\ made' = Append(made, frame)
         /\ bindings' = IF frame.kept
                        THEN [bindings EXCEPT ![frame.at][frame.name].cached = id]
                        ELSE bindings
         /\ order' = IF frame.kept
                     THEN [order EXCEPT ![frame.at] = Append(@, frame.name)]
                     ELSE order
         /\ stack' = IF Len(stack) = 1 THEN <<>>
                     ELSE [Tail(stack) EXCEPT ![1].uses = @ \cup {id}]
  /\ UNCHANGED <<tree, pending, registered, ended>>

\* The factory throws, on its own account or because it could not resolve what
\* it needs; the factory that asked may go on.
Throw ==
  /\ stack # <<>>
  /\ stack' = Tail(stack)
  /\ UNCHANGED <<tree, bindings, order, pending, made, registered, ended>>
-----------------------------------------------------------------------------
(* Disposal.                                                               *)

\* Mutant: a name keeps the place of its first resolution.
LatestFirstByFirst(names, cached) ==
  LET latest[i \in 0..Len(names)] ==
        IF i = 0 THEN <<>>
        ELSE IF cached[names[i]] = 0 \/ \E j \in 1..(i - 1) : names[j] = names[i]
        THEN latest[i - 1]
        ELSE <<cached[names[i]]>> \o latest[i - 1]
  IN  latest[Len(names)]

\* What is cached under the names a container resolved, the one resolved last
\* first.
LatestFirst(names, cached) ==
  LET latest[i \in 0..Len(names)] ==
        IF i = 0 THEN <<>>
        ELSE IF cached[names[i]] = 0 \/ \E j \in (i + 1)..Len(names) : names[j] = names[i]
        THEN latest[i - 1]
        ELSE <<cached[names[i]]>> \o latest[i - 1]
  IN  latest[Len(names)]

\* dispose(), up to its await: the disposers of what is cached are queued.
Dispose(c) ==
  /\ stack = <<>> /\ Live(c)
  /\ state' = [state EXCEPT ![c] = "disposing"]
  /\ pending' = [pending EXCEPT ![c] =
       LatestFirst(order[c], [n \in Names |-> bindings[c][n].cached])]
  /\ UNCHANGED <<parent, frozen, bindings, order, stack, made, registered, ended>>

\* The next disposer is called.  What it throws is dropped.
CallDisposer(c) ==
  /\ stack = <<>> /\ pending[c] # <<>>
  /\ ended' = Append(ended, Head(pending[c]))
  /\ pending' = [pending EXCEPT ![c] = Tail(@)]
  /\ UNCHANGED <<tree, bindings, order, stack, made, registered>>

\* All disposers have settled.
FinishDisposal(c) ==
  /\ stack = <<>> /\ state[c] = "disposing" /\ pending[c] = <<>>
  /\ state' = [state EXCEPT ![c] = "disposed"]
  /\ parent' = [parent EXCEPT ![c] = NoOne]
  /\ bindings' = [bindings EXCEPT ![c] = [n \in Names |-> [@[n] EXCEPT !.cached = 0]]]
  /\ UNCHANGED <<frozen, order, stack, pending, made, registered, ended>>
-----------------------------------------------------------------------------
Init ==
  /\ state = [c \in Containers |-> IF c = Root THEN "live" ELSE "unborn"]
  /\ parent = [c \in Containers |-> NoOne]
  /\ frozen = {}
  /\ bindings = [c \in Containers |-> [n \in Names |-> Nothing]]
  /\ order = [c \in Containers |-> <<>>]
  /\ stack = <<>>
  /\ pending = [c \in Containers |-> <<>>]
  /\ made = <<>> /\ registered = 0 /\ ended = <<>>

Next ==
  \/ \E c \in Containers :
       \/ \E n \in Names :
            Invoke(c, n) \/ SetValue(c, n) \/ \E kind \in Kinds : Set(c, n, kind)
       \/ \E p \in Containers : Fork(p, c)
       \/ Freeze(c) \/ Dispose(c) \/ CallDisposer(c) \/ FinishDisposal(c)
  \/ \E n \in Names : Reuse(n)
  \/ Give \/ Return \/ Throw

Spec == Init /\ [][Next]_vars
-----------------------------------------------------------------------------
(* Invariants.                                                             *)

Ids == 0..Len(made)
Bindings == [kind : Kinds \cup {"none"}, version : 0..registered, cached : Ids]
Values == [name : Names, version : 1..registered, at : Containers,
           kept : BOOLEAN, given : BOOLEAN, uses : SUBSET Ids]

\* Every variable keeps to its kind, but for the queues of disposals.
TypeOK ==
  /\ state \in [Containers -> States]
  /\ parent \in [Containers -> Containers \cup {NoOne}]
  /\ frozen \in SUBSET Containers
  /\ registered \in Nat
  /\ bindings \in [Containers -> [Names -> Bindings]]
  /\ order \in [Containers -> Seq(Names)]
  /\ stack \in Seq(Values) /\ made \in Seq(Values)

\* A registration makes one value in each scope that caches it, however
\* factories nest and fail: the rest of the system may hold on to it.
OneValuePerScope ==
  \A i, j \in 1..Len(made) :
    /\ made[i].kept /\ made[j].kept
    /\ made[i].version = made[j].version /\ made[i].at = made[j].at
    => i = j

\* What a container has cached under a name was made there by the registration
\* it has now, never by one that was overwritten or by another scope.
CacheIsCurrent ==
  /\ TypeOK
  /\ \A c \in Containers, n \in Names :
       LET b == bindings[c][n]
       IN  b.cached # 0 =>
             /\ made[b.cached].at = c /\ made[b.cached].name = n
             /\ made[b.cached].version = b.version

\* What a value was made from, directly or through the values it was made from.
Needs ==
  LET needs[i \in Ids] ==
        IF i = 0 THEN {} ELSE made[i].uses \cup UNION {needs[j] : j \in made[i].uses}
  IN  needs

\* A container calls the disposer of a value once, and, if the value was
\* resolved and not given to set(), before the disposers of everything of its
\* own that the value was made from.
DependentsEndFirst ==
  \A j \in 1..Len(ended) : \A i \in 1..(j - 1) :
    /\ ended[i] # ended[j]
    /\ made[ended[i]].at = made[ended[j]].at /\ ~made[ended[j]].given =>
         ended[i] \notin Needs[ended[j]]

\* A disposal forgets nothing that a factory made and that is still cached.
DisposalIsComplete ==
  /\ pending \in [Containers -> Seq(1..Len(made))] /\ ended \in Seq(1..Len(made))
  /\ \A c \in Containers, n \in Names :
       LET b == bindings[c][n]
       IN  state[c] = "disposing" /\ b.cached # 0 /\ b.kind # "value" =>
             Contains(ended, b.cached) \/ Contains(pending[c], b.cached)

\* No scope is served a value whose disposer has been called, while the
\* disposal of a container above it goes on or after it.
NothingEndedIsServed ==
  \A c \in Containers, n \in Names :
    LET h == HolderOf(n)[c]
    IN  Live(c) /\ h # NoOne => Found(c, h, n) /\ ~Contains(ended, bindings[h][n].cached)
-----------------------------------------------------------------------------
(* What the charter and the comments say and the code does not do.         *)

\* "Disposal order is the reverse of resolution order for cached bindings": read
\* so that it puts a value given to set(), too, before the values of the
\* container that its factory resolved.
GivenValuesEndFirst ==
  \A j \in 1..Len(ended) : \A i \in 1..(j - 1) :
    made[ended[i]].at = made[ended[j]].at => ended[i] \notin Needs[ended[j]]

\* "Local bindings in the child shadow parent bindings without affecting the
\* parent": a factory is refused a name for being circular only when the very
\* registration it would get is being resolved.
CirclesAreReal ==
  stack # <<>> =>
    \A n \in Names :
      LET h == HolderOf(n)[Head(stack).at]
      IN  h # NoOne /\ Resolving(n) =>
            \E i \in 1..Len(stack) :
              stack[i].name = n /\ stack[i].version = bindings[h][n].version
=============================================================================
