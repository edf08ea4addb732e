---------------------------- MODULE EventEmitter -----------------------------
(***************************************************************************)
(* Emitters in a tree that events bubble up.  Dispatch is synchronous: a   *)
(* listener runs in the middle of it, and may register and remove          *)
(* listeners, change the tree and emit further events before it returns.   *)
(***************************************************************************)
EXTENDS Naturals, Sequences, FiniteSets, SequencesExt, FiniteSetsExt

CONSTANTS
  Emitters, Listeners, Types,
  Patterns,    \* names and globs
  Covers,      \* Covers[p]: the event types pattern p matches
  NoOne,       \* the parent of a root
  MaxOrder,    \* bound: registrations, with all emitters
  MaxEvents    \* bound: events

ASSUME EmitterAssumption ==
  /\ Covers \in [Patterns -> SUBSET Types]
  /\ IsFiniteSet(Emitters) /\ NoOne \notin Emitters
  /\ MaxOrder \in Nat /\ MaxEvents \in Nat

VARIABLES
  registry,  \* registry[e]: what is registered with e, in the order of registration
  order,     \* order[e]: e's registration counter
  parent,    \* parent[e]: where the events of e go on to
  stack,     \* the dispatches under way, the innermost last
  heard,     \* every invocation of a listener, in order
  emitted    \* the number of events

vars == <<registry, order, parent, stack, heard, emitted>>

Definitions == [pattern : Patterns, listener : Listeners, once : BOOLEAN, order : Nat]
Invocations == [event : Nat, at : Emitters, order : Nat, once : BOOLEAN]
Dispatches ==
  [event : Nat, type : Types, path : Seq(Emitters), at : Nat, found : Seq(Definitions),
   todo : Seq(Definitions), busy : BOOLEAN, stop : {"no", "after", "immediately"},
   failed : BOOLEAN]

\* The elements of s that are in T, in the order of s.
Keeping(s, T) ==
  LET kept[n \in 0..Len(s)] ==
        IF n = 0 THEN <<>>
        ELSE IF s[n] \in T THEN Append(kept[n - 1], s[n])
        ELSE kept[n - 1]
  IN kept[Len(s)]

\* Definitions of one pattern share a bucket: it holds a listener once.
Same(d, p, l) == d.pattern = p /\ d.listener = l
Has(e, p, l) == \E i \in DOMAIN registry[e] : Same(registry[e][i], p, l)
Without(e, p, l) ==
  [registry EXCEPT ![e] = Keeping(@, {d \in Definitions : ~Same(d, p, l)})]

\* Code runs outside every dispatch or in the listener of the innermost one.
CodeRuns == stack # <<>> => Last(stack).busy

-----------------------------------------------------------------------------
(* The registry and the tree *)

\* A duplicate is ignored, whichever of on() and once() it comes by.
Register(e, p, l, once) ==
  /\ CodeRuns
  /\ ~Has(e, p, l)
  /\ MapThenSumSet(LAMBDA x : order[x], Emitters) < MaxOrder
  /\ registry' = [registry EXCEPT ![e] =
       Append(@, [pattern |-> p, listener |-> l, once |-> once, order |-> order[e] + 1])]
  /\ order' = [order EXCEPT ![e] = @ + 1]
  /\ UNCHANGED <<parent, stack, heard, emitted>>

\* off(), and every cleanup function on() and once() returned for the same pair.
Off(e, p, l) ==
  /\ CodeRuns
  /\ Has(e, p, l)
  /\ registry' = Without(e, p, l)
  /\ UNCHANGED <<order, parent, stack, heard, emitted>>

\* Emitter e and those above it, the nearest first.
Upwards(path) ==
  IF parent[Last(path)] = NoOne THEN path ELSE Append(path, parent[Last(path)])
PathFrom(e) ==
  LET path[n \in 1..Cardinality(Emitters)] ==
        IF n = 1 THEN <<e>> ELSE Upwards(path[n - 1])
  IN path[Cardinality(Emitters)]

\* Mutant: what is above the child is looked at.
CreatesCycleAbove(e, child) ==
  parent[child] # NoOne /\ e \in ToSet(PathFrom(parent[child]))

CreatesCycle(e, child) ==
  parent[e] # NoOne /\ child \in ToSet(PathFrom(parent[e]))

AddChild(e, child) ==
  /\ CodeRuns
  /\ child # e /\ ~CreatesCycle(e, child)
  /\ parent' = [parent EXCEPT ![child] = e]
  /\ UNCHANGED <<registry, order, stack, heard, emitted>>

RemoveChild(e, child) ==
  /\ CodeRuns
  /\ parent[child] = e
  /\ parent' = [parent EXCEPT ![child] = NoOne]
  /\ UNCHANGED <<registry, order, stack, heard, emitted>>

-----------------------------------------------------------------------------
(* Dispatch *)

\* The listeners are collected when the event reaches the emitter.
Collect(e, t) == Keeping(registry[e], {d \in Definitions : t \in Covers[d.pattern]})

Arrived(frame, i) ==
  [frame EXCEPT !.at = i, !.todo = Collect(frame.path[i], frame.type),
                !.found = Collect(frame.path[i], frame.type)]

Emit(e, t, bubbles) ==
  LET frame == [event |-> emitted + 1, type |-> t, at |-> 0, todo |-> <<>>, found |-> <<>>,
                path |-> IF bubbles THEN PathFrom(e) ELSE <<e>>,
                busy |-> FALSE, stop |-> "no", failed |-> FALSE]
  IN /\ CodeRuns
     /\ emitted < MaxEvents
     /\ stack' = Append(stack, Arrived(frame, 1))
     /\ emitted' = emitted + 1
     /\ UNCHANGED <<registry, order, parent, heard>>

Top == Last(stack)
Replace(frame) == stack' = [stack EXCEPT ![Len(stack)] = frame]

Heard(d, e) == [event |-> Top.event, at |-> e, order |-> d.order, once |-> d.once]

\* Mutant: a listener that is to run once is not removed.
InvokeFirst ==
  LET d == Head(Top.todo)
      e == Top.path[Top.at]
  IN /\ stack # <<>> /\ ~Top.busy /\ Top.todo # <<>>
     /\ Replace([Top EXCEPT !.busy = TRUE, !.todo = Tail(@)])
     /\ heard' = Append(heard, Heard(d, e))
     /\ UNCHANGED <<registry, order, parent, emitted>>

\* A listener that is to run once is removed before it does.
Invoke ==
  LET d == Head(Top.todo)
      e == Top.path[Top.at]
  IN /\ stack # <<>> /\ ~Top.busy /\ Top.todo # <<>>
     /\ registry' = IF d.once THEN Without(e, d.pattern, d.listener) ELSE registry
     /\ Replace([Top EXCEPT !.busy = TRUE, !.todo = Tail(@)])
     /\ heard' = Append(heard, Heard(d, e))
     /\ UNCHANGED <<order, parent, emitted>>

\* Somebody stops event i, which may be an outer one.
Stop(i, how) ==
  /\ stack # <<>> /\ Top.busy
  /\ i \in DOMAIN stack
  /\ stack[i].stop # how /\ stack[i].stop # "immediately"
  /\ stack' = [stack EXCEPT ![i].stop = how]
  /\ UNCHANGED <<registry, order, parent, heard, emitted>>

\* Mutant: an error ends the dispatch.
ReturnOrBreak(throws) ==
  /\ stack # <<>> /\ Top.busy
  /\ Replace([Top EXCEPT !.busy = FALSE,
                         !.failed = @ \/ throws,
                         !.todo = IF Top.stop = "immediately" \/ throws THEN <<>> ELSE @])
  /\ UNCHANGED <<registry, order, parent, heard, emitted>>

\* The listener returns or throws: an error is kept for the end.
Return(throws) ==
  /\ stack # <<>> /\ Top.busy
  /\ Replace([Top EXCEPT !.busy = FALSE,
                         !.failed = @ \/ throws,
                         !.todo = IF Top.stop = "immediately" THEN <<>> ELSE @])
  /\ UNCHANGED <<registry, order, parent, heard, emitted>>

Done == Top.stop # "no" \/ Top.at = Len(Top.path)

Bubble ==
  /\ stack # <<>> /\ ~Top.busy /\ Top.todo = <<>>
  /\ ~Done
  /\ Replace(Arrived(Top, Top.at + 1))
  /\ UNCHANGED <<registry, order, parent, heard, emitted>>

\* emit() returns, or throws the first error: the listener it was called in
\* goes on as it will.
Finish ==
  /\ stack # <<>> /\ ~Top.busy /\ Top.todo = <<>>
  /\ Done
  /\ stack' = Front(stack)
  /\ UNCHANGED <<registry, order, parent, heard, emitted>>

-----------------------------------------------------------------------------
Init ==
  /\ registry = [e \in Emitters |-> <<>>]
  /\ order = [e \in Emitters |-> 0]
  /\ parent = [e \in Emitters |-> NoOne]
  /\ stack = <<>> /\ heard = <<>> /\ emitted = 0

Dispatch == Invoke \/ Bubble \/ Finish

Next ==
  \/ \E e \in Emitters, p \in Patterns, l \in Listeners :
       Off(e, p, l) \/ \E once \in BOOLEAN : Register(e, p, l, once)
  \/ \E e, child \in Emitters : AddChild(e, child) \/ RemoveChild(e, child)
  \/ \E e \in Emitters, t \in Types, bubbles \in BOOLEAN : Emit(e, t, bubbles)
  \/ Dispatch
  \/ \E i \in 1..MaxEvents, how \in {"after", "immediately"} : Stop(i, how)
  \/ \E throws \in BOOLEAN : Return(throws)

Spec == Init /\ [][Next]_vars

-----------------------------------------------------------------------------
(* Properties *)

\* Every variable keeps to its kind.
TypeOK ==
  /\ registry \in [Emitters -> Seq(Definitions)] /\ order \in [Emitters -> Nat]
  /\ parent \in [Emitters -> Emitters \cup {NoOne}]
  /\ stack \in Seq(Dispatches)
  /\ \A i \in DOMAIN stack : stack[i].at \in DOMAIN stack[i].path
  /\ heard \in Seq(Invocations) /\ emitted \in 0..MaxEvents

\* However it is rearranged, also by listeners, the tree stays a tree: the path
\* of an event has an end.
TreeHasRoots ==
  TypeOK /\ \A e \in Emitters : parent[Last(PathFrom(e))] = NoOne

\* The invocations by one event with one emitter.
HeardOf(v, e) == Keeping(heard, {h \in Invocations : h.event = v /\ h.at = e})

\* An event calls the listeners of an emitter in the order of their
\* registration, across patterns, and each no more than once.  When it leaves an
\* emitter it has called everything that was registered when it came there and
\* nothing else, whatever was registered, removed and thrown in between, unless
\* it was stopped on the spot.
EverybodyHearsInTurn ==
  /\ \A v \in 1..emitted, e \in Emitters :
       LET hs == HeardOf(v, e)
       IN \A i \in 1..Len(hs) - 1 : hs[i].order < hs[i + 1].order
  /\ stack # <<>> /\ ~Top.busy /\ Top.todo = <<>> =>
       LET hs == HeardOf(Top.event, Top.path[Top.at])
           called == [i \in DOMAIN hs |-> hs[i].order]
           found == [i \in DOMAIN Top.found |-> Top.found[i].order]
       IN IF Top.stop = "immediately" THEN IsPrefix(called, found) ELSE called = found

\* What once() registered runs again only for an event that had found it there
\* before: one whose dispatch went on around that of the first.
OnceAgainOnlyAround ==
  \A i, j \in DOMAIN heard :
    /\ i < j /\ heard[i].once
    /\ heard[i].at = heard[j].at /\ heard[i].order = heard[j].order
    => heard[j].event < heard[i].event

-----------------------------------------------------------------------------
(* What the charter says and the code does not do.                         *)

\* "once(pattern, listener) registers a one-shot listener. Removed before its
\* first invocation": no registration made by once() is invoked twice.
OnceIsOnce ==
  \A i, j \in DOMAIN heard :
    /\ heard[i].once
    /\ heard[i].at = heard[j].at /\ heard[i].order = heard[j].order
    => i = j
=============================================================================
