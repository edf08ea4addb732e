------------------------------ MODULE Telemetry ------------------------------
(***************************************************************************)
(* Telemetry clients in a tree.  A client queues what is recorded; a flush *)
(* sends it as events, the children's first.  Listeners of those events    *)
(* run in the middle of the flush and may do anything.  Handles and marks  *)
(* outlive the calls that made them, and the state of their client.        *)
(***************************************************************************)
EXTENDS Naturals, Sequences, FiniteSets, SequencesExt, FiniteSetsExt

CONSTANTS
  Clients,     \* telemetry clients
  NoOne,       \* the parent of a root
  Names,       \* names of marks
  MaxEntries, MaxHandles, MaxMarks, MaxFrozen,  \* bounds: how many there are of each,
  MaxUses,     \* all together,
  MaxFlushes,  \* and how deep in flushes one is begun by hand
  Faults       \* "stale": cleanups of former parents are called

ASSUME TelemetryAssumption ==
  /\ NoOne \notin Clients
  /\ {MaxEntries, MaxHandles, MaxMarks, MaxFrozen, MaxUses, MaxFlushes}
       \subseteq Nat
  /\ Faults \subseteq {"stale"}

VARIABLES
  emitter,   \* emitter[c]: where the events of c bubble to
  up,        \* up[c]: the parent c takes its tags from
  children,  \* children[c]: what a flush of c goes through, in order of insertion
  queue,     \* queue[c]: entries recorded and not sent
  owner,     \* owner[i]: the client entry i was recorded with
  sent,      \* entries sent, in order
  born, frozen, disposed,  \* clients that exist, are frozen, are disposed
  handles,   \* timers
  marks,     \* marks
  named,     \* named[c][n]: the mark c finds under name n, or 0
  stack      \* flushes under way, the innermost last

tree == <<emitter, up, children>>
entries == <<queue, owner>>
timers == <<handles, marks, named>>
vars == <<emitter, up, children, queue, owner, sent, born, frozen, disposed,
          handles, marks, named, stack>>

\* Code runs outside every flush or in a listener of the innermost one.
CodeRuns == stack # <<>> => Last(stack).busy
Live(c) == c \in born \ disposed
Recordable(c) == Live(c) /\ c \notin frozen
Room == Len(owner) + Len(handles) + Len(marks) + Cardinality(frozen) < MaxUses

-----------------------------------------------------------------------------
(* The tree *)

Path(c) ==
  LET above[n \in 0..Cardinality(Clients), x \in Clients \cup {NoOne}] ==
        IF x = NoOne \/ n = 0 THEN {} ELSE {x} \cup above[n - 1, emitter[x]]
  IN above[Cardinality(Clients), c]

\* Sets are walked as they are: what is deleted and added again is met again.
Unseen(away) ==
  [i \in DOMAIN stack |-> [stack[i] EXCEPT !.seen = @ \ away[stack[i].client]]]
AwayFrom(p, c) == [x \in Clients |-> IF x = p THEN {c} ELSE {}]

\* What is left of s without c.
Without(s, c) ==
  LET left[n \in 0..Len(s)] ==
        IF n = 0 THEN <<>> ELSE IF s[n] = c THEN left[n - 1] ELSE Append(left[n - 1], s[n])
  IN left[Len(s)]

\* removeChild(): the emitter asks whether c is its child, the rest does not.
Detached(p, c, t) ==
  [emitter |-> IF t.emitter[c] = p THEN [t.emitter EXCEPT ![c] = NoOne] ELSE t.emitter,
   up |-> [t.up EXCEPT ![c] = NoOne],
   children |-> [t.children EXCEPT ![p] = Without(@, c)]]

Tree == [emitter |-> emitter, up |-> up, children |-> children]
Become(t) == emitter' = t.emitter /\ up' = t.up /\ children' = t.children

\* Mutant: a child keeps its place with its former parent.
AttachedTwice(p, c, t) ==
  [emitter |-> [t.emitter EXCEPT ![c] = p],
   up |-> [t.up EXCEPT ![c] = p],
   children |-> [t.children EXCEPT ![p] = IF Contains(@, c) THEN @ ELSE Append(@, c)]]

\* addChild(): a former parent lets go first.
Attached(p, c, t) ==
  LET old == t.emitter[c]
      free == IF old \notin {NoOne, p} THEN Detached(old, c, t) ELSE t
  IN [emitter |-> [free.emitter EXCEPT ![c] = p],
      up |-> [free.up EXCEPT ![c] = p],
      children |-> [free.children EXCEPT ![p] = IF Contains(@, c) THEN @ ELSE Append(@, c)]]

\* Nobody asks whether one of the two is disposed.
AddChild(p, c) ==
  /\ CodeRuns
  /\ {p, c} \subseteq born
  /\ c \notin Path(p)
  /\ Become(Attached(p, c, Tree))
  /\ stack' = IF emitter[c] \notin {NoOne, p} THEN Unseen(AwayFrom(emitter[c], c)) ELSE stack
  /\ UNCHANGED <<entries, sent, born, frozen, disposed, timers>>

RemoveChild(p, c) ==
  /\ CodeRuns
  /\ p \in born
  /\ c \in IF "stale" \in Faults THEN born ELSE ToSet(children[p])
  /\ Become(Detached(p, c, Tree))
  /\ stack' = Unseen(AwayFrom(p, c))
  /\ UNCHANGED <<entries, sent, born, frozen, disposed, timers>>

Fork(p, c) ==
  /\ CodeRuns
  /\ Live(p) /\ c \notin born
  /\ born' = born \cup {c}
  /\ Become(Attached(p, c, Tree))
  /\ UNCHANGED <<entries, sent, frozen, disposed, timers, stack>>

Freeze(c) ==
  /\ CodeRuns
  /\ c \in born
  /\ Room /\ Cardinality(frozen) < MaxFrozen
  /\ frozen' = frozen \cup {c}
  /\ UNCHANGED <<tree, entries, sent, born, disposed, timers, stack>>

-----------------------------------------------------------------------------
(* Entries, timers and marks *)

Enqueue(c) ==
  /\ Room /\ Len(owner) < MaxEntries
  /\ queue' = [queue EXCEPT ![c] = Append(@, Len(owner) + 1)]
  /\ owner' = Append(owner, c)

Record(c) ==
  /\ CodeRuns /\ Recordable(c)
  /\ Enqueue(c)
  /\ UNCHANGED <<tree, sent, born, frozen, disposed, timers, stack>>

\* A handle measures from a mark of its own, or from mark m, until it is over:
\* stopped, failed or cancelled.
Handle(c, m) == [client |-> c, mark |-> m, state |-> "running"]

StartTimer(c) ==
  /\ CodeRuns /\ Recordable(c)
  /\ Room /\ Len(handles) < MaxHandles
  /\ handles' = Append(handles, Handle(c, 0))
  /\ UNCHANGED <<tree, entries, sent, born, frozen, disposed, marks, named, stack>>

Mark(c, n) ==
  /\ CodeRuns /\ Recordable(c)
  /\ Room /\ Len(marks) < MaxMarks
  /\ marks' = Append(marks, [client |-> c, name |-> n, cleared |-> FALSE])
  /\ named' = [named EXCEPT ![c][n] = Len(marks')]
  /\ UNCHANGED <<tree, entries, sent, born, frozen, disposed, handles, stack>>

\* A mark measures as long as it is not cleared, whatever became of its client.
MeasureFrom(m) ==
  /\ CodeRuns /\ ~marks[m].cleared
  /\ Room /\ Len(handles) < MaxHandles
  /\ handles' = Append(handles, Handle(marks[m].client, m))
  /\ UNCHANGED <<tree, entries, sent, born, frozen, disposed, marks, named, stack>>

\* measure() finds marks by name, or is given them.
Measure(c, n, m) ==
  /\ CodeRuns /\ Recordable(c)
  /\ named[c][n] # 0 /\ ~marks[m].cleared
  /\ Enqueue(c)
  /\ UNCHANGED <<tree, sent, born, frozen, disposed, timers, stack>>

Forget(m) ==
  [named EXCEPT ![marks[m].client][marks[m].name] = IF @ = m THEN 0 ELSE @]

ClearMark(m) ==
  /\ CodeRuns /\ ~marks[m].cleared
  /\ marks' = [marks EXCEPT ![m].cleared = TRUE]
  /\ named' = Forget(m)
  /\ UNCHANGED <<tree, entries, sent, born, frozen, disposed, handles, stack>>

\* stop() and fail(): the handle is over before it measures, and measuring from
\* a mark that was cleared throws.
Stop(h) ==
  /\ CodeRuns /\ handles[h].state = "running"
  /\ handles' = [handles EXCEPT ![h].state = "over"]
  /\ IF handles[h].mark # 0 /\ marks[handles[h].mark].cleared
     THEN UNCHANGED entries ELSE Enqueue(handles[h].client)
  /\ UNCHANGED <<tree, sent, born, frozen, disposed, marks, named, stack>>

Cancel(h) ==
  /\ CodeRuns /\ handles[h].state = "running"
  /\ handles' = [handles EXCEPT ![h].state = "over"]
  /\ UNCHANGED <<tree, entries, sent, born, frozen, disposed, marks, named, stack>>

-----------------------------------------------------------------------------
(* Flushing *)

Begun(c) == [client |-> c, seen |-> {}, own |-> FALSE, todo |-> <<>>, busy |-> FALSE,
             failed |-> FALSE]
Innermost == Last(stack)
Replace(frame) == stack' = [stack EXCEPT ![Len(stack)] = frame]
Turn == stack # <<>> /\ ~Innermost.busy

Flushing(c) == \E i \in DOMAIN stack : stack[i].client = c

\* By hand, by the interval timer, or by a listener.
Flush(c) ==
  /\ CodeRuns /\ Live(c)
  /\ ~Flushing(c)
  /\ Len(stack) < MaxFlushes
  /\ stack' = Append(stack, Begun(c))
  /\ UNCHANGED <<tree, entries, sent, born, frozen, disposed, timers>>

Listed == children[Innermost.client]

\* A flush that fails ends those it is part of, up to the listener it began in.
Unwound == SubSeq(stack, 1, Max({0} \cup {i \in 1..Len(stack) - 1 : stack[i].busy}))

\* The first child that is not seen yet.  A disposed one refuses; one that is
\* being flushed has nothing to do.
FlushChild ==
  /\ Turn /\ ~Innermost.own
  /\ \E i \in DOMAIN Listed :
       LET c == Listed[i]
           below == [stack EXCEPT ![Len(stack)].seen = @ \cup {c}]
       IN /\ c \notin Innermost.seen /\ \A j \in 1..(i - 1) : Listed[j] \in Innermost.seen
          /\ stack' = IF c \in disposed THEN Unwound
                      ELSE IF Flushing(c) THEN below ELSE Append(below, Begun(c))
  /\ UNCHANGED <<tree, entries, sent, born, frozen, disposed, timers>>

\* The queue is taken when the children are done.
TakeQueue ==
  /\ Turn /\ ~Innermost.own /\ ToSet(Listed) \subseteq Innermost.seen
  /\ Replace([Innermost EXCEPT !.seen = {}, !.own = TRUE, !.todo = queue[Innermost.client]])
  /\ queue' = [queue EXCEPT ![Innermost.client] = <<>>]
  /\ UNCHANGED <<tree, owner, sent, born, frozen, disposed, timers>>

Send ==
  /\ Turn /\ Innermost.own /\ Innermost.todo # <<>>
  /\ sent' = Append(sent, Head(Innermost.todo))
  /\ Replace([Innermost EXCEPT !.busy = TRUE, !.todo = Tail(@)])
  /\ UNCHANGED <<tree, entries, born, frozen, disposed, timers>>

\* Mutant: an error ends the flush.
SentOrAborted(throws) ==
  /\ stack # <<>> /\ Innermost.busy
  /\ IF throws THEN stack' = Unwound ELSE Replace([Innermost EXCEPT !.busy = FALSE])
  /\ UNCHANGED <<tree, entries, sent, born, frozen, disposed, timers>>

\* The listeners are through; one of them may have thrown.
Sent(throws) ==
  /\ stack # <<>> /\ Innermost.busy
  /\ Replace([Innermost EXCEPT !.busy = FALSE, !.failed = @ \/ throws])
  /\ UNCHANGED <<tree, entries, sent, born, frozen, disposed, timers>>

FinishFlush ==
  /\ Turn /\ Innermost.own /\ Innermost.todo = <<>>
  /\ stack' = IF Innermost.failed THEN Unwound ELSE Front(stack)
  /\ UNCHANGED <<tree, entries, sent, born, frozen, disposed, timers>>

-----------------------------------------------------------------------------
(* Disposal *)

\* Mutant: marks outlive their client.
ClearedByNobody(c) == marks

ClearedBy(c) ==
  [m \in DOMAIN marks |->
     IF marks[m].client = c THEN [marks[m] EXCEPT !.cleared = TRUE] ELSE marks[m]]

\* c has let go of its children.
Childless(c) ==
  LET gone == ToSet(children[c])
  IN [emitter |-> [x \in Clients |-> IF x \in gone /\ emitter[x] = c THEN NoOne ELSE emitter[x]],
      up |-> [x \in Clients |-> IF x \in gone THEN NoOne ELSE up[x]],
      children |-> [children EXCEPT ![c] = <<>>]]

\* Handles and marks are ended, children let go, the queue is dropped, and the
\* parent is left.
Dispose(c) ==
  LET p == up[c]
      away == [AwayFrom(p, c) EXCEPT ![c] = ToSet(children[c])]
  IN /\ CodeRuns /\ Live(c)
     /\ disposed' = disposed \cup {c}
     /\ handles' = [h \in DOMAIN handles |->
                      IF handles[h].client = c /\ handles[h].state = "running"
                      THEN [handles[h] EXCEPT !.state = "over"] ELSE handles[h]]
     /\ marks' = ClearedBy(c)
     /\ named' = [named EXCEPT ![c] = [n \in Names |-> 0]]
     /\ Become(IF p # NoOne THEN Detached(p, c, Childless(c)) ELSE Childless(c))
     /\ queue' = [queue EXCEPT ![c] = <<>>]
     /\ stack' = Unseen(away)
     /\ UNCHANGED <<owner, sent, born, frozen>>

-----------------------------------------------------------------------------
Init ==
  /\ emitter = [c \in Clients |-> NoOne] /\ up = [c \in Clients |-> NoOne]
  /\ children = [c \in Clients |-> <<>>]
  /\ queue = [c \in Clients |-> <<>>] /\ owner = <<>> /\ sent = <<>>
  /\ \E c \in Clients : born = {c}
  /\ frozen = {} /\ disposed = {}
  /\ handles = <<>> /\ marks = <<>>
  /\ named = [c \in Clients |-> [n \in Names |-> 0]]
  /\ stack = <<>>

Use(c) ==
  \/ Record(c) \/ StartTimer(c) \/ Freeze(c) \/ Flush(c) \/ Dispose(c)
  \/ \E n \in Names : Mark(c, n) \/ \E m \in DOMAIN marks : Measure(c, n, m)

Next ==
  \/ \E c \in Clients : Use(c)
  \/ \E p, c \in Clients : AddChild(p, c) \/ RemoveChild(p, c) \/ Fork(p, c)
  \/ \E m \in DOMAIN marks : MeasureFrom(m) \/ ClearMark(m)
  \/ \E h \in DOMAIN handles : Stop(h) \/ Cancel(h)
  \/ FlushChild \/ TakeQueue \/ Send \/ FinishFlush
  \/ \E throws \in BOOLEAN : Sent(throws)

Spec == Init /\ [][Next]_vars

-----------------------------------------------------------------------------
(* Properties *)

\* Every variable keeps to its kind.
TypeOK ==
  /\ emitter \in [Clients -> Clients \cup {NoOne}] /\ up \in [Clients -> Clients \cup {NoOne}]
  /\ children \in [Clients -> Seq(Clients)]
  /\ queue \in [Clients -> Seq(1..Len(owner))] /\ owner \in Seq(Clients)
  /\ named \in [Clients -> [Names -> 0..Len(marks)]]
  /\ \A h \in DOMAIN handles : handles[h].state \in {"running", "over"}
  /\ frozen \cup disposed \subseteq born /\ born \subseteq Clients

\* The three places that know of a link agree: where events bubble, where tags
\* come from and what a flush goes through.
LinksAgree ==
  /\ TypeOK
  /\ \A p, c \in Clients :
       /\ Contains(children[p], c) <=> up[c] = p
       /\ emitter[c] = p <=> up[c] = p

Waiting(c) ==
  LET frames == {i \in DOMAIN stack : stack[i].client = c}
  IN ToSet(queue[c]) \cup UNION {ToSet(stack[i].todo) : i \in frames}

\* What was recorded waits in one place, or was sent, once and in the order in
\* which its client recorded: throwing listeners, failing children and flushes
\* within flushes lose nothing; a disposal may.
NothingIsLost ==
  /\ \A i, j \in DOMAIN sent :
       i < j /\ owner[sent[i]] = owner[sent[j]] => sent[i] < sent[j]
  /\ \A i \in DOMAIN owner :
       /\ i \in ToSet(sent) => i \notin Waiting(owner[i])
       /\ i \notin ToSet(sent) => i \in Waiting(owner[i]) \/ owner[i] \in disposed

\* The flushes of c that are under way.
Flushes(c) == {i \in DOMAIN stack : stack[i].client = c}

\* Whoever knows of c, or is known to it.
Neighbours(c) ==
  LET near(p, x) == emitter[x] = p \/ up[x] = p \/ Contains(children[p], x)
  IN {x \in Clients : near(x, c) \/ near(c, x)}

\* A disposal lets go of all neighbours, and afterwards nothing makes the client
\* work: not the handles and marks it gave away, which record nothing any more,
\* and not the flush of a parent to which it is added after its disposal.
DisposedIsGone ==
  [][\A c \in disposed' :
       /\ queue'[c] = <<>>
       /\ \A h \in DOMAIN handles' : handles'[h].client = c => handles'[h].state # "running"
       /\ Flushes(c)' \subseteq Flushes(c)
       /\ c \notin disposed => Neighbours(c)' = {}]_vars

-----------------------------------------------------------------------------
(* What the documentation says and the code does not do. *)

\* "After disposal, all public methods except readonly accessors throw"
\* (src/ecosystem/charter/telemetry/README.md:96): so nothing is added to a
\* disposed client.
DisposedTakesNoChild == \A c \in disposed : children[c] = <<>>
=============================================================================
