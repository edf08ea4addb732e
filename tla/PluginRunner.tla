---------------------------- MODULE PluginRunner -----------------------------
(***************************************************************************)
(* How a hook is invoked on the runners of a container: trigger(), with    *)
(* the runner's result cache and its error policy, and pipe(), where the   *)
(* handler of each runner decides whether the next one runs.  A frame is   *)
(* one invocation.  Frames of the synchronous variants nest on the call    *)
(* stack; a promise settles only when that stack is empty.  A continuation *)
(* is a value: a handler can keep it and call it when it is over.          *)
(***************************************************************************)
EXTENDS Integers, Sequences, FiniteSets

CONSTANTS
  Modes,      \* the methods called
  Length,     \* the chain is made of runners 1..Length
  Keys,       \* cache keys the arguments map to
  Ttls,       \* times to live a cache handler may ask for, Never among them or not
  MaxTime,    \* bound: readings of the clock
  MaxRoots,   \* bound: calls
  MaxFrames   \* bound: invocations

Never == -1
PipeModes == {"pipe", "pipeSync"}
TriggerModes == {"trigger", "triggerSync"}
Outcomes == {"value", "recoverable", "fatal"}

ASSUME RunnerAssumption ==
  /\ Modes \subseteq PipeModes \cup TriggerModes
  /\ Length \in Nat \ {0} /\ MaxTime \in Nat /\ MaxRoots \in Nat /\ MaxFrames \in Nat
  /\ Ttls \subseteq Nat \cup {Never}

VARIABLES
  frames,     \* frames[f]: the f-th invocation
  cache,      \* cache[r][k]: what runner r keeps for key k
  disposed,   \* disposed runners
  now         \* Date.now()

vars == <<frames, cache, disposed, now>>

Chain == 1..Length
Frames == 1..Len(frames)
Empty == [by |-> 0, until |-> Never]

\* When a frame ends matters to the cache, which pipe() goes around.
Clock(mode) == IF mode \in TriggerModes THEN now ELSE 0

\* A frame of runner `at`; past the end of the chain it is the terminal.
Fresh(mode, at, key, ttl) ==
  [mode |-> mode, at |-> at, key |-> key, ttl |-> ttl, began |-> Clock(mode), ended |-> Clock(mode),
   state |-> "running", called |-> FALSE, misused |-> FALSE, down |-> {}, awaits |-> 0,
   by |-> 0, why |-> "none"]

Settled(f) == frames[f].state \in {"fulfilled", "rejected"}
Sync(f) == frames[f].mode \in {"pipeSync", "triggerSync"}
Piped(f) == frames[f].mode \in PipeModes
OnStack == {f \in Frames : Sync(f) /\ ~Settled(f)}
Runs(f) ==
  /\ frames[f].state = "running"
  /\ \A g \in OnStack : g <= f
  /\ Sync(f) \/ OnStack = {}

Fulfilled(frame, by) == [frame EXCEPT !.state = "fulfilled", !.by = by,
                                    !.ended = Clock(frame.mode)]
Rejected(frame, why) == [frame EXCEPT !.state = "rejected", !.why = why,
                                     !.ended = Clock(frame.mode)]

-----------------------------------------------------------------------------
(* trigger() *)

\* Mutant: an entry is good at the millisecond it expires at.
GoodAtTheEnd(entry) == entry.by # 0 /\ (entry.until = Never \/ entry.until >= now)

\* An entry is good until the very millisecond it expires at.
Good(entry) == entry.by # 0 /\ (entry.until = Never \/ entry.until > now)

\* A disposed runner refuses; a hit answers without the handler.
Trigger(mode, r, key, ttl) ==
  LET entry == cache[r][key]
      frame == Fresh(mode, r, key, ttl)
      f == Len(frames) + 1
  IN /\ IF r \in disposed
        THEN frames' = Append(frames, Rejected(frame, "disposed")) /\ UNCHANGED cache
        ELSE IF Good(entry)
        THEN frames' = Append(frames, Fulfilled(frame, entry.by)) /\ UNCHANGED cache
        ELSE /\ frames' = Append(frames, frame)
             /\ cache' = [cache EXCEPT ![r][key] = Empty]
     /\ UNCHANGED <<disposed, now>>

\* Mutant: the first answer stays.
StoreOnce(f) ==
  LET frame == frames[f]
  IN IF cache[frame.at][frame.key].by # 0 THEN cache
     ELSE [cache EXCEPT ![frame.at][frame.key] =
             [by |-> f, until |-> IF frame.ttl = Never THEN Never ELSE now + frame.ttl]]

Store(f) ==
  LET frame == frames[f]
  IN [cache EXCEPT ![frame.at][frame.key] =
        [by |-> f, until |-> IF frame.ttl = Never THEN Never ELSE now + frame.ttl]]

\* What was computed is stored, whatever was stored meanwhile, also by a runner
\* that was disposed; a recovered failure is answered undefined and not stored.
TriggerSettles(f, outcome) ==
  /\ ~Piped(f) /\ Runs(f)
  /\ frames' = [frames EXCEPT ![f] =
       CASE outcome = "value" -> Fulfilled(@, f)
         [] outcome = "recoverable" -> Fulfilled(@, 0)
         [] outcome = "fatal" -> Rejected(@, "fatal")]
  /\ cache' = IF outcome = "value" THEN Store(f) ELSE cache
  /\ UNCHANGED <<disposed, now>>

-----------------------------------------------------------------------------
(* pipe() *)

\* The frame dispatch(at) makes; a disposed runner makes it throw.
Dispatched(mode, at) ==
  LET frame == Fresh(mode, at, CHOOSE k \in Keys : TRUE, Never)
  IN IF at \in disposed THEN Rejected(frame, "disposed") ELSE frame

Pipe(mode) ==
  /\ frames' = Append(frames, Dispatched(mode, 1))
  /\ UNCHANGED <<cache, disposed, now>>

\* Mutant: calls of the continuation are not told apart.
CallNextAgain(f) ==
  LET g == Len(frames) + 1
  IN /\ Piped(f) /\ frames[f].at \in Chain
     /\ frames[f].why # "disposed"
     /\ Len(frames) < MaxFrames
     /\ frames' = [Append(frames, Dispatched(frames[f].mode, frames[f].at + 1))
                     EXCEPT ![f].down = @ \cup {g}]
     /\ UNCHANGED <<cache, disposed, now>>

\* The continuation of frame f is called, by whoever has it: the second time it
\* throws, and the frame remembers.
CallNext(f) ==
  LET g == Len(frames) + 1
  IN /\ Piped(f) /\ frames[f].at \in Chain
     /\ frames[f].why # "disposed"
     /\ IF frames[f].called
        THEN frames' = [frames EXCEPT ![f].misused = @ \/ frames[f].state = "running"]
        ELSE /\ Len(frames) < MaxFrames
             /\ frames' = [Append(frames, Dispatched(frames[f].mode, frames[f].at + 1))
                             EXCEPT ![f].called = TRUE, ![f].down = @ \cup {g}]
     /\ UNCHANGED <<cache, disposed, now>>

\* Mutant: a frame that was passed over answers undefined.
ForwardedUndefined(f, g) ==
  IF frames[g].state = "fulfilled" THEN Fulfilled(frames[f], 0)
  ELSE Rejected(frames[f], "downstream")

\* What frame f comes to when frame g, which it stands for, is settled.
Forwarded(f, g) ==
  IF frames[g].state = "fulfilled" THEN Fulfilled(frames[f], frames[g].by)
  ELSE Rejected(frames[f], "downstream")

\* A recovered handler is passed over: its frame answers what its continuation
\* did, or dispatches the rest of the chain now.
Skip(f) ==
  IF frames[f].called
  THEN \E g \in frames[f].down :
         frames' = [frames EXCEPT ![f].state = "forwarding", ![f].awaits = g]
  ELSE LET g == Len(frames) + 1
       IN /\ Len(frames) < MaxFrames
          /\ frames' = [Append(frames, Dispatched(frames[f].mode, frames[f].at + 1))
                          EXCEPT ![f].state = "forwarding", ![f].awaits = g,
                                 ![f].down = @ \cup {g}]

\* The terminal recovers from nothing.
PipeSettles(f, outcome) ==
  /\ Piped(f) /\ Runs(f)
  /\ CASE outcome = "fatal" -> frames' = [frames EXCEPT ![f] = Rejected(@, "fatal")]
       [] outcome # "fatal" /\ frames[f].misused ->
            frames' = [frames EXCEPT ![f] = Rejected(@, "misused")]
       [] outcome = "value" /\ ~frames[f].misused ->
            frames' = [frames EXCEPT ![f] = Fulfilled(@, f)]
       [] outcome = "recoverable" /\ ~frames[f].misused -> frames[f].at \in Chain /\ Skip(f)
  /\ UNCHANGED <<cache, disposed, now>>

\* Mutant: a failure of what a frame stands for is not passed on.
ForwardValues(f) ==
  /\ frames[f].state = "forwarding"
  /\ frames[frames[f].awaits].state = "fulfilled"
  /\ IF Sync(f) THEN \A g \in OnStack : g <= f ELSE OnStack = {}
  /\ frames' = [frames EXCEPT ![f] = Forwarded(f, frames[f].awaits)]
  /\ UNCHANGED <<cache, disposed, now>>

Forward(f) ==
  /\ frames[f].state = "forwarding"
  /\ Settled(frames[f].awaits)
  /\ IF Sync(f) THEN \A g \in OnStack : g <= f ELSE OnStack = {}
  /\ frames' = [frames EXCEPT ![f] = Forwarded(f, frames[f].awaits)]
  /\ UNCHANGED <<cache, disposed, now>>

-----------------------------------------------------------------------------
Roots == {f \in Frames : \A g \in Frames : f \notin frames[g].down}

Begin ==
  /\ Cardinality(Roots) < MaxRoots /\ Len(frames) < MaxFrames
  /\ \/ \E mode \in Modes \cap PipeModes : Pipe(mode)
     \/ \E mode \in Modes \cap TriggerModes, r \in Chain, key \in Keys, ttl \in Ttls :
          Trigger(mode, r, key, ttl)

Dispose(r) ==
  /\ r \notin disposed
  /\ disposed' = disposed \cup {r}
  /\ cache' = [cache EXCEPT ![r] = [k \in Keys |-> Empty]]
  /\ UNCHANGED <<frames, now>>

Tick == now < MaxTime /\ now' = now + 1 /\ UNCHANGED <<frames, cache, disposed>>

Init ==
  /\ frames = <<>>
  /\ cache = [r \in Chain |-> [k \in Keys |-> Empty]]
  /\ disposed = {} /\ now = 0

Settle(f) == \E o \in Outcomes : TriggerSettles(f, o) \/ PipeSettles(f, o)

Next ==
  \/ Begin
  \/ Tick
  \/ \E r \in Chain : Dispose(r)
  \/ \E f \in Frames : CallNext(f) \/ Settle(f) \/ Forward(f)

\* Some handler comes to an end, and some frame that awaited one goes on.
Progress == \E f \in Frames : Settle(f) \/ Forward(f)
Fairness == WF_vars(Progress)

Spec == Init /\ [][Next]_vars /\ Fairness

-----------------------------------------------------------------------------
(* Properties *)

Entry == [by : 0..MaxFrames, until : Int]

\* Every variable keeps to its kind.
TypeOK ==
  /\ Len(frames) <= MaxFrames
  /\ \A f \in Frames :
       /\ frames[f].at \in 1..Length + 1 /\ frames[f].by \in Frames \cup {0}
       /\ frames[f].state \in {"running", "forwarding", "fulfilled", "rejected"}
       /\ frames[f].down \subseteq (f + 1)..Len(frames)
       /\ frames[f].awaits \in frames[f].down \cup {0}
  /\ cache \in [Chain -> [Keys -> Entry]]
  /\ disposed \subseteq Chain

\* What a trigger is answered without its handler came from a trigger of the
\* same runner and key, and was put there less than its time to live ago.
HitsAreFresh ==
  /\ TypeOK
  /\ \A f \in Frames :
       LET frame == frames[f]  from == frames[frame.by]
       IN ~Piped(f) /\ frame.by \notin {0, f} =>
            /\ from.at = frame.at /\ from.key = frame.key /\ ~Piped(frame.by)
            /\ from.by = frame.by
            /\ from.ttl = Never \/ frame.began < from.ended + from.ttl

\* Two misses race: as long as the runner lives, what it keeps is the answer of
\* the one that finished last, though it may have begun first.
LastAnswerIsKept ==
  \A r \in Chain \ disposed, k \in Keys :
    cache[r][k].by # 0 =>
      \A f \in Frames :
        /\ ~Piped(f) /\ frames[f].at = r /\ frames[f].key = k /\ frames[f].by = f
        => frames[f].ended <= frames[cache[r][k].by].ended

\* A pipe answers with the value of a handler, or of the terminal, down the
\* chain, when everything before it recovered from a failure.
ValuesComeFromBelow ==
  \A f \in Frames :
    Piped(f) /\ frames[f].state = "fulfilled" =>
      \/ frames[f].by = f
      \/ \E g \in frames[f].down :
           /\ g = frames[f].awaits
           /\ frames[g].state = "fulfilled" /\ frames[g].by = frames[f].by

\* The rest of the chain runs once for each frame; a second time only when the
\* frame had been passed over already and its continuation was called late.  A
\* continuation that was called twice before its handler was over is never
\* papered over: the pipe at that place fails.
RestRunsOnce ==
  \A f \in Frames :
    /\ frames[f].misused /\ Settled(f) => frames[f].state = "rejected"
    /\ Cardinality(frames[f].down) > 1 =>
         /\ Cardinality(frames[f].down) = 2
         /\ frames[f].called /\ frames[f].awaits # 0
         /\ \A g \in frames[f].down : frames[f].awaits <= g

\* Again and again everything that was begun is answered, if handlers come to
\* an end: no frame waits for one that waits for it, or for one that was lost.
EveryFrameSettles == []<>(\A f \in Frames : Settled(f))
=============================================================================
