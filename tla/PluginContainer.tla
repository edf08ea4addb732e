--------------------------- MODULE PluginContainer ---------------------------
(***************************************************************************)
(* A container of plugins and the container forked from it.  A plugin is   *)
(* registered by a runner, whose disposal is final.  Strategies work       *)
(* through the runners of one hook: asynchronous ones let everything else  *)
(* happen while a handler is awaited, synchronous ones and direct scopes   *)
(* sit on the call stack, and what happens meanwhile is done by their own  *)
(* handlers and callbacks.  One hook is modelled: the memo and the order   *)
(* of another hook would be a copy of these.                               *)
(***************************************************************************)
EXTENDS Naturals, Sequences, FiniteSets, SequencesExt

CONSTANTS
  Plugins,     \* plugin objects
  Order,       \* Order[p]: the place the hook of p asks for
  Alone,       \* plugins whose hook is marked sequential
  Startups,    \* the lists of plugins a container may be constructed with
  Newcomers,   \* bound: the plugins registered after that
  Precious,    \* bound: the plugins anybody protects
  Freezable,   \* bound: the containers anybody freezes
  MaxRunners,  \* bound: registrations in the life of the system
  Calls,       \* calls of strategies
  MaxScopes,   \* bound: direct scopes open at a time
  Kinds,       \* the strategies called
  Outcomes,    \* Outcomes[s]: what the handlers strategy s triggers may come to
  Faults       \* what throws: a context factory, the caller's reducer, a listener of the end

Containers == {"root", "fork"}
AsyncKinds == {"parallel", "sequential", "first", "reduce", "observe"}
SyncKinds == {"sequentialSync", "firstSync", "reduceSync", "observeSync", "renderable"}
AllOutcomes == {"value", "null", "undefined", "recovered", "fatal"}
Places == {"pre", "default", "post"}

ASSUME ContainerAssumption ==
  /\ Order \in [Plugins -> Places]
  /\ Alone \subseteq Plugins
  /\ \A s \in Startups : s \in Seq(Plugins) /\ Len(s) <= MaxRunners
  /\ Newcomers \subseteq Plugins /\ Precious \subseteq Plugins
  /\ Freezable \subseteq Containers
  /\ MaxRunners \in Nat
  /\ Kinds \subseteq AsyncKinds \cup SyncKinds
  /\ Outcomes \in [Kinds -> SUBSET AllOutcomes]
  /\ Faults \subseteq {"factory", "reducer", "listener"}
  /\ MaxScopes \in Nat /\ Calls \cap Nat = {}

VARIABLES
  plugin,      \* plugin[r]: what runner r was made for, in the order they were made
  runners,     \* runners[b]: the runners of container b, in order of registration
  memo,        \* memo[b]: the sorted entries as they were last computed, or NoMemo
  secured,     \* secured[b]: protected plugins
  deferred,    \* deferred[b]: removed runners a direct scope still needs
  disposed,    \* disposed runners
  born,        \* containers that exist
  frozen,      \* containers whose membership is locked
  closed,      \* disposed containers
  stack,       \* the synchronous calls and direct scopes under way, the innermost last
  scope,       \* scope[s]: the container and the entries of a direct scope
  call         \* call[k]: a call of a strategy

members == <<plugin, runners, memo, secured, deferred, disposed, born, frozen, closed>>
vars == <<plugin, runners, memo, secured, deferred, disposed, born, frozen, closed,
          stack, scope, call>>

NoMemo == <<0>>
Runners == 1..Len(plugin)
Idle == "idle"
Scopes == 1..MaxScopes

NoCall == [kind |-> Idle, entries |-> <<>>, prepared |-> FALSE, at |-> 0, pending |-> {},
           alone |-> FALSE, fatal |-> FALSE, ran |-> <<>>, answer |-> <<>>, state |-> Idle]
NoScope == [box |-> "root", entries |-> <<>>, prepared |-> 0, state |-> Idle]

CallRecords ==
  [kind : {Idle} \cup Kinds, entries : Seq(Nat), prepared : BOOLEAN, at : Nat,
   pending : SUBSET Nat, alone : BOOLEAN, fatal : BOOLEAN, ran : Seq(Nat \X AllOutcomes),
   answer : Seq(Nat), state : {Idle, "running", "fulfilled", "rejected"}]
ScopeRecords ==
  [box : Containers, entries : Seq(Nat), prepared : Nat, state : {Idle, "preparing", "open"}]

-----------------------------------------------------------------------------
(* Membership *)

Usable(b) == b \in born \ closed
Writable(b) == Usable(b) /\ b \notin frozen
Registers(b, p) == \E i \in DOMAIN runners[b] : plugin[runners[b][i]] = p
\* Mutant: what is removed is disposed at once.
InScopeNever(b) == FALSE
Counts(s, b) == scope[s].state = "open" /\ scope[s].box = b
InScope(b) == \E i \in DOMAIN stack : stack[i] \in Scopes /\ Counts(stack[i], b)

\* The elements of s that are in T, in the order of s.
Keeping(s, T) ==
  LET kept[n \in 0..Len(s)] ==
        IF n = 0 THEN <<>>
        ELSE IF s[n] \in T THEN Append(kept[n - 1], s[n])
        ELSE kept[n - 1]
  IN kept[Len(s)]

At(place, rs) == Keeping(rs, {r \in Runners : Order[plugin[r]] = place})
Sorted(rs) == At("pre", rs) \o At("default", rs) \o At("post", rs)

\* The memo is filled by the first strategy that looks, and emptied by add and remove.
Entries(b) == IF memo[b] = NoMemo THEN Sorted(runners[b]) ELSE memo[b]
Memoize(b) == memo' = [memo EXCEPT ![b] = Entries(b)]
\* Mutant: membership changes and the memo stays.
ForgetNothing(b) == memo
Forget(b) == [memo EXCEPT ![b] = NoMemo]

Register(b, p) ==
  /\ Writable(b)
  /\ Len(plugin) < MaxRunners
  /\ plugin' = Append(plugin, p)
  /\ runners' = [runners EXCEPT ![b] = Append(@, Len(plugin'))]
  /\ memo' = Forget(b)
  /\ UNCHANGED <<secured, deferred, disposed, born, frozen, closed, stack, scope, call>>

Withdraw(b, p) ==
  /\ Writable(b)
  /\ p \notin secured[b]
  /\ Registers(b, p)
  /\ LET i == SelectInSeq(runners[b], LAMBDA r : plugin[r] = p)
         r == runners[b][i]
     IN /\ runners' = [runners EXCEPT ![b] = RemoveAt(@, i)]
        /\ IF InScope(b)
           THEN deferred' = [deferred EXCEPT ![b] = @ \cup {r}] /\ UNCHANGED disposed
           ELSE disposed' = disposed \cup {r} /\ UNCHANGED deferred
  /\ memo' = Forget(b)
  /\ UNCHANGED <<plugin, secured, born, frozen, closed, stack, scope, call>>

Protect(b, p) ==
  /\ Writable(b)
  /\ Registers(b, p)
  /\ secured' = [secured EXCEPT ![b] = @ \cup {p}]
  /\ UNCHANGED <<plugin, runners, memo, deferred, disposed, born, frozen, closed,
                 stack, scope, call>>

Freeze(b) ==
  /\ Usable(b)
  /\ frozen' = frozen \cup {b}
  /\ UNCHANGED <<plugin, runners, memo, secured, deferred, disposed, born, closed,
                 stack, scope, call>>

\* Every runner is forked; the plugins that come along get runners of their own.
Fork(extra) ==
  LET inherited == [i \in DOMAIN runners["root"] |-> plugin[runners["root"][i]]]
      own == inherited \o extra
  IN /\ Usable("root") /\ "fork" \notin born
     /\ Len(plugin) + Len(own) <= MaxRunners
     /\ born' = born \cup {"fork"}
     /\ plugin' = plugin \o own
     /\ runners' = [runners EXCEPT !["fork"] = [i \in DOMAIN own |-> Len(plugin) + i]]
     /\ secured' = [secured EXCEPT !["fork"] = secured["root"] \cap ToSet(inherited)]
     /\ UNCHANGED <<memo, deferred, disposed, frozen, closed, stack, scope, call>>

\* The container is unusable before its listeners hear of it; one that throws
\* keeps the runners from their disposal.
Dispose(b) ==
  /\ Usable(b)
  /\ closed' = closed \cup {b}
  /\ \E threw \in IF "listener" \in Faults THEN BOOLEAN ELSE {FALSE} :
       IF threw THEN UNCHANGED <<runners, memo, secured, deferred, disposed>>
       ELSE /\ disposed' = disposed \cup ToSet(runners[b]) \cup deferred[b]
            /\ runners' = [runners EXCEPT ![b] = <<>>]
            /\ deferred' = [deferred EXCEPT ![b] = {}]
            /\ secured' = [secured EXCEPT ![b] = {}]
            /\ memo' = Forget(b)
  /\ UNCHANGED <<plugin, born, frozen, stack, scope, call>>

-----------------------------------------------------------------------------
(* A call of a strategy is a record.  It is on the stack, with no handler   *)
(* pending, from the moment it turns to its next entry: the context factory *)
(* runs then, which may change the membership like any other code, or throw.*)

Contained(c) == c.kind \in {"observe", "observeSync"}
Fulfil(c) == [c EXCEPT !.state = "fulfilled"]
\* A failure ends the run; observation keeps it from the caller.
Reject(c) == IF Contained(c) THEN Fulfil(c) ELSE [c EXCEPT !.state = "rejected"]
MayThrow(c) == IF "factory" \in Faults /\ ~c.prepared THEN {Reject(c)} ELSE {}

Finished(c) == c.at = Len(c.entries)
Following(c) == c.entries[c.at + 1]
Lone(c) == ~Finished(c) /\ plugin[Following(c)] \in Alone

\* The next handler is triggered and awaited; a disposed runner refuses.
Trigger(c) ==
  IF Following(c) \in disposed THEN Reject(c)
  ELSE [c EXCEPT !.pending = {Following(c)}, !.alone = TRUE, !.at = @ + 1]

Proceed(c) == IF Finished(c) THEN Fulfil(c) ELSE c

\* parallel() triggers without awaiting; a refusal is one more failure.
Launched(c) ==
  IF Following(c) \in disposed THEN [c EXCEPT !.fatal = TRUE, !.at = @ + 1]
  ELSE [c EXCEPT !.pending = @ \cup {Following(c)}, !.at = @ + 1]

\* The batch was awaited; a sequential hook that follows it runs by itself.
Drained(c) ==
  IF c.pending # {} THEN c
  ELSE IF c.fatal THEN Reject(c)
  ELSE IF Finished(c) THEN Fulfil(c)
  ELSE Trigger(c)

\* The answers make a difference to first, reduce and renderable.
Folded(c, r, outcome) ==
  CASE c.kind \in {"first", "firstSync"} /\ outcome = "value" -> <<r>>
    [] c.kind \in {"reduce", "reduceSync"} /\ outcome \in {"value", "null"} -> Append(c.answer, r)
    [] c.kind = "renderable" ->
         IF outcome = "value" THEN Append(c.answer, r) ELSE <<>>
    [] OTHER -> c.answer

Settled(c, r, outcome) ==
  [c EXCEPT !.pending = @ \ {r}, !.ran = Append(@, <<r, outcome>>),
            !.answer = IF outcome = "fatal" THEN @ ELSE Folded(c, r, outcome)]

\* The reducer throws: the handler ran, and its result is lost with the answer.
Reduces(c, outcome) == c.kind \in {"reduce", "reduceSync"} /\ outcome \in {"value", "null"}
MayLose(c, r, outcome) ==
  IF "reducer" \in Faults /\ Reduces(c, outcome)
  THEN {Reject([Settled(c, r, outcome) EXCEPT !.answer = c.answer])}
  ELSE {}

\* Mutant: null is an answer to first().
EnoughWithNull(c, outcome) == outcome \in {"value", "null"} /\ c.kind \in {"first", "firstSync"}
Enough(c, outcome) == outcome = "value" /\ c.kind \in {"first", "firstSync"}

Follow(c, r, outcome) ==
  LET d == Settled(c, r, outcome)
  IN IF c.state # "running" THEN {[c EXCEPT !.pending = @ \ {r}]}
     ELSE IF ~c.alone THEN {Drained([d EXCEPT !.fatal = @ \/ outcome = "fatal"])}
     ELSE IF outcome = "fatal" THEN {Reject(d)}
     ELSE IF Enough(c, outcome) THEN {Fulfil(d)}
     ELSE IF c.kind = "parallel" THEN {[d EXCEPT !.alone = FALSE]}
     ELSE {Proceed(d)} \cup MayLose(c, r, outcome)

Begun(kind, entries, prepared) ==
  [NoCall EXCEPT !.kind = kind, !.entries = entries, !.prepared = prepared,
                 !.state = "running"]

\* A synchronous call is on the stack while it runs, another until it awaits.
Stacked(c) == c.state = "running" /\ (c.kind \in SyncKinds \/ c.pending = {})
Become(k, below, c) ==
  /\ call' = [call EXCEPT ![k] = c]
  /\ stack' = IF Stacked(c) THEN Append(below, k) ELSE below

Top(x) == stack # <<>> /\ Last(stack) = x

\* A strategy of container b is called: it goes through the entries at hand.
Call(k, b, kind) ==
  /\ Usable(b)
  /\ call[k].state = Idle
  /\ Memoize(b)
  /\ Become(k, stack, Proceed(Begun(kind, Entries(b), FALSE)))
  /\ UNCHANGED <<plugin, runners, secured, deferred, disposed, born, frozen, closed, scope>>

\* The context of the next entry is made, and its handler triggered.
Advance(k) ==
  LET c == call[k]
  IN /\ Top(k) /\ c.kind # "parallel" /\ c.pending = {} /\ ~Finished(c)
     /\ \E d \in {Trigger(c)} \cup MayThrow(c) : Become(k, Front(stack), d)
     /\ UNCHANGED <<members, scope>>

\* parallel() comes to its next entry, or has none to launch before it awaits.
\* The context of a sequential hook is made before the batch is awaited.
Launch(k) ==
  LET c == call[k]
  IN /\ Top(k) /\ c.kind = "parallel"
     /\ \/ IF Finished(c) \/ Lone(c) THEN Become(k, Front(stack), Drained(c))
           ELSE call' = [call EXCEPT ![k] = Launched(c)] /\ UNCHANGED stack
        \/ ~Finished(c) /\ \E d \in MayThrow(c) : Become(k, Front(stack), d)
     /\ UNCHANGED <<members, scope>>

\* A handler is done; what awaits a promise goes on when the stack is empty.
Handler(k, r, outcome) ==
  /\ r \in call[k].pending
  /\ IF call[k].kind \in SyncKinds THEN Top(k) ELSE stack = <<>>
  /\ \E d \in Follow(call[k], r, outcome) :
       Become(k, IF stack = <<>> THEN stack ELSE Front(stack), d)
  /\ UNCHANGED <<members, scope>>

-----------------------------------------------------------------------------
(* Direct scopes *)

\* direct() takes the entries at hand and prepares each for its callback.
OpenScope(b) ==
  LET s == Cardinality({t \in Scopes : scope[t].state # Idle}) + 1
      entries == Entries(b)
  IN /\ Usable(b)
     /\ s \in Scopes
     /\ Memoize(b)
     /\ scope' = [scope EXCEPT ![s] =
          [box |-> b, entries |-> entries, prepared |-> 0,
           state |-> IF entries = <<>> THEN "open" ELSE "preparing"]]
     /\ stack' = Append(stack, s)
     /\ UNCHANGED <<plugin, runners, secured, deferred, disposed, born, frozen, closed, call>>

\* The context of one more entry is made.  The scope counts when all are: until
\* then a factory that removes a plugin has it disposed, prepared or not.
Prepare(s) ==
  LET d == scope[s]
      n == d.prepared + 1
      refused == d.entries[n] \in disposed
  IN /\ Top(s) /\ d.state = "preparing"
     /\ \/ /\ ~refused
           /\ scope' = [scope EXCEPT ![s].prepared = n,
                          ![s].state = IF n = Len(d.entries) THEN "open" ELSE @]
           /\ UNCHANGED stack
        \/ /\ refused \/ "factory" \in Faults
           /\ scope' = [scope EXCEPT ![s] = NoScope]
           /\ stack' = Front(stack)
     /\ UNCHANGED <<members, call>>

\* Whatever runs inside the scope works through its entries, which are prepared.
DirectRun(k, s, kind) ==
  LET c == Begun(kind, scope[s].entries, TRUE)
  IN /\ scope[s].state = "open"
     /\ call[k].state = Idle
     /\ kind \in {"sequentialSync", "firstSync", "reduceSync"}
     /\ Become(k, stack, IF Finished(c) THEN Fulfil(c) ELSE Trigger(c))
     /\ UNCHANGED <<members, scope>>

\* Mutant: the scope that ends counts itself.
InnerScopesAndOwn(b) == {i \in 1..Len(stack) : stack[i] \in Scopes /\ Counts(stack[i], b)}
InnerScopes(b) == {i \in 1..Len(stack) - 1 : stack[i] \in Scopes /\ Counts(stack[i], b)}

\* The callback returns or throws; the outermost scope disposes what was put off.
CloseScope(s) ==
  LET b == scope[s].box
  IN /\ Top(s) /\ scope[s].state = "open"
     /\ scope' = [scope EXCEPT ![s] = NoScope]
     /\ stack' = Front(stack)
     /\ IF InnerScopes(b) = {} /\ b \notin closed
        THEN /\ disposed' = disposed \cup deferred[b]
             /\ deferred' = [deferred EXCEPT ![b] = {}]
        ELSE UNCHANGED <<disposed, deferred>>
     /\ UNCHANGED <<plugin, runners, memo, secured, born, frozen, closed, call>>

-----------------------------------------------------------------------------
Init ==
  /\ plugin \in Startups
  /\ runners = [b \in Containers |-> IF b = "root" THEN [i \in DOMAIN plugin |-> i] ELSE <<>>]
  /\ memo = [b \in Containers |-> NoMemo]
  /\ secured = [b \in Containers |-> {}]
  /\ deferred = [b \in Containers |-> {}]
  /\ disposed = {} /\ born = {"root"} /\ frozen = {} /\ closed = {}
  /\ stack = <<>>
  /\ scope = [s \in Scopes |-> NoScope]
  /\ call = [k \in Calls |-> NoCall]

Change(b) ==
  \/ \E p \in Newcomers : Register(b, p)
  \/ \E p \in Plugins : Withdraw(b, p)
  \/ \E p \in Precious : Protect(b, p)
  \/ b \in Freezable /\ Freeze(b)
  \/ Dispose(b)

Settle(k) == \E r \in call[k].pending : \E o \in Outcomes[call[k].kind] : Handler(k, r, o)

Next ==
  \/ \E b \in Containers : Change(b)
  \/ \E extra \in {<<>>} \cup {<<p>> : p \in Newcomers} : Fork(extra)
  \/ \E k \in Calls, b \in Containers, kind \in Kinds : Call(k, b, kind)
  \/ \E k \in Calls, s \in Scopes, kind \in Kinds : DirectRun(k, s, kind)
  \/ \E k \in Calls : Advance(k) \/ Launch(k) \/ Settle(k)
  \/ \E b \in Containers : OpenScope(b)
  \/ \E s \in Scopes : Prepare(s) \/ CloseScope(s)

Spec == Init /\ [][Next]_vars

-----------------------------------------------------------------------------
(* Properties *)

\* Every variable keeps to its kind.
TypeOK ==
  /\ plugin \in Seq(Plugins) /\ Len(plugin) <= MaxRunners
  /\ runners \in [Containers -> Seq(Runners)]
  /\ memo \in [Containers -> Seq(Runners \cup {0})]
  /\ secured \in [Containers -> SUBSET Plugins]
  /\ deferred \in [Containers -> SUBSET Runners]
  /\ disposed \subseteq Runners
  /\ born \subseteq Containers /\ closed \subseteq born /\ frozen \subseteq born
  /\ stack \in Seq(Calls \cup Scopes)
  /\ scope \in [Scopes -> ScopeRecords]
  /\ call \in [Calls -> CallRecords]

\* What a strategy would find in the memo is the order the registrations of
\* now ask for, whatever was added and removed since it was filled.
MemoIsCurrent ==
  /\ TypeOK
  /\ \A b \in born \ closed : memo[b] = NoMemo \/ memo[b] = Sorted(runners[b])

\* A registration that left its container is disposed, at once or when the last
\* direct scope of that container ends, and none that stayed is; nothing
\* survives the container.
Released ==
  LET listed(b) == ToSet(runners[b])
      kept == UNION {listed(b) \cup deferred[b] : b \in born}
  IN /\ kept \cap disposed = {}
     /\ Runners \ kept \subseteq disposed
     /\ \A b \in born : deferred[b] # {} /\ b \notin closed => InScope(b)
     /\ \A b \in closed : listed(b) \cup deferred[b] = {}

\* From its opening to its end, nothing a direct scope was opened with is
\* disposed, whatever is removed in the meantime and however scopes nest.
ScopeKeepsItsSnapshot ==
  [][\A s \in Scopes :
       scope[s].state = "open" /\ scope'[s] = scope[s] /\ scope[s].box \notin closed' =>
         ToSet(scope[s].entries) \cap disposed' \subseteq disposed]_vars

\* The runs of a call, as its strategy promises them.
Begins(c) == SubSeq(c.entries, 1, c.at)
RanBy(c, outcomes) == Keeping(c.ran, Nat \X outcomes)
Whom(es) == [i \in DOMAIN es |-> es[i][1]]

InTurn(c) == /\ IsPrefix(Whom(c.ran), c.entries)
             /\ \A i \in 1..Len(c.ran) - 1 : c.ran[i][2] # "fatal"

\* A lone hook begins when everything before it is over, and is over before
\* anything behind it begins.
ByBatches(c) ==
  \A i \in 1..c.at :
    plugin[c.entries[i]] \in Alone =>
      /\ \A j \in 1..i - 1 : c.entries[j] \notin c.pending
      /\ c.at > i => c.entries[i] \notin c.pending

\* The values behind the last handler that answered without one.
Standing(c) ==
  {c.ran[i] : i \in {i \in DOMAIN c.ran :
     c.ran[i][2] = "value" /\ \A j \in i + 1..Len(c.ran) : c.ran[j][2] \in {"value", "fatal"}}}

\* What the results so far add up to.
Promised(c) ==
  CASE c.kind \in {"first", "firstSync"} -> Whom(RanBy(c, {"value"}))
    [] c.kind \in {"reduce", "reduceSync"} -> Whom(RanBy(c, {"value", "null"}))
    [] c.kind = "renderable" -> Whom(Keeping(c.ran, Standing(c)))
    [] OTHER -> <<>>

\* A call is fulfilled when every handler came to its end, or one had the
\* answer, and with exactly that answer; it is rejected for a reason; until
\* then it waits for a handler or is being run.
AnswersAreEarned ==
  \A k \in Calls :
    LET c == call[k]
        stopped == RanBy(c, {"fatal"}) # <<>>
        refused == c.fatal \/ (~Finished(c) /\ Following(c) \in disposed)
    IN c.state # Idle =>
         /\ IF c.kind = "parallel" THEN ByBatches(c) ELSE InTurn(c)
         /\ c.state # "rejected" => c.answer = Promised(c)
         /\ c.state = "fulfilled" /\ ~Contained(c) =>
              /\ ~stopped /\ c.pending = {}
              /\ Len(c.ran) < Len(c.entries) =>
                   c.kind \in {"first", "firstSync"} /\ Len(c.answer) = 1
         /\ c.state = "running" => c.pending # {} \/ Contains(stack, k)
         /\ c.state = "rejected" =>
              \/ stopped \/ refused
              \/ "factory" \in Faults /\ ~c.prepared
              \/ "reducer" \in Faults /\ c.kind \in {"reduce", "reduceSync"}

-----------------------------------------------------------------------------
(* What the documentation says and the code does not do. *)

\* "A direct scope snapshots the normalized ordering for its bounded callback":
\* what the callback is given can be used, unless its container was disposed.
\* That holds of removals made during the callback.  One that a context factory
\* makes before the scope counts disposes a plugin that was prepared already.
SnapshotsAreUsable ==
  \A s \in Scopes :
    scope[s].state = "open" /\ scope[s].box \notin closed =>
      ToSet(scope[s].entries) \cap disposed = {}

=============================================================================
