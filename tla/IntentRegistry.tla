--------------------------- MODULE IntentRegistry ----------------------------
(***************************************************************************)
(* The registry of intents.  A call first lets the resolve hooks of the    *)
(* plugins add definitions, then matches, then asks the disambiguate hooks *)
(* if it must, then launches activities, one after the other; whatever it  *)
(* awaits, other calls and registrations go on in the meantime.  What      *)
(* becomes of a launched activity is the matter of Activities.             *)
(***************************************************************************)
EXTENDS Naturals, FiniteSets, SequencesExt, FiniteSetsExt

CONSTANTS
  Tokens,         \* what names are made of
  Definitions,    \* definitions of intents
  Templates,      \* the pairs <<scope, kernel>> that have a template
  Queries,        \* what is asked for: records of action, mimeType, vendor
  Undefined,      \* a field that is not given
  Operations,     \* the methods called
  Calls,
  MaxChanges      \* bound: registrations

Methods == {"resolve", "resolveAll", "require", "requireAll", "invoke", "invokeAll"}

Names == Seq(Tokens)
Modes == {"awaitable", "streaming", "detached"}
Definable ==
  [action : Names, mimeType : Names, scope : Names, kernel : Names, vendor : Names,
   priority : Nat \cup {Undefined}, mode : Modes \cup {Undefined}]

ASSUME RegistryAssumption ==
  /\ Operations \subseteq Methods
  /\ MaxChanges \in Nat
  /\ Definitions \subseteq Definable
  /\ Undefined \notin Nat \cup Modes

VARIABLES
  intents,   \* the registered intents, in order
  given,     \* the definitions register() has taken
  changes,   \* the number of registrations
  call       \* call[k]: a call of a method

vars == <<intents, given, changes, call>>

NoCall == [op |-> "none", query |-> Undefined, stage |-> "idle", seen |-> <<>>,
           ranks |-> <<>>, left |-> <<>>, launched |-> <<>>, chosen |-> 0]

-----------------------------------------------------------------------------
(* Registration *)

Joined(name, rest) == name \o <<":">> \o rest

\* Mutant: the vendor does not count.
IdentityWithoutVendor(x) ==
  Joined(x.action, Joined(x.mimeType, Joined(x.scope, x.kernel)))

\* buildIntentIdentityKey(): the fields with a colon between them.
Identity(x) ==
  Joined(x.action, Joined(x.mimeType, Joined(x.scope, Joined(x.kernel, x.vendor))))

\* Whether there is a template for the scope and the kernel, by the key of both.
Known(d) == \E t \in Templates : Joined(t[1], t[2]) = Joined(d.scope, d.kernel)

Or(field, default) == IF field = Undefined THEN default ELSE field

\* The constructor: a field that is not given gets the default.
Made(d) == [d EXCEPT !.priority = Or(@, 0), !.mode = Or(@, "awaitable")]

\* setMany(): a field that is not given stays as it is.
Updated(x, d) == [x EXCEPT !.priority = Or(d.priority, @), !.mode = Or(d.mode, @)]

\* register(): the same identity updates the first intent that has it.
With(xs, d) ==
  LET same == {i \in DOMAIN xs : Identity(xs[i]) = Identity(d)}
  IN IF same = {} THEN Append(xs, Made(d))
     ELSE [xs EXCEPT ![Min(same)] = Updated(@, d)]

\* Definitions in turn.
Registered(ds) ==
  LET after[n \in 0..Len(ds)] == IF n = 0 THEN intents ELSE With(after[n - 1], ds[n])
  IN after[Len(ds)]

RegisterAll(ds) ==
  /\ changes + Len(ds) <= MaxChanges
  /\ intents' = Registered(ds)
  /\ given' = given \cup ToSet(ds)
  /\ changes' = changes + Len(ds)

Register(d) ==
  /\ Known(d)
  /\ RegisterAll(<<d>>)
  /\ UNCHANGED call

-----------------------------------------------------------------------------
(* Matching *)

Agrees(asked, has) == asked = Undefined \/ asked = has

Fits(query, x) ==
  /\ Agrees(query.action, x.action)
  /\ Agrees(query.mimeType, x.mimeType)
  /\ Agrees(query.vendor, x.vendor)

\* The numbers up to n that are in S, in order.
Counting(S, n) ==
  LET upto[m \in 0..n] ==
        IF m = 0 THEN <<>> ELSE IF m \in S THEN Append(upto[m - 1], m) ELSE upto[m - 1]
  IN upto[n]

\* matchIntent() of all: the places of what fits and no match hook vetoes.
Matches(query, vetoed) ==
  Counting({i \in DOMAIN intents : Fits(query, intents[i])} \ vetoed, Len(intents))

Ranks(is) == [n \in DOMAIN is |-> intents[is[n]].priority]

-----------------------------------------------------------------------------
(* Calls *)

Goes(k, to) == call' = [call EXCEPT ![k] = to]

Begin(k, op, query) ==
  /\ call[k].stage = "idle"
  /\ Goes(k, [NoCall EXCEPT !.op = op, !.query = query, !.stage = "resolving"])
  /\ UNCHANGED <<intents, given, changes>>

Rejected(c) == [c EXCEPT !.stage = "rejected"]

\* A hook failed fatally; the registrations of a failed resolve hook are not made.
HookFails(k) ==
  /\ call[k].stage \in {"resolving", "matching", "choosing"}
  /\ Goes(k, Rejected(call[k]))
  /\ UNCHANGED <<intents, given, changes>>

\* runResolveHooks(): what the hooks returned is registered up to a definition
\* without a template, which fails the call; what was registered before it stays.
Resolve(k, ds) ==
  \E n \in 0..Len(ds) :
    /\ call[k].stage = "resolving"
    /\ \A i \in 1..n : Known(ds[i])
    /\ n < Len(ds) => ~Known(ds[n + 1])
    /\ RegisterAll(SubSeq(ds, 1, n))
    /\ Goes(k, IF n = Len(ds) THEN [call[k] EXCEPT !.stage = "matching"] ELSE Rejected(call[k]))

First(is) == IF is = <<>> THEN <<>> ELSE <<Head(is)>>

\* What the getters answer with the matches `is`: the first, or all of them.
Answered(c, is) ==
  IF is = <<>> /\ c.op \notin {"resolve", "resolveAll"} THEN Rejected(c)
  ELSE [c EXCEPT !.seen = IF c.op \in {"resolve", "require"} THEN First(is) ELSE is,
                 !.stage = IF c.op \in {"invoke", "invokeAll"} THEN "matched" ELSE "fulfilled"]

\* The lookup after the hooks; the match hooks are synchronous.
Match(k, vetoed) ==
  /\ call[k].stage = "matching"
  /\ Goes(k, Answered(call[k], Matches(call[k].query, vetoed)))
  /\ UNCHANGED <<intents, given, changes>>

Launching(c, is) == [c EXCEPT !.left = is, !.stage = "launching"]

\* The places in `is` that no other place there equals or outranks.
Unique(is) ==
  {i \in ToSet(is) : \A j \in ToSet(is) : j = i \/ intents[j].priority < intents[i].priority}
Only(S) == IF S = {} THEN <<>> ELSE <<CHOOSE i \in S : TRUE>>

\* Mutant: with several of the highest, the first wins.
WinnersOrFirst(c) ==
  LET top == {i \in ToSet(c.seen) : \A j \in ToSet(c.seen) :
                intents[j].priority <= intents[i].priority}
  IN IF c.op = "invokeAll" \/ Len(c.seen) = 1 THEN c.seen ELSE <<Min(top)>>

\* What is launched without asking: all, the only one, the unique highest.
Winners(c) == IF c.op = "invokeAll" \/ Len(c.seen) = 1 THEN c.seen ELSE Only(Unique(c.seen))

\* The caller of requireAll() goes on: it reads the priorities only now.
Decide(k) ==
  LET c == [call[k] EXCEPT !.ranks = Ranks(call[k].seen)]
  IN /\ c.stage = "matched"
     /\ Goes(k, IF Winners(c) # <<>> THEN Launching(c, Winners(c))
                ELSE [c EXCEPT !.stage = "choosing"])
     /\ UNCHANGED <<intents, given, changes>>

\* Mutant: whatever the hooks name is taken.
ChosenAnyhow(c, i) ==
  IF i # 0 THEN Launching([c EXCEPT !.chosen = i], <<i>>) ELSE Rejected(c)

\* What the hooks named must be one of those it was asked about.
Chosen(c, i) ==
  IF i \in ToSet(c.seen) THEN Launching([c EXCEPT !.chosen = i], <<i>>) ELSE Rejected(c)

\* The disambiguate hooks named an intent, or (0) none.
Choose(k, i) ==
  /\ call[k].stage = "choosing"
  /\ Goes(k, Chosen(call[k], i))
  /\ UNCHANGED <<intents, given, changes>>

\* Mutant: a failed activity is passed over.
LaunchedOrSkipped(c, active) ==
  LET left == Tail(c.left)
  IN [c EXCEPT !.left = left, !.launched = IF active THEN Append(@, Head(c.left)) ELSE @,
               !.stage = IF left = <<>> THEN "fulfilled" ELSE "launching"]

Launched(c, active) ==
  LET left == Tail(c.left)
  IN IF active
     THEN [c EXCEPT !.left = left, !.launched = Append(@, Head(c.left)),
                    !.stage = IF left = <<>> THEN "fulfilled" ELSE "launching"]
     ELSE Rejected(c)

\* The activity at the head of the list is active, or failed to be.
Launch(k, active) ==
  /\ call[k].stage = "launching"
  /\ Goes(k, Launched(call[k], active))
  /\ UNCHANGED <<intents, given, changes>>

-----------------------------------------------------------------------------
Init ==
  /\ intents = <<>> /\ given = {} /\ changes = 0
  /\ call = [k \in Calls |-> NoCall]

\* What resolve hooks return in one call: up to two definitions.
Hooked == {<<>>} \cup {<<d>> : d \in Definitions} \cup {<<d, e>> : d, e \in Definitions}

\* A call goes on by itself.
Step(k) ==
  \/ \E ds \in Hooked : Resolve(k, ds)
  \/ \E vetoed \in SUBSET DOMAIN intents : Match(k, vetoed)
  \/ Decide(k)
  \/ \E i \in 0..Len(intents) : Choose(k, i)
  \/ \E active \in BOOLEAN : Launch(k, active)
  \/ HookFails(k)

Next ==
  \/ \E d \in Definitions : Register(d)
  \/ \E k \in Calls, op \in Operations, q \in Queries : Begin(k, op, q)
  \/ \E k \in Calls : Step(k)

Spec == Init /\ [][Next]_vars

-----------------------------------------------------------------------------
(* Properties *)

Stages == {"idle", "resolving", "matching", "matched", "choosing", "launching",
           "fulfilled", "rejected"}

\* Intents have all their fields, and a call holds places of the registry.
TypeOK ==
  /\ \A i \in DOMAIN intents : intents[i].priority \in Nat /\ intents[i].mode # Undefined
  /\ given \subseteq Definitions
  /\ changes \in 0..MaxChanges
  /\ \A k \in Calls :
       /\ call[k].stage \in Stages
       /\ ToSet(call[k].seen \o call[k].left \o call[k].launched) \subseteq DOMAIN intents

SameFields(x, y) ==
  \A f \in {"action", "mimeType", "scope", "kernel", "vendor"} : x[f] = y[f]

\* charter/intents: identity is the five fields.  Every definition that was
\* taken has one intent with its own five fields, whatever was taken since.
EveryoneHasOne ==
  /\ TypeOK
  /\ \A d \in given : Cardinality({i \in DOMAIN intents : SameFields(intents[i], d)}) = 1

\* charter/intents: one match is invoked directly, a unique highest priority
\* wins, and otherwise one of the candidates that a hook named; priorities
\* are those of the moment the call decides, not those of the match.
WinnerIsRight ==
  \A k \in Calls : call[k].op = "invoke" =>
    \A i \in ToSet(call[k].left \o call[k].launched) :
      LET seen == call[k].seen
          ranks == call[k].ranks
          Above(n) == {m \in DOMAIN ranks : m # n /\ ranks[m] >= ranks[n]}
      IN \E n \in DOMAIN seen :
           /\ seen[n] = i
           /\ \/ Above(n) = {}
              \/ call[k].chosen = i /\ \A m \in DOMAIN seen : Above(m) # {}

\* invokeAll() launches every match in the order of registration, each once,
\* and stops at the first that fails; when it is fulfilled, all are launched.
MatchesAreLaunchedInTurn ==
  \A k \in Calls : call[k].op = "invokeAll" =>
    /\ \A m, n \in DOMAIN call[k].seen : m < n => call[k].seen[m] < call[k].seen[n]
    /\ IsPrefix(call[k].launched, call[k].seen)
    /\ call[k].stage = "fulfilled" => call[k].launched = call[k].seen
=============================================================================
