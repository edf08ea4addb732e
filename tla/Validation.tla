----------------------------- MODULE Validation -----------------------------
(***************************************************************************)
(* One call of a validator (custom/rule/index.ts): the check of the type,  *)
(* the sub-rules in the order of their phases, the descent into an object  *)
(* (object/) or an array (array/), and the issues that come back.          *)
(*                                                                         *)
(* A string is its length without the blanks around it and their number.   *)
(* An issue is where it is and what found it: wording is left out.  Of the *)
(* options of a validator there is bail, TRUE or not set.                  *)
(***************************************************************************)
EXTENDS Naturals, SequencesExt

CONSTANTS
  Layers,  \* sets of validators, each built from those of the sets before it
  Values,  \* values, with the values in them
  Keys     \* the keys of objects, in the order in which they are defined

Undefined == [is |-> "undefined"]

Types == {"string", "array", "object"}
Checks == [name : {"minLength", "maxLength", "trim"},
           order : {"pre", "default", "post"}, limit : Nat]

\* Checks are for strings and arrays; trim is for strings, and goes first.
Suits(check, type) ==
  /\ type # "object"
  /\ check.name = "trim" => type = "string"
  /\ check.name = "trim" <=> check.order = "pre"

\* The validators there are.
Rules == UNION {Layers[n] : n \in DOMAIN Layers}

ASSUME LayersAssumption == Layers \in Seq(SUBSET Rules)

ASSUME KeysAssumption == Keys \in Seq(ToSet(Keys)) /\ IsInjective(Keys)

ASSUME ValuesAssumption ==
  /\ Undefined \in Values
  /\ \A v \in Values :
       \/ v.is \notin Types
       \/ v \in [is : {"string"}, core : Nat, blanks : Nat]
       \/ v \in [is : {"array"}, entries : Seq(Values)]
       \/ v \in [is : {"object"}, entries : UNION {[ks -> Values] : ks \in SUBSET ToSet(Keys)}]

ASSUME RulesAssumption ==
  \A n \in DOMAIN Layers : \A r \in Layers[n] :
    /\ r.type \in Types
    /\ r.checks \in Seq(Checks) /\ \A i \in DOMAIN r.checks : Suits(r.checks[i], r.type)
    /\ \A p \in DOMAIN r.shape : \E m \in 1..(n - 1) : r.shape[p] \in Layers[m]
    /\ r.type = "array" => DOMAIN r.shape = {1}
    /\ r.type = "object" => DOMAIN r.shape \subseteq ToSet(Keys)
    /\ r.extra \in {"strip", "reject", "passthrough"}
    /\ {r.optional, r.bail} \subseteq BOOLEAN
    /\ r.default \in Values

VARIABLES
  asked,   \* the rule, the value and the bail option of the call
  answer   \* its result

validationVars == <<asked, answer>>

NoAnswer == [value |-> Undefined, issues |-> <<>>, given |-> FALSE]

\* parent is "" for what the check of a type finds.
Issue(path, parent, rule) == [path |-> path, parent |-> parent, rule |-> rule]

\* A result is a failure when there are issues.
Ok(value) == [value |-> value, issues |-> <<>>]
Err(issues) == [value |-> Undefined, issues |-> issues]
Succeeds(result) == result.issues = <<>>
Stopped(result, bail) == bail /\ ~Succeeds(result)

Prefixed(key, issues) ==
  [i \in DOMAIN issues |-> [issues[i] EXCEPT !.path = <<key>> \o @]]
-----------------------------------------------------------------------------
(* Sub-rules.                                                              *)

\* length, of a string or of an array.
Length(v) == IF v.is = "string" THEN v.core + v.blanks ELSE Len(v.entries)

Passes(check, v) ==
  CASE check.name = "minLength" -> Length(v) >= check.limit
    [] check.name = "maxLength" -> Length(v) <= check.limit
    [] check.name = "trim" -> TRUE

Changed(check, v) == IF check.name = "trim" THEN [v EXCEPT !.blanks = 0] ELSE v

\* The checks of a phase, as they were declared.
InPhase(checks, phase) ==
  LET upto[n \in 0..Len(checks)] ==
        IF n = 0 THEN <<>>
        ELSE IF checks[n].order = phase THEN Append(upto[n - 1], checks[n]) ELSE upto[n - 1]
  IN  upto[Len(checks)]

\* Mutant: rules run as they were declared.
AsDeclared(checks) == checks

ByPhase(checks) ==
  InPhase(checks, "pre") \o InPhase(checks, "default") \o InPhase(checks, "post")

\* One sub-rule: it gets what the one before it made of the value.
Checked(done, check, bail, parent) ==
  IF Stopped(done, bail) THEN done
  ELSE IF Passes(check, done.value) THEN [done EXCEPT !.value = Changed(check, @)]
  ELSE [done EXCEPT !.issues = Append(@, Issue(<<>>, parent, check.name))]

\* Mutant: bail is not looked at among sub-rules.
ExecuteAllRules(v, checks, bail, parent) ==
  LET after[n \in 0..Len(checks)] ==
        IF n = 0 THEN Ok(v) ELSE Checked(after[n - 1], checks[n], FALSE, parent)
  IN  after[Len(checks)]

\* The issues of all that fail are collected, unless bail is set.
ExecuteRules(v, checks, bail, parent) ==
  LET after[n \in 0..Len(checks)] ==
        IF n = 0 THEN Ok(v) ELSE Checked(after[n - 1], checks[n], bail, parent)
  IN  after[Len(checks)]
-----------------------------------------------------------------------------
(* The descent.                                                            *)

\* The keys that are in S, in order.
KeysIn(S) ==
  LET upto[n \in 0..Len(Keys)] ==
        IF n = 0 THEN <<>>
        ELSE IF Keys[n] \in S THEN Append(upto[n - 1], Keys[n]) ELSE upto[n - 1]
  IN  upto[Len(Keys)]

\* The places a composite validator has a validator for, and that validator.
Places(rule, v) == IF rule.type = "array" THEN DOMAIN v.entries ELSE DOMAIN rule.shape
ChildRule(rule, place) == IF rule.type = "array" THEN rule.shape[1] ELSE rule.shape[place]
ChildValue(v, place) == IF place \in DOMAIN v.entries THEN v.entries[place] ELSE Undefined

\* Where the descent goes: the elements, or the keys of the shape and then those
\* that are not in it.
Route(rule, v) ==
  IF rule.type = "array" THEN [i \in 1..Len(v.entries) |-> i]
  ELSE KeysIn(DOMAIN rule.shape) \o KeysIn(DOMAIN v.entries \ DOMAIN rule.shape)

\* A property by itself, and properties added to others.
Nothing == [p \in {} |-> Undefined]
Single(p, value) == [k \in {p} |-> value]
Added(f, g) == [p \in DOMAIN f \cup DOMAIN g |-> IF p \in DOMAIN f THEN f[p] ELSE g[p]]

\* What is not in the shape is refused, kept or left out.
OfExtra(rule, v, k) ==
  CASE rule.extra = "strip" -> Ok(Nothing)
    [] rule.extra = "reject" -> Err(<<Issue(<<k>>, "object", "extra")>>)
    [] rule.extra = "passthrough" -> Ok(Single(k, v.entries[k]))

\* Issues of a child come back with its key in front of their paths.
OfChild(p, child) ==
  IF Succeeds(child) THEN Ok(Single(p, child.value)) ELSE Err(Prefixed(p, child.issues))

Taken(done, part, bail) ==
  IF Stopped(done, bail) THEN done
  ELSE IF Succeeds(part) THEN [done EXCEPT !.value = Added(part.value, @)]
  ELSE [done EXCEPT !.issues = @ \o part.issues]

\* What the parts come to.
Gathered(parts, bail) ==
  LET after[n \in 0..Len(parts)] ==
        IF n = 0 THEN Ok(Nothing) ELSE Taken(after[n - 1], parts[n], bail)
  IN  after[Len(parts)]

\* children: the results of the places there are validators for.
Traverse(rule, v, bail, children) ==
  LET route == Route(rule, v)
      all == Gathered([i \in DOMAIN route |-> IF route[i] \in Places(rule, v)
                                            THEN OfChild(route[i], children[route[i]])
                                            ELSE OfExtra(rule, v, route[i])], bail)
  IN  IF Succeeds(all) THEN Ok([v EXCEPT !.entries = all.value]) ELSE Err(all.issues)

Calls == [rule : Rules, value : Values, bail : BOOLEAN]

Inner(call, v, place) ==
  [rule |-> ChildRule(call.rule, place), value |-> ChildValue(v, place), bail |-> call.bail]

\* An optional rule takes undefined, or puts its default in the place of it.
Filled(rule, value) == IF rule.optional /\ value = Undefined THEN rule.default ELSE value

\* The stages of createRule(); one that fails is the last.  A rule inside another
\* is called with the options of the call: what it says of bail itself does not count.
Validate[call \in Calls] ==
  LET rule == call.rule
      v == Filled(rule, call.value)
      checked == ExecuteRules(v, ByPhase(rule.checks), call.bail, rule.type)
  IN  IF rule.optional /\ v = Undefined THEN Ok(Undefined)
      ELSE IF v.is # rule.type THEN Err(<<Issue(<<>>, "", rule.type)>>)
      ELSE IF ~Succeeds(checked) THEN Err(checked.issues)
      ELSE IF rule.type = "string" THEN checked
      ELSE Traverse(rule, checked.value, call.bail,
                    [p \in Places(rule, checked.value) |-> Validate[Inner(call, checked.value, p)]])
-----------------------------------------------------------------------------
\* What the call says of bail goes before what the rule called says of it.
Bails(call) ==
  IF call.bail = "unset" THEN call.rule.bail ELSE call.bail = "yes"

Asked(call, bail) == [rule |-> call.rule, value |-> call.value, bail |-> bail]

Call ==
  /\ ~answer.given
  /\ LET result == Validate[Asked(asked, Bails(asked))]
     IN  answer' = [value |-> result.value, issues |-> result.issues, given |-> TRUE]
  /\ UNCHANGED asked

ValidationInit ==
  /\ asked \in [rule : Rules, value : Values, bail : {"unset", "yes", "no"}]
  /\ answer = NoAnswer

ValidationSpec == ValidationInit /\ [][Call]_validationVars
-----------------------------------------------------------------------------
(* What a validator means, whatever the order in which it works.           *)

Trims(rule) == \E i \in DOMAIN rule.checks : rule.checks[i].name = "trim"

\* What the checks of a rule see of a value: the default, and no blanks.
Seen(rule, value) ==
  LET v == Filled(rule, value)
  IN  IF v.is = "string" /\ Trims(rule) THEN [v EXCEPT !.blanks = 0] ELSE v

Skipped(rule, value) == rule.optional /\ Seen(rule, value) = Undefined

Cases == [rule : Rules, value : Values]
Part(rule, v, place) == [rule |-> ChildRule(rule, place), value |-> ChildValue(v, place)]

Below(place, issues) == {[issue EXCEPT !.path = <<place>> \o @] : issue \in issues}

\* Everything that is wrong with a value.
Wrong[c \in Cases] ==
  LET rule == c.rule
      v == Seen(rule, c.value)
      failing == {i \in DOMAIN rule.checks : ~Passes(rule.checks[i], v)}
      refused == {k \in DOMAIN v.entries \ DOMAIN rule.shape : rule.extra = "reject"}
  IN  IF Skipped(rule, c.value) THEN {}
      ELSE IF v.is # rule.type THEN {Issue(<<>>, "", rule.type)}
      ELSE IF failing # {} THEN {Issue(<<>>, rule.type, rule.checks[i].name) : i \in failing}
      ELSE IF rule.type = "string" THEN {}
      ELSE (UNION {Below(p, Wrong[Part(rule, v, p)]) : p \in Places(rule, v)})
           \cup IF rule.type = "array" THEN {} ELSE {Issue(<<k>>, "object", "extra") : k \in refused}

\* What is handed on of a value with which nothing is wrong.
Clean[c \in Cases] ==
  LET rule == c.rule
      v == Seen(rule, c.value)
      kept == IF rule.type = "object" /\ rule.extra = "passthrough" THEN DOMAIN v.entries ELSE {}
  IN  IF Skipped(rule, c.value) \/ v.is # rule.type \/ rule.type = "string" THEN v
      ELSE [v EXCEPT !.entries = [p \in Places(rule, v) \cup kept |->
              IF p \in Places(rule, v) THEN Clean[Part(rule, v, p)] ELSE @[p]]]

\* A value is accepted exactly when nothing is wrong with it, and then it is
\* the cleaned value that is handed on; when everything is asked for, all that
\* is wrong is reported, once, each at its place.
VerdictIsRight ==
  answer.given =>
    LET c == [rule |-> asked.rule, value |-> asked.value]
    IN  /\ Succeeds(answer) <=> Wrong[c] = {}
        /\ Succeeds(answer) => answer.value = Clean[c]
        /\ ToSet(answer.issues) \subseteq Wrong[c] /\ IsInjective(answer.issues)
        /\ ~Bails(asked) => ToSet(answer.issues) = Wrong[c]

\* bail changes nothing but the length of the report: its only issue is the
\* one that heads the report of the same call without it, at any depth.
BailStopsAtTheFirst ==
  answer.given /\ Bails(asked) =>
    LET all == Validate[Asked(asked, FALSE)]
    IN  /\ answer.issues = IF Succeeds(all) THEN <<>> ELSE <<Head(all.issues)>>
        /\ answer.value = all.value
-----------------------------------------------------------------------------
(* What the charter says and the code does not do.                         *)

\* "bail: true stops at the first failure within an accumulation scope": also
\* in the scope of a validator inside the one that is called.
NestedBailCounts ==
  answer.given /\ asked.rule.type # "string" =>
    \A i, j \in DOMAIN answer.issues :
      LET p == answer.issues[i].path
          q == answer.issues[j].path
      IN  p # <<>> /\ q # <<>> /\ p[1] = q[1] /\ i # j =>
            ~ChildRule(asked.rule, p[1]).bail
=============================================================================
