---------------------------- MODULE MC_Validation ----------------------------
(* Instances of Validation for TLC. *)
EXTENDS Validation

CONSTANTS key1, key2

TwoKeys == <<key1, key2>>

String(core, blanks) == [is |-> "string", core |-> core, blanks |-> blanks]
Array(entries) == [is |-> "array", entries |-> entries]
Object(entries) == [is |-> "object", entries |-> entries]

Strings == {String(core, blanks) : core \in 0..2, blanks \in 0..1}
Scalars == Strings \cup {Undefined, [is |-> "number"]}

\* Objects with any of the keys.
ObjectsOf(values) ==
  {Object(entries) : entries \in UNION {[ks -> values] : ks \in SUBSET {key1, key2}}}
ArraysOf(values) ==
  {Array(<<>>)} \cup {Array(<<v>>) : v \in values} \cup {Array(<<v, w>>) : v, w \in values}

\* Composite values two deep.
SomeValues ==
  LET few == {String(0, 1), String(1, 0), String(1, 1), Undefined}
      inner == {String(0, 1), Array(<<>>), Array(<<String(0, 1), String(0, 0)>>),
                Array(<<String(1, 1)>>), Object(key1 :> String(2, 1)),
                Object(key1 :> String(2, 0) @@ key2 :> String(0, 0))}
  IN  Scalars \cup inner \cup ObjectsOf(few) \cup ArraysOf(few) \cup ObjectsOf(inner) \cup ArraysOf(inner)

Trim == [name |-> "trim", order |-> "pre", limit |-> 0]
AtLeast(n) == [name |-> "minLength", order |-> "default", limit |-> n]
AtMost(n, order) == [name |-> "maxLength", order |-> order, limit |-> n]

\* A rule with nothing but what is given.
Rule(type, checks, shape) ==
  [type |-> type, checks |-> checks, shape |-> shape, extra |-> "strip",
   bail |-> FALSE, optional |-> FALSE, default |-> Undefined]
Optional(rule, default) == [rule EXCEPT !.optional = TRUE, !.default = default]

StringRules ==
  {Rule("string", checks, <<>>) : checks \in
     {<<>>, <<AtLeast(1), Trim>>, <<AtMost(1, "post"), AtLeast(1), Trim>>,
      <<AtLeast(3), AtMost(0, "default")>>}}
LeafRules ==
  StringRules \cup {Optional(rule, default) : rule \in StringRules,
                                             default \in {Undefined, String(1, 1), String(0, 0)}}

ObjectRules(children) ==
  {[Rule("object", <<>>, shape) EXCEPT !.extra = extra] :
     shape \in UNION {[ks -> children] : ks \in {{key1}, {key1, key2}}},
     extra \in {"strip", "reject", "passthrough"}}
ArrayRules(children) ==
  {Rule("array", checks, <<child>>) : checks \in {<<>>, <<AtLeast(1), AtMost(1, "default")>>},
                                      child \in children}

\* Validators two deep, some that bail: leaves, what is built of them, and what
\* is built of both.
SomeLayers ==
  LET short == Rule("string", <<AtLeast(3), AtMost(0, "default")>>, <<>>)
      trimmed == Optional(Rule("string", <<Trim>>, <<>>), Undefined)
      leaves == {Rule("string", <<AtMost(1, "post"), AtLeast(1), Trim>>, <<>>),
                 [short EXCEPT !.bail = TRUE],
                 Optional(Rule("string", <<AtLeast(1), Trim>>, <<>>), String(1, 1))}
      inner == {Rule("array", <<>>, <<short>>),
                [Rule("object", <<>>, key1 :> trimmed) EXCEPT !.extra = "reject", !.bail = TRUE]}
      Both(rules) == rules \cup {[rule EXCEPT !.bail = TRUE] : rule \in rules}
  IN  <<Both(LeafRules \cup leaves \cup {trimmed}), inner,
        Both(ObjectRules(leaves \cup inner) \cup ArrayRules(leaves \cup inner))>>
=============================================================================
