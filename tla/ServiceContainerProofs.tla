----------------------- MODULE ServiceContainerProofs ------------------------
(***************************************************************************)
(* Proofs about ServiceContainer, for trees of any shape and any           *)
(* factories.  While a resolution runs a factory, its registration stays   *)
(* as it was when the factory was called, with an empty cache: names under *)
(* way differ, and nothing is disposed on the way.  Below them there may   *)
(* be the factory of a value given to set(), of a registration newer than  *)
(* all there are.  Disposal goes through the order of resolution from its  *)
(* end, which keeps whatever depends on a value behind that value.         *)
(***************************************************************************)
EXTENDS ServiceContainer, SequenceTheorems, WellFoundedInduction, TLAPS

\* A version is of one name, in all containers, factories and values.
OneNameEach ==
  /\ \A c, d \in Containers, n, m \in Names :
       bindings[c][n].version = bindings[d][m].version /\ bindings[c][n].version # 0 => n = m
  /\ \A i \in 1..Len(stack), d \in Containers, m \in Names :
       stack[i].version = bindings[d][m].version => stack[i].name = m
  /\ \A i \in 1..Len(made), d \in Containers, m \in Names :
       made[i].version = bindings[d][m].version => made[i].name = m

\* What is registered has a version, and a value has it from the start.
Registered ==
  \A c \in Containers, n \in Names :
    LET b == bindings[c][n]
    IN /\ b.kind = "none" <=> b.version = 0
       /\ b.kind = "value" /\ state[c] # "disposed" => b.cached # 0

Current ==
  \A c \in Containers, n \in Names :
    LET b == bindings[c][n]
    IN b.cached # 0 => /\ made[b.cached].at = c /\ made[b.cached].name = n
                       /\ made[b.cached].version = b.version

\* A value that was kept is still in the cache, or its registration or its
\* container is gone.
Remembered ==
  \A i \in 1..Len(made) :
    LET b == bindings[made[i].at][made[i].name]
    IN made[i].kept =>
         /\ made[i].version <= b.version
         /\ made[i].version = b.version /\ state[made[i].at] # "disposed" => b.cached = i

\* The factories that resolutions have under way.
Running ==
  /\ \A i \in 1..Len(stack) :
       /\ Live(stack[i].at)
       /\ stack[i].kept /\ ~stack[i].given =>
            LET b == bindings[stack[i].at][stack[i].name]
            IN b.version = stack[i].version /\ b.cached = 0
  /\ \A i, j \in 1..Len(stack) :
       i # j /\ ~stack[i].given /\ ~stack[j].given => stack[i].name # stack[j].name

\* v is newer than what is registered, was made or runs above place k.
Newest(v, k) ==
  /\ \A c \in Containers, n \in Names : bindings[c][n].version < v
  /\ \A j \in 1..Len(made) : made[j].version < v
  /\ \A j \in 1..Len(stack) : j < k => stack[j].version < v

\* The factory of a value that set() called is below all others.
Given ==
  \A i \in 1..Len(stack) :
    stack[i].given => i = Len(stack) /\ stack[i].kept /\ Newest(stack[i].version, i)

IInv ==
  /\ TypeOK /\ OneNameEach /\ Registered /\ Current /\ Remembered /\ Running /\ Given
  /\ OneValuePerScope

-----------------------------------------------------------------------------
\* The invariant implies the properties.
LEMMA Implies == IInv => OneValuePerScope /\ CacheIsCurrent
BY DEF IInv, CacheIsCurrent, Current

\* It holds in an empty container.
LEMMA InitHolds == Init => IInv
<1>. SUFFICES ASSUME Init PROVE IInv OBVIOUS
<1>1. Len(stack) = 0 /\ Len(made) = 0 /\ stack \in Seq(Values) /\ made \in Seq(Values)
  BY DEF Init
<1>2. Nothing \in Bindings /\ Nothing.kind = "none" /\ Nothing.version = 0 /\ Nothing.cached = 0
  BY <1>1 DEF Nothing, Bindings, Ids, Init, Kinds
<1>3. /\ bindings \in [Containers -> [Names -> Bindings]]
      /\ \A c \in Containers, n \in Names : bindings[c][n] = Nothing
  BY <1>2 DEF Init
<1>4. TypeOK
  <2>1. order \in [Containers -> Seq(Names)] BY DEF Init
  <2>2. state \in [Containers -> States] /\ parent \in [Containers -> Containers \cup {NoOne}]
    BY DEF Init, States
  <2>. QED BY <1>1, <1>3, <2>1, <2>2 DEF TypeOK, Init
<1>. QED BY <1>1, <1>2, <1>3, <1>4
         DEF IInv, OneNameEach, Registered, Current, Remembered, Running, Given,
             OneValuePerScope

\* More registrations and values make the kinds of things no smaller.
LEMMA KindsGrow ==
  ASSUME registered \in Nat, registered' \in Nat, registered <= registered',
         Len(made) \in Nat, Len(made') \in Nat, Len(made) <= Len(made')
  PROVE  Ids \subseteq Ids' /\ Bindings \subseteq Bindings' /\ Values \subseteq Values'
<1>1. Ids \subseteq Ids' BY DEF Ids
<1>2. 0..registered \subseteq 0..registered' /\ 1..registered \subseteq 1..registered' OBVIOUS
<1>3. Bindings \subseteq Bindings' BY <1>1, <1>2 DEF Bindings
<1>4. Values \subseteq Values' BY <1>1, <1>2 DEF Values
<1>. QED BY <1>1, <1>3, <1>4

\* A sequence over a set is one over a larger set.
LEMMA SeqGrows ==
  ASSUME NEW S, NEW T, S \subseteq T, NEW s \in Seq(S)
  PROVE  s \in Seq(T)
BY SMT

\* A new factory on the stack.
LEMMA Pushed ==
  ASSUME NEW S, NEW s \in Seq(S), NEW x \in S
  PROVE  /\ <<x>> \o s \in Seq(S) /\ Len(<<x>> \o s) = Len(s) + 1
         /\ (<<x>> \o s)[1] = x
         /\ \A i \in 1..Len(s) : (<<x>> \o s)[i + 1] = s[i]
         /\ \A i \in 1..Len(s) + 1 : i # 1 => i - 1 \in 1..Len(s) /\ (<<x>> \o s)[i] = s[i - 1]
BY SMT

\* Taking the first element off a stack.
LEMMA Popped ==
  ASSUME NEW S, NEW s \in Seq(S), s # <<>>
  PROVE  /\ Head(s) \in S /\ Head(s) = s[1] /\ 1 \in 1..Len(s)
         /\ Tail(s) \in Seq(S) /\ Len(Tail(s)) = Len(s) - 1 /\ Len(s) \in Nat
         /\ \A i \in 1..Len(s) - 1 : i + 1 \in 1..Len(s) /\ Tail(s)[i] = s[i + 1]
BY SMT

\* What the invariant says of one registration.
LEMMA BindingFields ==
  ASSUME IInv, NEW c \in Containers, NEW n \in Names
  PROVE  /\ bindings[c][n] \in Bindings
         /\ bindings[c][n].version \in 0..registered /\ bindings[c][n].cached \in 0..Len(made)
         /\ registered \in Nat /\ Len(made) \in Nat
<1>1. bindings \in [Containers -> [Names -> Bindings]] /\ registered \in Nat /\ made \in Seq(Values)
  BY DEF IInv, TypeOK
<1>2. bindings[c][n] \in Bindings BY <1>1
<1>. QED BY <1>1, <1>2 DEF Bindings, Ids

\* The version of a value is that of a registration.
LEMMA ValueFields ==
  ASSUME registered \in Nat, NEW x \in Values
  PROVE  /\ x.version \in 1..registered /\ x.version \in Nat /\ x.version # 0
         /\ x.version <= registered
         /\ x.at \in Containers /\ x.name \in Names /\ x.kept \in BOOLEAN
         /\ x.given \in BOOLEAN /\ x.uses \in SUBSET Ids
BY DEF Values

\* What the invariant says of one value that was made.
LEMMA MadeFields ==
  ASSUME IInv, NEW i \in 1..Len(made)
  PROVE  /\ made[i] \in Values /\ made[i].version \in Nat /\ made[i].version # 0
         /\ made[i].version <= registered
         /\ made[i].at \in Containers /\ made[i].name \in Names
<1>1. registered \in Nat /\ made \in Seq(Values) BY DEF IInv, TypeOK
<1>2. made[i] \in Values BY <1>1
<1>. QED BY <1>1, <1>2, ValueFields

\* A registration without its cached value is a registration.
LEMMA Emptied ==
  ASSUME Len(made) \in Nat, NEW b \in Bindings
  PROVE  LET e == [b EXCEPT !.cached = 0]
         IN  e \in Bindings /\ e.version = b.version /\ e.kind = b.kind /\ e.cached = 0
BY DEF Bindings, Ids

\* A registration that has cached a value is a registration.
LEMMA Cached ==
  ASSUME NEW K, NEW V, NEW I, NEW k \in I, NEW b \in [kind : K, version : V, cached : I]
  PROVE  LET e == [b EXCEPT !.cached = k]
         IN  /\ e \in [kind : K, version : V, cached : I]
             /\ e.version = b.version /\ e.kind = b.kind /\ e.cached = k
OBVIOUS

\* A factory that is handed a value.
LEMMA Handed ==
  ASSUME NEW V, NEW I, NEW k \in I,
         NEW y \in [name : Names, version : V, at : Containers,
                    kept : BOOLEAN, given : BOOLEAN, uses : SUBSET I]
  PROVE  LET x == [y EXCEPT !.uses = @ \cup {k}]
         IN  /\ x \in [name : Names, version : V, at : Containers,
                       kept : BOOLEAN, given : BOOLEAN, uses : SUBSET I]
             /\ x.name = y.name /\ x.version = y.version /\ x.at = y.at /\ x.kept = y.kept
             /\ x.given = y.given
OBVIOUS

\* Replacing the top of a stack.
LEMMA HeadChanged ==
  ASSUME NEW S, NEW s \in Seq(S), s # <<>>, NEW x \in S
  PROVE  LET t == [s EXCEPT ![1] = x]
         IN  /\ t \in Seq(S) /\ Len(t) = Len(s) /\ 1 \in 1..Len(s)
             /\ t[1] = x /\ \A i \in 1..Len(s) : i # 1 => t[i] = s[i]
OBVIOUS

-----------------------------------------------------------------------------
(* Registration, forks, freezing and disposal: no factory runs. *)

\* A registration that replaces another takes its cache along.
LEMMA RegisteringKeeps ==
  ASSUME IInv, NEW c \in Containers, NEW n \in Names, NEW kind \in Kinds,
         NEW v \in 1..registered', NEW w \in Values', Newest(v, 1),
         registered' \in Nat, registered <= registered',
         w.name = n, w.version = v, w.at = c, w.kept,
         made' = IF kind = "value" THEN Append(made, w) ELSE made,
         bindings' = [bindings EXCEPT ![c][n] =
           [kind |-> kind, version |-> v, cached |-> IF kind = "value" THEN Len(made') ELSE 0]],
         stack' = <<>>, UNCHANGED <<tree, order>>
  PROVE  IInv'
<1>. DEFINE k == Len(made)
<1>1. /\ registered \in Nat /\ k \in Nat
      /\ made \in Seq(Values) /\ bindings \in [Containers -> [Names -> Bindings]]
  BY DEF IInv, TypeOK
<1>3. /\ Len(made') = IF kind = "value" THEN k + 1 ELSE k
      /\ \A i \in 1..k : made'[i] = made[i]
      /\ kind = "value" => made'[k + 1] = w
  BY <1>1
<1>4. Ids \subseteq Ids' /\ Bindings \subseteq Bindings' /\ Values \subseteq Values'
  BY <1>1, <1>3, KindsGrow
<1>6. made' \in Seq(Values')
  <2>1. made \in Seq(Values') BY <1>1, <1>4, SeqGrows
  <2>. QED BY <2>1
<1>. DEFINE b == [kind |-> kind, version |-> v, cached |-> IF kind = "value" THEN k + 1 ELSE 0]
<1>7. bindings' = [bindings EXCEPT ![c][n] = b] BY <1>3
<1>8. b \in Bindings' BY <1>1, <1>3 DEF Bindings, Ids, Kinds
<1>9. /\ bindings' \in [Containers -> [Names -> Bindings']]
      /\ \A d \in Containers, m \in Names :
           bindings'[d][m] = IF d = c /\ m = n THEN b ELSE bindings[d][m]
  BY <1>1, <1>4, <1>7, <1>8
<1>10. b.kind = kind /\ b.version = v /\ b.cached = IF kind = "value" THEN k + 1 ELSE 0
  OBVIOUS
<1>11. \A d \in Containers, m \in Names : bindings[d][m] \in Bindings BY <1>1
<1>12. \A d \in Containers, m \in Names :
        /\ bindings[d][m].version \in 0..registered /\ bindings[d][m].cached \in 0..k
        /\ bindings[d][m].version < v
  BY <1>11 DEF Bindings, Ids, Newest
<1>13. \A i \in 1..k :
        /\ made[i] \in Values /\ made[i].version \in Nat /\ made[i].version < v
        /\ made[i].at \in Containers /\ made[i].name \in Names
  BY MadeFields DEF Newest
<1>. HIDE DEF b
<1>14. v \in Nat /\ v # 0 OBVIOUS
<1>15. w.name = n /\ w.version = v /\ w.at = c /\ w.kept OBVIOUS
<1>16. TypeOK'
  <2>1. stack' \in Seq(Values') BY <1>1
  <2>. QED BY <1>1, <1>6, <1>9, <1>14, <2>1 DEF TypeOK, IInv, tree
<1>17. OneNameEach'
  <2>1. ASSUME NEW d \in Containers, NEW e \in Containers, NEW m \in Names, NEW q \in Names,
               bindings'[d][m].version = bindings'[e][q].version, bindings'[d][m].version # 0
        PROVE  m = q
    <3>1. \A f \in Containers, r \in Names : bindings[f][r].version # v
      BY <1>1, <1>12, <1>14
    <3>2. CASE (d = c /\ m = n) \/ (e = c /\ q = n)
      BY <1>9, <1>10, <2>1, <3>1, <3>2
    <3>3. CASE ~(d = c /\ m = n) /\ ~(e = c /\ q = n)
      <4>1. bindings'[d][m] = bindings[d][m] /\ bindings'[e][q] = bindings[e][q]
        BY <1>9, <3>3
      <4>. QED BY <2>1, <4>1 DEF IInv, OneNameEach
    <3>. QED BY <3>2, <3>3
  <2>2. ASSUME NEW i \in 1..Len(made'), NEW d \in Containers, NEW m \in Names,
               made'[i].version = bindings'[d][m].version
        PROVE  made'[i].name = m
    <3>1. CASE i \in 1..k
      <4>1. made'[i] = made[i] /\ made[i].version # v BY <1>1, <1>3, <1>13, <1>14, <3>1
      <4>2. bindings'[d][m] = bindings[d][m] BY <1>9, <1>10, <2>2, <4>1
      <4>. QED BY <2>2, <3>1, <4>1, <4>2 DEF IInv, OneNameEach
    <3>2. CASE i = k + 1 /\ kind = "value"
      <4>1. made'[i].version = v /\ made'[i].name = n BY <1>3, <1>15, <3>2
      <4>2. bindings[d][m].version # v BY <1>1, <1>12, <1>14
      <4>. QED BY <1>9, <2>2, <4>1, <4>2
    <3>. QED BY <1>1, <1>3, <3>1, <3>2
  <2>3. Len(stack') = 0 BY <1>1
  <2>. QED BY <2>1, <2>2, <2>3 DEF OneNameEach
<1>18. Registered'
  BY <1>1, <1>9, <1>10, <1>14 DEF IInv, Registered, tree, Kinds
<1>19. Current'
  <2>. SUFFICES ASSUME NEW d \in Containers, NEW m \in Names, bindings'[d][m].cached # 0
       PROVE /\ made'[bindings'[d][m].cached].at = d /\ made'[bindings'[d][m].cached].name = m
             /\ made'[bindings'[d][m].cached].version = bindings'[d][m].version
    BY DEF Current
  <2>1. CASE d = c /\ m = n BY <1>3, <1>9, <1>10, <1>15, <2>1
  <2>2. CASE ~(d = c /\ m = n)
    <3>1. bindings'[d][m] = bindings[d][m] /\ bindings[d][m].cached \in 1..k
      BY <1>9, <1>12, <2>2
    <3>. QED BY <1>3, <3>1 DEF IInv, Current
  <2>. QED BY <2>1, <2>2
<1>20. Remembered'
  <2>. SUFFICES ASSUME NEW i \in 1..Len(made'), made'[i].kept
       PROVE LET z == bindings'[made'[i].at][made'[i].name]
             IN /\ made'[i].version <= z.version
                /\ made'[i].version = z.version /\ state'[made'[i].at] # "disposed" => z.cached = i
    BY DEF Remembered
  <2>1. CASE i \in 1..k
    <3>1. made'[i] = made[i] BY <1>3, <2>1
    <3>2. state' = state /\ made[i].version < v /\ made[i].at \in Containers /\ made[i].name \in Names
      BY <1>1, <1>13, <1>14, <2>1 DEF tree
    <3>3. CASE made[i].at = c /\ made[i].name = n
      BY <1>9, <1>10, <1>13, <1>14, <2>1, <3>1, <3>2, <3>3
    <3>4. CASE ~(made[i].at = c /\ made[i].name = n)
      <4>1. bindings'[made[i].at][made[i].name] = bindings[made[i].at][made[i].name]
        BY <1>9, <3>2, <3>4
      <4>. QED BY <2>1, <3>1, <3>2, <4>1 DEF IInv, Remembered
    <3>. QED BY <3>3, <3>4
  <2>2. CASE i = k + 1 /\ kind = "value"
    BY <1>3, <1>9, <1>10, <1>14, <1>15, <2>2
  <2>3. i \in 1..k \/ (i = k + 1 /\ kind = "value") BY <1>1, <1>3
  <2>. QED BY <2>1, <2>2, <2>3
<1>21. Running' /\ Given' BY DEF Running, Given
<1>22. OneValuePerScope'
  <2>. SUFFICES ASSUME NEW i \in 1..Len(made'), NEW j \in 1..Len(made'),
                       made'[i].kept, made'[j].kept,
                       made'[i].version = made'[j].version, made'[i].at = made'[j].at
       PROVE i = j
    BY DEF OneValuePerScope
  <2>1. CASE i \in 1..k /\ j \in 1..k
    BY <1>3, <2>1 DEF IInv, OneValuePerScope
  <2>2. CASE kind = "value" /\ (i = k + 1 \/ j = k + 1)
    <3>1. \A q \in 1..k : made'[q].version # v BY <1>1, <1>3, <1>13, <1>14
    <3>. QED BY <1>1, <1>3, <1>15, <2>2, <3>1
  <2>. QED BY <1>1, <1>3, <2>1, <2>2
<1>. QED BY <1>16, <1>17, <1>18, <1>19, <1>20, <1>21, <1>22 DEF IInv

\* Everything registered and made is older than what is registered next.
LEMMA NextIsNewest ==
  ASSUME IInv
  PROVE  registered \in Nat /\ Newest(registered + 1, 1)
<1>1. registered \in Nat /\ stack \in Seq(Values) BY DEF IInv, TypeOK
<1>2. \A c \in Containers, n \in Names : bindings[c][n].version < registered + 1
  BY <1>1, BindingFields
<1>3. \A j \in 1..Len(made) : made[j].version < registered + 1 BY <1>1, MadeFields
<1>. QED BY <1>1, <1>2, <1>3 DEF Newest

\* A registration without a value.
LEMMA SetKeeps ==
  ASSUME IInv, NEW c \in Containers, NEW n \in Names, NEW kind \in Kinds, Set(c, n, kind)
  PROVE  IInv'
<1>. DEFINE w == [name |-> n, version |-> registered + 1, at |-> c,
                  kept |-> TRUE, given |-> TRUE, uses |-> {}]
<1>1. /\ registered' = registered + 1 /\ kind # "value" /\ made' = made /\ stack' = <<>>
      /\ bindings' = [bindings EXCEPT ![c][n] =
           [kind |-> kind, version |-> registered + 1, cached |-> 0]]
      /\ UNCHANGED <<tree, order>>
  BY DEF Set
<1>2. registered \in Nat /\ Newest(registered + 1, 1) BY NextIsNewest
<1>3. registered + 1 \in 1..registered' /\ registered' \in Nat /\ registered <= registered'
  BY <1>1, <1>2
<1>4. w \in Values' BY <1>3 DEF Values, Ids
<1>5. w.name = n /\ w.version = registered + 1 /\ w.at = c /\ w.kept OBVIOUS
<1>. HIDE DEF w
<1>. QED BY <1>1, <1>2, <1>3, <1>4, <1>5, RegisteringKeeps

\* The factory of a value is called.
LEMMA SetValueKeeps ==
  ASSUME IInv, NEW c \in Containers, NEW n \in Names, SetValue(c, n)
  PROVE  IInv'
<1>. DEFINE w == [name |-> n, version |-> registered + 1, at |-> c,
                  kept |-> TRUE, given |-> TRUE, uses |-> {}]
<1>1. /\ registered' = registered + 1 /\ stack' = <<w>> /\ Live(c)
      /\ state' = state /\ parent' = parent /\ frozen' = frozen
      /\ UNCHANGED <<bindings, order, made>>
  BY DEF SetValue, tree
<1>2. registered \in Nat /\ Newest(registered + 1, 1) BY NextIsNewest
<1>3. Len(made) \in Nat /\ made \in Seq(Values) BY DEF IInv, TypeOK
<1>4. Ids \subseteq Ids' /\ Bindings \subseteq Bindings' /\ Values \subseteq Values'
  BY <1>1, <1>2, <1>3, KindsGrow
<1>5. w \in Values' BY <1>1, <1>2 DEF Values, Ids
<1>6. /\ w.name = n /\ w.version = registered + 1 /\ w.at = c /\ w.kept /\ w.given
  OBVIOUS
<1>. HIDE DEF w
<1>7. stack' \in Seq(Values') /\ Len(stack') = 1 /\ stack'[1] = w BY <1>1, <1>5
<1>8. TypeOK'
  <2>1. made' \in Seq(Values') BY <1>1, <1>3, <1>4, SeqGrows
  <2>2. bindings' \in [Containers -> [Names -> Bindings']] BY <1>1, <1>4 DEF IInv, TypeOK
  <2>. QED BY <1>1, <1>2, <1>7, <2>1, <2>2 DEF IInv, TypeOK
<1>9. OneNameEach'
  <2>1. ASSUME NEW i \in 1..Len(stack'), NEW d \in Containers, NEW m \in Names,
               stack'[i].version = bindings'[d][m].version
        PROVE  stack'[i].name = m
    <3>1. bindings[d][m].version < registered + 1 /\ bindings[d][m].version \in Nat
      BY <1>2, BindingFields DEF Newest
    <3>. QED BY <1>1, <1>2, <1>6, <1>7, <2>1, <3>1
  <2>. QED BY <1>1, <2>1 DEF IInv, OneNameEach
<1>10. Registered' BY <1>1 DEF IInv, Registered
<1>11. Current' BY <1>1 DEF IInv, Current
<1>12. Remembered' BY <1>1 DEF IInv, Remembered
<1>13. Running' BY <1>1, <1>6, <1>7 DEF Running, Live
<1>14. Given'
  <2>1. \A j \in 1..Len(stack') : j = 1 BY <1>7
  <2>2. /\ \A d \in Containers, m \in Names : bindings'[d][m].version < registered + 1
        /\ \A j \in 1..Len(made') : made'[j].version < registered + 1
    BY <1>1, <1>2 DEF Newest
  <2>. QED BY <1>6, <1>7, <2>1, <2>2 DEF Given, Newest
<1>15. OneValuePerScope' BY <1>1 DEF IInv, OneValuePerScope
<1>. QED BY <1>8, <1>9, <1>10, <1>11, <1>12, <1>13, <1>14, <1>15 DEF IInv

\* The factory of a value: its registration will be the newest, of a container
\* that lives.
LEMMA GivenFields ==
  ASSUME IInv, stack # <<>>, Head(stack).given
  PROVE  LET w == Head(stack)
         IN  /\ w \in Values /\ w.kept /\ Newest(w.version, 1) /\ Live(w.at)
             /\ w.at \in Containers /\ w.name \in Names /\ w.version \in 1..registered
             /\ w.uses \subseteq 0..Len(made)
             /\ stack \in Seq(Values) /\ made \in Seq(Values) /\ registered \in Nat
<1>. DEFINE w == Head(stack)
<1>1. stack \in Seq(Values) /\ made \in Seq(Values) /\ registered \in Nat BY DEF IInv, TypeOK
<1>2. w \in Values /\ w = stack[1] /\ 1 \in 1..Len(stack) BY <1>1, Popped
<1>3. w.given OBVIOUS
<1>. HIDE DEF w
<1>4. w.kept /\ Newest(w.version, 1) /\ Live(w.at) BY <1>2, <1>3 DEF IInv, Given, Running
<1>5. /\ w.at \in Containers /\ w.name \in Names /\ w.version \in 1..registered
      /\ w.uses \subseteq 0..Len(made)
  BY <1>1, <1>2, ValueFields DEF Ids
<1>. QED BY <1>1, <1>2, <1>4, <1>5 DEF w

\* The factory of a value returns, and its registration is the newest.
LEMMA GiveKeeps ==
  ASSUME IInv, Give
  PROVE  IInv'
<1>. DEFINE w == Head(stack)
<1>1. /\ stack # <<>> /\ w.given /\ made' = Append(made, w) /\ stack' = <<>>
      /\ bindings' = [bindings EXCEPT ![w.at][w.name] =
           [kind |-> "value", version |-> w.version, cached |-> Len(made')]]
      /\ UNCHANGED <<tree, order, registered>>
  BY DEF Give
<1>2. /\ w \in Values /\ w.kept /\ Newest(w.version, 1)
      /\ w.at \in Containers /\ w.name \in Names /\ w.version \in 1..registered
      /\ made \in Seq(Values) /\ registered \in Nat
  BY <1>1, GivenFields
<1>. HIDE DEF w
<1>3. w \in Values'
  <2>1. Len(made) \in Nat /\ Len(made') = Len(made) + 1 BY <1>1, <1>2
  <2>2. Values \subseteq Values' BY <1>1, <1>2, <2>1, KindsGrow
  <2>. QED BY <1>2, <2>2
<1>4. "value" \in Kinds BY DEF Kinds
<1>5. /\ registered' \in Nat /\ registered <= registered' /\ w.version \in 1..registered'
      /\ UNCHANGED <<tree, order>>
  BY <1>1, <1>2
<1>. QED BY <1>1, <1>2, <1>3, <1>4, <1>5, RegisteringKeeps

\* What a step that leaves registrations and values alone has to respect.
LEMMA QuietKeeps ==
  ASSUME IInv, stack = <<>>, UNCHANGED <<bindings, order, stack, made, registered>>,
         state' \in [Containers -> States],
         parent' \in [Containers -> Containers \cup {NoOne}],
         frozen' \in SUBSET Containers,
         \A c \in Containers : state[c] = "disposed" => state'[c] = "disposed"
  PROVE  IInv'
<1>1. TypeOK' BY DEF IInv, TypeOK, Values, Bindings, Ids
<1>2. OneNameEach' BY DEF IInv, OneNameEach
<1>3. Registered' BY DEF IInv, Registered
<1>4. Current' BY DEF IInv, Current
<1>5. Remembered'
  <2>. SUFFICES ASSUME NEW i \in 1..Len(made), made[i].kept
       PROVE LET b == bindings[made[i].at][made[i].name]
             IN /\ made[i].version <= b.version
                /\ made[i].version = b.version /\ state'[made[i].at] # "disposed" => b.cached = i
    BY DEF Remembered
  <2>1. made[i].at \in Containers BY MadeFields
  <2>. QED BY <2>1 DEF IInv, Remembered
<1>6. Running' /\ Given' BY DEF Running, Given
<1>7. OneValuePerScope' BY DEF IInv, OneValuePerScope
<1>. QED BY <1>1, <1>2, <1>3, <1>4, <1>5, <1>6, <1>7 DEF IInv

\* A scope begins.
LEMMA ForkKeeps ==
  ASSUME IInv, NEW p \in Containers, NEW c \in Containers, Fork(p, c)
  PROVE  IInv'
<1>1. /\ state \in [Containers -> States] /\ frozen \in SUBSET Containers
      /\ parent \in [Containers -> Containers \cup {NoOne}]
  BY DEF IInv, TypeOK
<1>2. state' \in [Containers -> States] /\ parent' \in [Containers -> Containers \cup {NoOne}]
  BY <1>1 DEF Fork, States
<1>3. \A d \in Containers : state[d] = "disposed" => state'[d] = "disposed"
  BY <1>1 DEF Fork
<1>4. stack = <<>> /\ UNCHANGED <<bindings, order, stack, made, registered>> /\ frozen' = frozen
  BY DEF Fork
<1>. QED BY <1>1, <1>2, <1>3, <1>4, QuietKeeps

\* A container is frozen.
LEMMA FreezeKeeps ==
  ASSUME IInv, NEW c \in Containers, Freeze(c)
  PROVE  IInv'
<1>1. /\ state' \in [Containers -> States] /\ frozen' \in SUBSET Containers
      /\ parent' \in [Containers -> Containers \cup {NoOne}]
      /\ \A d \in Containers : state[d] = "disposed" => state'[d] = "disposed"
  BY DEF IInv, TypeOK, Freeze
<1>2. stack = <<>> /\ UNCHANGED <<bindings, order, stack, made, registered>> BY DEF Freeze
<1>. QED BY <1>1, <1>2, QuietKeeps

\* A disposal begins.
LEMMA DisposeKeeps ==
  ASSUME IInv, NEW c \in Containers, Dispose(c)
  PROVE  IInv'
<1>1. state \in [Containers -> States] BY DEF IInv, TypeOK
<1>2. state' = [state EXCEPT ![c] = "disposing"] /\ state[c] = "live" BY DEF Dispose, Live
<1>3. /\ state' \in [Containers -> States]
      /\ \A d \in Containers : state[d] = "disposed" => state'[d] = "disposed"
  BY <1>1, <1>2 DEF States
<1>4. /\ stack = <<>> /\ UNCHANGED <<bindings, order, stack, made, registered>>
      /\ parent' = parent /\ frozen' = frozen
  BY DEF Dispose
<1>5. frozen' \in SUBSET Containers /\ parent' \in [Containers -> Containers \cup {NoOne}]
  BY <1>4 DEF IInv, TypeOK
<1>. QED BY <1>3, <1>4, <1>5, QuietKeeps

\* A disposer is called.
LEMMA CallDisposerKeeps ==
  ASSUME IInv, NEW c \in Containers, CallDisposer(c)
  PROVE  IInv'
<1>1. stack = <<>> /\ UNCHANGED <<bindings, order, stack, made, registered>> /\ UNCHANGED tree
  BY DEF CallDisposer
<1>2. /\ state' \in [Containers -> States] /\ frozen' \in SUBSET Containers
      /\ parent' \in [Containers -> Containers \cup {NoOne}]
      /\ \A d \in Containers : state[d] = "disposed" => state'[d] = "disposed"
  BY <1>1 DEF IInv, TypeOK, tree
<1>. QED BY <1>1, <1>2, QuietKeeps

\* A disposal ends, and with it the registrations.
LEMMA FinishDisposalKeeps ==
  ASSUME IInv, NEW c \in Containers, FinishDisposal(c)
  PROVE  IInv'
<1>1. /\ stack = <<>> /\ stack' = stack /\ made' = made /\ registered' = registered
      /\ order' = order /\ frozen' = frozen
      /\ state' = [state EXCEPT ![c] = "disposed"] /\ parent' = [parent EXCEPT ![c] = NoOne]
  BY DEF FinishDisposal
<1>2. /\ state \in [Containers -> States] /\ parent \in [Containers -> Containers \cup {NoOne}]
      /\ bindings \in [Containers -> [Names -> Bindings]] /\ made \in Seq(Values)
      /\ registered \in Nat
  BY DEF IInv, TypeOK
<1>3. bindings' = [bindings EXCEPT ![c] = [n \in Names |-> [bindings[c][n] EXCEPT !.cached = 0]]]
  BY DEF FinishDisposal
<1>4. /\ bindings' \in [Containers -> [Names -> Bindings]]
      /\ \A d \in Containers, n \in Names :
           /\ bindings'[d][n].version = bindings[d][n].version
           /\ bindings'[d][n].kind = bindings[d][n].kind
           /\ bindings'[d][n].cached = IF d = c THEN 0 ELSE bindings[d][n].cached
  <2>1. \A n \in Names :
          LET b == [bindings[c][n] EXCEPT !.cached = 0]
          IN  /\ b \in Bindings /\ b.version = bindings[c][n].version
              /\ b.kind = bindings[c][n].kind /\ b.cached = 0
    BY <1>2, Emptied
  <2>2. [n \in Names |-> [bindings[c][n] EXCEPT !.cached = 0]] \in [Names -> Bindings] BY <2>1
  <2>3. bindings' \in [Containers -> [Names -> Bindings]] BY <1>2, <1>3, <2>2
  <2>4. \A d \in Containers, n \in Names :
          bindings'[d][n] = IF d = c THEN [bindings[c][n] EXCEPT !.cached = 0] ELSE bindings[d][n]
    BY <1>2, <1>3
  <2>. QED BY <2>1, <2>3, <2>4
<1>5. TypeOK'
  <2>1. state' \in [Containers -> States] /\ parent' \in [Containers -> Containers \cup {NoOne}]
    BY <1>1, <1>2 DEF States
  <2>2. Bindings' = Bindings /\ Values' = Values BY <1>1 DEF Bindings, Values, Ids
  <2>. QED BY <1>1, <1>4, <2>1, <2>2 DEF TypeOK, IInv
<1>6. \A d \in Containers : state'[d] = IF d = c THEN "disposed" ELSE state[d] BY <1>1, <1>2
<1>7. OneNameEach'
  <2>1. \A d, e \in Containers, n, m \in Names :
          bindings'[d][n].version = bindings'[e][m].version /\ bindings'[d][n].version # 0 => n = m
    BY <1>4 DEF IInv, OneNameEach
  <2>2. \A i \in 1..Len(made'), d \in Containers, m \in Names :
          made'[i].version = bindings'[d][m].version => made'[i].name = m
    BY <1>1, <1>4 DEF IInv, OneNameEach
  <2>3. Len(stack') = 0 BY <1>1
  <2>. QED BY <2>1, <2>2, <2>3 DEF OneNameEach
<1>8. Registered' BY <1>4, <1>6 DEF IInv, Registered
<1>9. Current'
  <2>. SUFFICES ASSUME NEW d \in Containers, NEW m \in Names, bindings'[d][m].cached # 0
       PROVE /\ made[bindings'[d][m].cached].at = d /\ made[bindings'[d][m].cached].name = m
             /\ made[bindings'[d][m].cached].version = bindings'[d][m].version
    BY <1>1 DEF Current
  <2>1. bindings'[d][m].cached = bindings[d][m].cached BY <1>4
  <2>. QED BY <1>4, <2>1 DEF IInv, Current
<1>10. Remembered'
  <2>. SUFFICES ASSUME NEW i \in 1..Len(made), made[i].kept
       PROVE LET b == bindings'[made[i].at][made[i].name]
             IN /\ made[i].version <= b.version
                /\ made[i].version = b.version /\ state'[made[i].at] # "disposed" => b.cached = i
    BY <1>1 DEF Remembered
  <2>1. made[i].at \in Containers /\ made[i].name \in Names BY MadeFields
  <2>. QED BY <1>4, <1>6, <2>1 DEF IInv, Remembered
<1>11. Running' /\ Given' BY <1>1 DEF Running, Given
<1>12. OneValuePerScope' BY <1>1 DEF IInv, OneValuePerScope
<1>. QED BY <1>5, <1>7, <1>8, <1>9, <1>10, <1>11, <1>12 DEF IInv

-----------------------------------------------------------------------------
(* Resolution. *)

\* A resolution finds a cached value.
LEMMA ReuseKeeps ==
  ASSUME IInv, NEW n \in Names, Reuse(n)
  PROVE  IInv'
<1>. DEFINE c == Head(stack).at
            h == HolderOf(n)[c]
            k == bindings[h][n].cached
<1>1. /\ stack # <<>> /\ h \in Containers /\ stack' = [stack EXCEPT ![1].uses = @ \cup {k}]
      /\ state' = state /\ parent' = parent /\ frozen' = frozen
      /\ UNCHANGED <<bindings, order, made, registered>>
  BY DEF Reuse, Found, tree
<1>. HIDE DEF h
<1>2. k \in Ids BY <1>1, BindingFields DEF Ids
<1>3. stack \in Seq(Values) BY DEF IInv, TypeOK
<1>. HIDE DEF k
<1>4. /\ stack' \in Seq(Values) /\ Len(stack') = Len(stack)
      /\ \A i \in 1..Len(stack) :
           /\ stack'[i].name = stack[i].name /\ stack'[i].version = stack[i].version
           /\ stack'[i].at = stack[i].at /\ stack'[i].kept = stack[i].kept
           /\ stack'[i].given = stack[i].given
  <2>. DEFINE x == [stack[1] EXCEPT !.uses = @ \cup {k}]
  <2>1. stack[1] \in Values BY <1>1, <1>3
  <2>2. /\ x \in Values /\ x.name = stack[1].name /\ x.version = stack[1].version
        /\ x.at = stack[1].at /\ x.kept = stack[1].kept /\ x.given = stack[1].given
    BY <1>2, <2>1, Handed DEF Values
  <2>3. stack' = [stack EXCEPT ![1] = x] BY <1>1
  <2>. HIDE DEF x
  <2>4. stack # <<>> BY <1>1
  <2>5. /\ stack' \in Seq(Values) /\ Len(stack') = Len(stack)
        /\ stack'[1] = x /\ \A i \in 1..Len(stack) : i # 1 => stack'[i] = stack[i]
    BY <1>3, <2>2, <2>3, <2>4, HeadChanged
  <2>. QED BY <2>2, <2>5
<1>5. TypeOK'
  <2>1. Bindings' = Bindings /\ Values' = Values BY <1>1 DEF Bindings, Values, Ids
  <2>. QED BY <1>1, <1>4, <2>1 DEF TypeOK, IInv
<1>6. OneNameEach' BY <1>1, <1>4 DEF IInv, OneNameEach
<1>7. Registered' BY <1>1 DEF IInv, Registered
<1>8. Current' BY <1>1 DEF IInv, Current
<1>9. Remembered' BY <1>1 DEF IInv, Remembered
<1>10. Running' BY <1>1, <1>4 DEF IInv, Running, Live
<1>12. Given' BY <1>1, <1>4 DEF IInv, Given, Newest
<1>11. OneValuePerScope' BY <1>1 DEF IInv, OneValuePerScope
<1>. QED BY <1>5, <1>6, <1>7, <1>8, <1>9, <1>10, <1>11, <1>12 DEF IInv

\* A factory throws, and is forgotten.
LEMMA ThrowKeeps ==
  ASSUME IInv, Throw
  PROVE  IInv'
<1>1. /\ stack # <<>> /\ stack' = Tail(stack) /\ state' = state /\ parent' = parent
      /\ frozen' = frozen /\ UNCHANGED <<bindings, order, made, registered>>
  BY DEF Throw, tree
<1>2. stack \in Seq(Values) BY DEF IInv, TypeOK
<1>3. /\ stack' \in Seq(Values) /\ Len(stack') = Len(stack) - 1 /\ Len(stack) \in Nat
      /\ \A i \in 1..Len(stack') : i + 1 \in 1..Len(stack) /\ stack'[i] = stack[i + 1]
  BY <1>1, <1>2, Popped
<1>4. TypeOK'
  <2>1. Bindings' = Bindings /\ Values' = Values BY <1>1 DEF Bindings, Values, Ids
  <2>. QED BY <1>1, <1>3, <2>1 DEF TypeOK, IInv
<1>5. OneNameEach' BY <1>1, <1>3 DEF IInv, OneNameEach
<1>6. Registered' BY <1>1 DEF IInv, Registered
<1>7. Current' BY <1>1 DEF IInv, Current
<1>8. Remembered' BY <1>1 DEF IInv, Remembered
<1>9. Running' BY <1>1, <1>3 DEF IInv, Running, Live
<1>11. Given'
  <2>. SUFFICES ASSUME NEW i \in 1..Len(stack'), stack'[i].given
       PROVE  i = Len(stack') /\ stack'[i].kept /\ Newest(stack[i].version, i)'
    BY DEF Given, Newest
  <2>1. i + 1 \in 1..Len(stack) /\ stack'[i] = stack[i + 1] BY <1>3
  <2>2. i + 1 = Len(stack) /\ stack[i + 1].kept /\ Newest(stack[i + 1].version, i + 1)
    BY <2>1 DEF IInv, Given
  <2>3. ASSUME NEW j \in 1..Len(stack'), j < i PROVE stack'[j].version < stack[i + 1].version
    <3>1. j + 1 \in 1..Len(stack) /\ j + 1 < i + 1 /\ stack'[j] = stack[j + 1]
      BY <1>3, <2>3
    <3>. QED BY <2>2, <3>1 DEF Newest
  <2>4. i = Len(stack') /\ stack'[i].kept BY <1>3, <2>1, <2>2
  <2>5. \A d \in Containers, m \in Names : bindings'[d][m].version < stack[i + 1].version
    BY <1>1, <2>2 DEF Newest
  <2>6. \A j \in 1..Len(made') : made'[j].version < stack[i + 1].version
    BY <1>1, <2>2 DEF Newest
  <2>. QED BY <2>1, <2>3, <2>4, <2>5, <2>6 DEF Newest
<1>10. OneValuePerScope' BY <1>1 DEF IInv, OneValuePerScope
<1>. QED BY <1>4, <1>5, <1>6, <1>7, <1>8, <1>9, <1>10, <1>11 DEF IInv

\* A resolution calls a factory: its registration has no cached value then.
LEMMA InvokeKeeps ==
  ASSUME IInv, NEW c \in Containers, NEW n \in Names, Invoke(c, n)
  PROVE  IInv'
<1>. DEFINE h == HolderOf(n)[c]
            b == bindings[h][n]
            at == IF b.kind = "singleton" THEN h ELSE c
            x == [name |-> n, version |-> b.version, at |-> at,
                  kept |-> b.kind # "transient", given |-> FALSE, uses |-> {}]
            copies == b.kind = "scoped" /\ h # c
            e == [b EXCEPT !.cached = 0]
<1>1. /\ Live(c) /\ ~Resolving(n) /\ Found(c, h, n) /\ ~IsCached(c, h, n)
      /\ stack' = <<x>> \o stack
      /\ bindings' = IF copies THEN [bindings EXCEPT ![c][n] = e] ELSE bindings
      /\ state' = state /\ parent' = parent /\ frozen' = frozen
      /\ UNCHANGED <<order, made, registered>>
  BY DEF Invoke, MayAsk, tree
<1>. HIDE DEF h
<1>2. /\ h \in Containers /\ Live(h) /\ b.kind # "none"
      /\ h # c => bindings[c][n].kind = "none"
      /\ b.cached # 0 => h # c /\ b.kind = "scoped"
  BY <1>1 DEF Found, IsCached
<1>3. /\ b \in Bindings /\ b.version \in 0..registered /\ registered \in Nat
      /\ Len(made) \in Nat
  BY <1>2, BindingFields
<1>4. b.version # 0 /\ b.kind # "value"
  BY <1>2 DEF IInv, Registered, Live
<1>5. /\ stack \in Seq(Values) /\ bindings \in [Containers -> [Names -> Bindings]]
  BY DEF IInv, TypeOK
<1>6. e \in Bindings /\ e.version = b.version /\ e.kind = b.kind /\ e.cached = 0
  BY <1>3, Emptied
<1>7. x \in Values BY <1>2, <1>3, <1>4 DEF Values
<1>8. /\ x.name = n /\ x.version = b.version /\ x.at = at
      /\ x.kept = (b.kind # "transient") /\ ~x.given
  OBVIOUS
<1>. HIDE DEF x, e, b
<1>9. /\ stack' \in Seq(Values) /\ Len(stack') = Len(stack) + 1 /\ Len(stack) \in Nat
      /\ stack'[1] = x
      /\ \A i \in 1..Len(stack') : i # 1 => i - 1 \in 1..Len(stack) /\ stack'[i] = stack[i - 1]
  BY <1>1, <1>5, <1>7, Pushed
<1>10. /\ bindings' \in [Containers -> [Names -> Bindings]]
       /\ \A d \in Containers, m \in Names :
            bindings'[d][m] = IF copies /\ d = c /\ m = n THEN e ELSE bindings[d][m]
  BY <1>1, <1>5, <1>6
<1>11. copies => bindings[c][n].version = 0
  BY <1>2 DEF IInv, Registered
<1>12. \A d \in Containers, m \in Names :
         bindings'[d][m].version = b.version => m = n
  <2>. SUFFICES ASSUME NEW d \in Containers, NEW m \in Names,
                       bindings'[d][m].version = b.version, m # n
       PROVE FALSE
    OBVIOUS
  <2>1. bindings[d][m].version = bindings[h][n].version /\ bindings[d][m].version # 0
    BY <1>4, <1>10 DEF b
  <2>. QED BY <1>2, <2>1 DEF IInv, OneNameEach
<1>13. TypeOK'
  <2>1. Bindings' = Bindings /\ Values' = Values BY <1>1 DEF Bindings, Values, Ids
  <2>. QED BY <1>1, <1>9, <1>10, <2>1 DEF TypeOK, IInv
<1>14. OneNameEach'
  <2>1. ASSUME NEW d \in Containers, NEW f \in Containers, NEW m \in Names, NEW q \in Names,
               bindings'[d][m].version = bindings'[f][q].version, bindings'[d][m].version # 0
        PROVE  m = q
    <3>1. CASE copies /\ d = c /\ m = n BY <1>6, <1>10, <1>12, <2>1, <3>1
    <3>2. CASE copies /\ f = c /\ q = n BY <1>6, <1>10, <1>12, <2>1, <3>2
    <3>3. CASE ~(copies /\ d = c /\ m = n) /\ ~(copies /\ f = c /\ q = n)
      <4>1. bindings'[d][m] = bindings[d][m] /\ bindings'[f][q] = bindings[f][q] BY <1>10, <3>3
      <4>. QED BY <2>1, <4>1 DEF IInv, OneNameEach
    <3>. QED BY <3>1, <3>2, <3>3
  <2>2. ASSUME NEW i \in 1..Len(stack'), NEW d \in Containers, NEW m \in Names,
               stack'[i].version = bindings'[d][m].version
        PROVE  stack'[i].name = m
    <3>1. CASE i = 1 BY <1>8, <1>9, <1>12, <2>2, <3>1
    <3>2. CASE i # 1
      <4>1. i - 1 \in 1..Len(stack) /\ stack'[i] = stack[i - 1] BY <1>9, <3>2
      <4>2. CASE copies /\ d = c /\ m = n
        <5>1. stack[i - 1].version = bindings[h][n].version BY <1>6, <1>10, <2>2, <4>1, <4>2 DEF b
        <5>. QED BY <1>2, <4>1, <4>2, <5>1 DEF IInv, OneNameEach
      <4>3. CASE ~(copies /\ d = c /\ m = n)
        <5>1. bindings'[d][m] = bindings[d][m] BY <1>10, <4>3
        <5>. QED BY <2>2, <4>1, <5>1 DEF IInv, OneNameEach
      <4>. QED BY <4>2, <4>3
    <3>. QED BY <3>1, <3>2
  <2>3. ASSUME NEW i \in 1..Len(made), NEW d \in Containers, NEW m \in Names,
               made[i].version = bindings'[d][m].version
        PROVE  made[i].name = m
    <3>1. CASE copies /\ d = c /\ m = n
      <4>1. made[i].version = bindings[h][n].version BY <1>6, <1>10, <2>3, <3>1 DEF b
      <4>. QED BY <1>2, <3>1, <4>1 DEF IInv, OneNameEach
    <3>2. CASE ~(copies /\ d = c /\ m = n)
      <4>1. bindings'[d][m] = bindings[d][m] BY <1>10, <3>2
      <4>. QED BY <2>3, <4>1 DEF IInv, OneNameEach
    <3>. QED BY <3>1, <3>2
  <2>. QED BY <1>1, <2>1, <2>2, <2>3 DEF OneNameEach
<1>15. Registered'
  <2>. SUFFICES ASSUME NEW d \in Containers, NEW m \in Names
       PROVE /\ bindings'[d][m].kind = "none" <=> bindings'[d][m].version = 0
             /\ bindings'[d][m].kind = "value" /\ state[d] # "disposed" => bindings'[d][m].cached # 0
    BY <1>1 DEF Registered
  <2>1. CASE copies /\ d = c /\ m = n
    <3>1. bindings'[d][m] = e BY <1>10, <2>1
    <3>. QED BY <1>2, <1>4, <1>6, <3>1
  <2>2. CASE ~(copies /\ d = c /\ m = n)
    <3>1. bindings'[d][m] = bindings[d][m] BY <1>10, <2>2
    <3>. QED BY <3>1 DEF IInv, Registered
  <2>. QED BY <2>1, <2>2
<1>16. Current'
  <2>. SUFFICES ASSUME NEW d \in Containers, NEW m \in Names, bindings'[d][m].cached # 0
       PROVE /\ made[bindings'[d][m].cached].at = d /\ made[bindings'[d][m].cached].name = m
             /\ made[bindings'[d][m].cached].version = bindings'[d][m].version
    BY <1>1 DEF Current
  <2>1. bindings'[d][m] = bindings[d][m] BY <1>6, <1>10
  <2>. QED BY <2>1 DEF IInv, Current
<1>17. Remembered'
  <2>. SUFFICES ASSUME NEW i \in 1..Len(made), made[i].kept
       PROVE LET z == bindings'[made[i].at][made[i].name]
             IN /\ made[i].version <= z.version
                /\ made[i].version = z.version /\ state[made[i].at] # "disposed" => z.cached = i
    BY <1>1 DEF Remembered
  <2>1. /\ made[i].at \in Containers /\ made[i].name \in Names
        /\ made[i].version \in Nat /\ made[i].version # 0
    BY MadeFields
  <2>2. made[i].version <= bindings[made[i].at][made[i].name].version
    BY DEF IInv, Remembered
  <2>3. ~(copies /\ made[i].at = c /\ made[i].name = n) BY <1>11, <2>1, <2>2
  <2>4. bindings'[made[i].at][made[i].name] = bindings[made[i].at][made[i].name]
    BY <1>10, <2>1, <2>3
  <2>. QED BY <2>4 DEF IInv, Remembered
<1>18. Running'
  <2>1. at \in Containers /\ Live(at) BY <1>1, <1>2
  <2>2. x.kept => bindings'[at][n].version = b.version /\ bindings'[at][n].cached = 0
    <3>1. CASE copies BY <1>6, <1>10, <3>1
    <3>2. CASE ~copies /\ x.kept
      <4>1. at = h
        <5>1. b.kind \in {"singleton", "scoped"}
          BY <1>2, <1>3, <1>4, <1>8, <3>2 DEF Bindings, Kinds
        <5>. QED BY <3>2, <5>1
      <4>2. b.cached = 0 BY <1>2, <3>2
      <4>. QED BY <1>2, <1>10, <3>2, <4>1, <4>2 DEF b
    <3>. QED BY <3>1, <3>2
  <2>3. \A i \in 1..Len(stack) : ~stack[i].given => stack[i].name # n BY <1>1 DEF Resolving
  <2>4. \A i \in 1..Len(stack) :
          stack[i] \in Values /\ stack[i].at \in Containers /\ stack[i].name \in Names
    BY <1>3, <1>5, ValueFields
  <2>5. ASSUME NEW i \in 1..Len(stack')
        PROVE  /\ Live(stack'[i].at)
               /\ stack'[i].kept /\ ~stack'[i].given =>
                    LET z == bindings'[stack'[i].at][stack'[i].name]
                    IN z.version = stack'[i].version /\ z.cached = 0
    <3>1. CASE i = 1 BY <1>8, <1>9, <2>1, <2>2, <3>1
    <3>2. CASE i # 1
      <4>1. i - 1 \in 1..Len(stack) /\ stack'[i] = stack[i - 1] BY <1>9, <3>2
      <4>2. ~stack'[i].given =>
              bindings'[stack'[i].at][stack'[i].name] = bindings[stack'[i].at][stack'[i].name]
        BY <1>10, <2>3, <2>4, <4>1
      <4>. QED BY <4>1, <4>2 DEF IInv, Running
    <3>. QED BY <3>1, <3>2
  <2>6. ASSUME NEW i \in 1..Len(stack'), NEW j \in 1..Len(stack'), i # j,
               ~stack'[i].given, ~stack'[j].given
        PROVE  stack'[i].name # stack'[j].name
    <3>1. CASE i = 1 BY <1>8, <1>9, <2>3, <2>6, <3>1
    <3>2. CASE j = 1 BY <1>8, <1>9, <2>3, <2>6, <3>2
    <3>3. CASE i # 1 /\ j # 1
      <4>1. i - 1 \in 1..Len(stack) /\ j - 1 \in 1..Len(stack) /\ i - 1 # j - 1
        BY <1>9, <2>6, <3>3
      <4>2. stack'[i] = stack[i - 1] /\ stack'[j] = stack[j - 1] BY <1>9, <3>3
      <4>3. stack[i - 1].name # stack[j - 1].name BY <2>6, <4>1, <4>2 DEF IInv, Running
      <4>. QED BY <4>2, <4>3
    <3>. QED BY <3>1, <3>2, <3>3
  <2>. QED BY <1>1, <2>5, <2>6 DEF Running, Live
<1>19. OneValuePerScope' BY <1>1 DEF IInv, OneValuePerScope
<1>20. Given'
  <2>. SUFFICES ASSUME NEW i \in 1..Len(stack'), stack'[i].given
       PROVE  i = Len(stack') /\ stack'[i].kept /\ Newest(stack[i].version, i)'
    BY DEF Given, Newest
  <2>1. i # 1 BY <1>8, <1>9
  <2>2. i - 1 \in 1..Len(stack) /\ stack'[i] = stack[i - 1] /\ stack[i - 1].given BY <1>9, <2>1
  <2>3. i - 1 = Len(stack) /\ stack[i - 1].kept /\ Newest(stack[i - 1].version, i - 1)
    BY <2>2 DEF IInv, Given
  <2>4. \A d \in Containers, m \in Names : bindings'[d][m].version < stack[i - 1].version
    <3>1. b.version < stack[i - 1].version BY <1>2, <2>3 DEF Newest, b
    <3>. QED BY <1>6, <1>10, <2>3, <3>1 DEF Newest
  <2>5. ASSUME NEW j \in 1..Len(stack'), j < i PROVE stack'[j].version < stack[i - 1].version
    <3>1. CASE j = 1 BY <1>2, <1>8, <1>9, <2>3, <3>1 DEF Newest, b
    <3>2. CASE j # 1
      <4>1. j - 1 \in 1..Len(stack) /\ stack'[j] = stack[j - 1] /\ j - 1 < i - 1
        BY <1>9, <2>5, <3>2
      <4>. QED BY <2>3, <4>1 DEF Newest
    <3>. QED BY <3>1, <3>2
  <2>. QED BY <1>1, <1>9, <2>2, <2>3, <2>4, <2>5 DEF Newest
<1>. QED BY <1>13, <1>14, <1>15, <1>16, <1>17, <1>18, <1>19, <1>20 DEF IInv

\* A factory returns: its value goes into the cache of its own registration.
LEMMA ReturnKeeps ==
  ASSUME IInv, Return
  PROVE  IInv'
<1>. DEFINE f == Head(stack)
            k == Len(made)
            at == f.at
            n == f.name
<1>1. /\ stack # <<>> /\ ~f.given /\ made' = Append(made, f)
      /\ bindings' = IF f.kept THEN [bindings EXCEPT ![at][n].cached = k + 1] ELSE bindings
      /\ order' = IF f.kept THEN [order EXCEPT ![at] = Append(@, n)] ELSE order
      /\ stack' = IF Len(stack) = 1 THEN <<>> ELSE [Tail(stack) EXCEPT ![1].uses = @ \cup {k + 1}]
      /\ state' = state /\ parent' = parent /\ frozen' = frozen /\ registered' = registered
  BY DEF Return, tree
<1>2. /\ stack \in Seq(Values) /\ made \in Seq(Values) /\ k \in Nat /\ registered \in Nat
      /\ bindings \in [Containers -> [Names -> Bindings]] /\ order \in [Containers -> Seq(Names)]
  BY DEF IInv, TypeOK
<1>3. /\ f \in Values /\ f = stack[1] /\ 1 \in 1..Len(stack)
      /\ Tail(stack) \in Seq(Values) /\ Len(Tail(stack)) = Len(stack) - 1 /\ Len(stack) \in Nat
      /\ \A i \in 1..Len(stack) - 1 : i + 1 \in 1..Len(stack) /\ Tail(stack)[i] = stack[i + 1]
  BY <1>1, <1>2, Popped
<1>4. /\ at \in Containers /\ n \in Names /\ f.version \in Nat /\ f.version # 0
      /\ f.version <= registered
  BY <1>2, <1>3, ValueFields
<1>5. /\ Live(at)
      /\ f.kept => bindings[at][n].version = f.version /\ bindings[at][n].cached = 0
  BY <1>1, <1>3 DEF IInv, Running
<1>6. /\ Len(made') = k + 1 /\ made'[k + 1] = f
      /\ \A i \in 1..k : i \in 1..Len(made') /\ made'[i] = made[i]
      /\ \A i \in 1..Len(made') : i # k + 1 => i \in 1..k
  BY <1>1, <1>2
<1>. HIDE DEF f
<1>7. Ids \subseteq Ids' /\ Bindings \subseteq Bindings' /\ Values \subseteq Values'
  BY <1>1, <1>2, <1>6, KindsGrow
<1>8. k + 1 \in Ids' BY <1>2, <1>6 DEF Ids
<1>9. made' \in Seq(Values')
  <2>1. made \in Seq(Values') BY <1>2, <1>7, SeqGrows
  <2>. QED BY <1>1, <1>3, <1>7, <2>1
<1>10. /\ stack' \in Seq(Values') /\ Len(stack') = Len(stack) - 1
       /\ \A i \in 1..Len(stack') :
            /\ i + 1 \in 1..Len(stack)
            /\ stack'[i].name = stack[i + 1].name /\ stack'[i].version = stack[i + 1].version
            /\ stack'[i].at = stack[i + 1].at /\ stack'[i].kept = stack[i + 1].kept
            /\ stack'[i].given = stack[i + 1].given
  <2>1. CASE Len(stack) = 1
    <3>1. stack' = <<>> BY <1>1, <2>1
    <3>. QED BY <2>1, <3>1
  <2>2. CASE Len(stack) # 1
    <3>. DEFINE t == Tail(stack)
    <3>1. t # <<>> /\ t \in Seq(Values')
      <4>1. Len(t) # 0 BY <1>3, <2>2
      <4>2. t \in Seq(Values') BY <1>3, <1>7, SeqGrows
      <4>. HIDE DEF t
      <4>3. t # <<>> BY <4>1
      <4>. QED BY <4>2, <4>3
    <3>2. stack' = [t EXCEPT ![1].uses = @ \cup {k + 1}] BY <1>1, <2>2
    <3>. HIDE DEF t
    <3>3. /\ stack' \in Seq(Values') /\ Len(stack') = Len(t)
          /\ \A i \in 1..Len(t) :
               /\ stack'[i].name = t[i].name /\ stack'[i].version = t[i].version
               /\ stack'[i].at = t[i].at /\ stack'[i].kept = t[i].kept
               /\ stack'[i].given = t[i].given
      <4>. DEFINE x == [t[1] EXCEPT !.uses = @ \cup {k + 1}]
      <4>1. t[1] \in Values' BY <3>1
      <4>2. /\ x \in Values' /\ x.name = t[1].name /\ x.version = t[1].version
            /\ x.at = t[1].at /\ x.kept = t[1].kept /\ x.given = t[1].given
        BY <1>8, <4>1, Handed DEF Values
      <4>3. stack' = [t EXCEPT ![1] = x] BY <3>2
      <4>. HIDE DEF x
      <4>4. /\ stack' \in Seq(Values') /\ Len(stack') = Len(t)
            /\ stack'[1] = x /\ \A i \in 1..Len(t) : i # 1 => stack'[i] = t[i]
        BY <3>1, <4>2, <4>3, HeadChanged
      <4>. QED BY <4>2, <4>4
    <3>. QED BY <1>3, <3>3 DEF t
  <2>. QED BY <2>1, <2>2
<1>11. /\ bindings' \in [Containers -> [Names -> Bindings']]
       /\ \A d \in Containers, m \in Names :
            /\ bindings'[d][m].version = bindings[d][m].version
            /\ bindings'[d][m].kind = bindings[d][m].kind
            /\ bindings'[d][m].cached =
                 IF f.kept /\ d = at /\ m = n THEN k + 1 ELSE bindings[d][m].cached
  <2>. DEFINE e == [bindings[at][n] EXCEPT !.cached = k + 1]
  <2>1. /\ e \in Bindings' /\ e.version = bindings[at][n].version
        /\ e.kind = bindings[at][n].kind /\ e.cached = k + 1
    <3>1. bindings[at][n] \in Bindings' BY <1>2, <1>4, <1>7
    <3>. QED BY <1>8, <3>1, Cached DEF Bindings
  <2>2. bindings' = IF f.kept THEN [bindings EXCEPT ![at][n] = e] ELSE bindings
    BY <1>1
  <2>. HIDE DEF e
  <2>3. bindings' \in [Containers -> [Names -> Bindings']] BY <1>2, <1>4, <1>7, <2>1, <2>2
  <2>4. \A d \in Containers, m \in Names :
          bindings'[d][m] = IF f.kept /\ d = at /\ m = n THEN e ELSE bindings[d][m]
    BY <1>2, <2>2
  <2>. QED BY <2>1, <2>3, <2>4
<1>12. \A d \in Containers, m \in Names : f.version = bindings[d][m].version => n = m
  BY <1>3 DEF IInv, OneNameEach
<1>13. TypeOK'
  <2>1. order' \in [Containers -> Seq(Names)] BY <1>1, <1>2, <1>4
  <2>. QED BY <1>1, <1>9, <1>10, <1>11, <2>1 DEF TypeOK, IInv
<1>14. OneNameEach'
  <2>1. \A d, g \in Containers, m, q \in Names :
          bindings'[d][m].version = bindings'[g][q].version /\ bindings'[d][m].version # 0 => m = q
    BY <1>11 DEF IInv, OneNameEach
  <2>2. \A i \in 1..Len(stack'), d \in Containers, m \in Names :
          stack'[i].version = bindings'[d][m].version => stack'[i].name = m
    BY <1>10, <1>11 DEF IInv, OneNameEach
  <2>3. \A i \in 1..Len(made'), d \in Containers, m \in Names :
          made'[i].version = bindings'[d][m].version => made'[i].name = m
    BY <1>6, <1>11, <1>12 DEF IInv, OneNameEach
  <2>. QED BY <2>1, <2>2, <2>3 DEF OneNameEach
<1>15. Registered' BY <1>1, <1>2, <1>11 DEF IInv, Registered
\* What was kept before is of another registration, or of another container.
<1>16. \A i \in 1..k : f.kept /\ made[i].kept => ~(made[i].version = f.version /\ made[i].at = at)
  <2>. SUFFICES ASSUME NEW i \in 1..k, f.kept, made[i].kept,
                       made[i].version = f.version, made[i].at = at
       PROVE FALSE
    OBVIOUS
  <2>1. made[i].name = n BY <1>4, <1>5 DEF IInv, OneNameEach
  <2>2. bindings[at][n].cached = i BY <1>5, <2>1 DEF IInv, Remembered, Live
  <2>. QED BY <1>5, <2>2
<1>17. Current'
  <2>. SUFFICES ASSUME NEW d \in Containers, NEW m \in Names, bindings'[d][m].cached # 0
       PROVE /\ made'[bindings'[d][m].cached].at = d /\ made'[bindings'[d][m].cached].name = m
             /\ made'[bindings'[d][m].cached].version = bindings'[d][m].version
    BY DEF Current
  <2>1. CASE f.kept /\ d = at /\ m = n BY <1>5, <1>6, <1>11, <2>1
  <2>2. CASE ~(f.kept /\ d = at /\ m = n)
    <3>1. bindings'[d][m].cached = bindings[d][m].cached BY <1>11, <2>2
    <3>2. bindings[d][m].cached \in 1..k BY <3>1, BindingFields
    <3>. QED BY <1>6, <1>11, <3>1, <3>2 DEF IInv, Current
  <2>. QED BY <2>1, <2>2
<1>18. Remembered'
  <2>. SUFFICES ASSUME NEW i \in 1..Len(made'), made'[i].kept
       PROVE LET z == bindings'[made'[i].at][made'[i].name]
             IN /\ made'[i].version <= z.version
                /\ made'[i].version = z.version /\ state[made'[i].at] # "disposed" => z.cached = i
    BY <1>1 DEF Remembered
  <2>1. CASE i = k + 1 BY <1>4, <1>5, <1>6, <1>11, <2>1
  <2>2. CASE i # k + 1
    <3>1. i \in 1..k /\ made'[i] = made[i] BY <1>6, <2>2
    <3>2. made[i].at \in Containers /\ made[i].name \in Names BY <3>1, MadeFields
    <3>3. LET z == bindings[made[i].at][made[i].name]
          IN /\ made[i].version <= z.version
             /\ made[i].version = z.version /\ state[made[i].at] # "disposed" => z.cached = i
      BY <3>1 DEF IInv, Remembered
    <3>4. f.kept /\ made[i].at = at /\ made[i].name = n => made[i].version # f.version
      BY <1>16, <3>1
    <3>. QED BY <1>5, <1>11, <3>1, <3>2, <3>3, <3>4
  <2>. QED BY <2>1, <2>2
<1>19. Running'
  <2>1. \A i \in 1..Len(stack) :
          stack[i] \in Values /\ stack[i].at \in Containers /\ stack[i].name \in Names
    BY <1>2, ValueFields
  <2>2. ASSUME NEW i \in 1..Len(stack')
        PROVE  /\ Live(stack'[i].at)
               /\ stack'[i].kept /\ ~stack'[i].given =>
                    LET z == bindings'[stack'[i].at][stack'[i].name]
                    IN z.version = stack'[i].version /\ z.cached = 0
    <3>1. i + 1 \in 1..Len(stack) /\ i + 1 # 1 BY <1>3, <1>10
    <3>2. ~stack[i + 1].given => stack[i + 1].name # n BY <1>1, <1>3, <3>1 DEF IInv, Running
    <3>3. /\ Live(stack[i + 1].at)
          /\ stack[i + 1].kept /\ ~stack[i + 1].given =>
               LET z == bindings[stack[i + 1].at][stack[i + 1].name]
               IN z.version = stack[i + 1].version /\ z.cached = 0
      BY <3>1 DEF IInv, Running
    <3>. QED BY <1>10, <1>11, <2>1, <3>1, <3>2, <3>3
  <2>3. ASSUME NEW i \in 1..Len(stack'), NEW j \in 1..Len(stack'), i # j,
               ~stack'[i].given, ~stack'[j].given
        PROVE  stack'[i].name # stack'[j].name
    <3>1. i + 1 \in 1..Len(stack) /\ j + 1 \in 1..Len(stack) /\ i + 1 # j + 1
      BY <1>3, <1>10, <2>3
    <3>. QED BY <1>10, <2>3, <3>1 DEF IInv, Running
  <2>. QED BY <1>1, <2>2, <2>3 DEF Running, Live
<1>20. OneValuePerScope'
  <2>. SUFFICES ASSUME NEW i \in 1..Len(made'), NEW j \in 1..Len(made'),
                       made'[i].kept, made'[j].kept,
                       made'[i].version = made'[j].version, made'[i].at = made'[j].at
       PROVE i = j
    BY DEF OneValuePerScope
  <2>1. CASE i \in 1..k /\ j \in 1..k BY <1>6, <2>1 DEF IInv, OneValuePerScope
  <2>2. CASE i \in 1..k /\ j = k + 1 BY <1>6, <1>16, <2>2
  <2>3. CASE i = k + 1 /\ j \in 1..k BY <1>6, <1>16, <2>3
  <2>. QED BY <1>6, <2>1, <2>2, <2>3
<1>21. Given'
  <2>. SUFFICES ASSUME NEW i \in 1..Len(stack'), stack'[i].given
       PROVE  i = Len(stack') /\ stack'[i].kept /\ Newest(stack[i].version, i)'
    BY DEF Given, Newest
  <2>1. /\ i + 1 \in 1..Len(stack) /\ stack[i + 1].given /\ 1 < i + 1
        /\ stack'[i].version = stack[i + 1].version /\ stack'[i].kept = stack[i + 1].kept
    BY <1>10
  <2>2. i + 1 = Len(stack) /\ stack[i + 1].kept /\ Newest(stack[i + 1].version, i + 1)
    BY <2>1 DEF IInv, Given
  <2>3. f.version < stack[i + 1].version BY <1>3, <2>1, <2>2 DEF Newest
  <2>4. \A d \in Containers, m \in Names : bindings'[d][m].version < stack[i + 1].version
    BY <1>11, <2>2 DEF Newest
  <2>5. \A j \in 1..Len(made') : made'[j].version < stack[i + 1].version
    BY <1>6, <2>2, <2>3 DEF Newest
  <2>6. ASSUME NEW j \in 1..Len(stack'), j < i PROVE stack'[j].version < stack[i + 1].version
    <3>1. j + 1 \in 1..Len(stack) /\ j + 1 < i + 1 /\ stack'[j].version = stack[j + 1].version
      BY <1>10, <2>6
    <3>. QED BY <2>2, <3>1 DEF Newest
  <2>10. Len(stack') = Len(stack) - 1 /\ Len(stack) \in Nat /\ i \in Nat BY <1>3, <1>10
  <2>7. i = Len(stack') /\ stack'[i].kept BY <2>1, <2>2, <2>10
  <2>8. stack'[i].version = stack[i + 1].version BY <2>1
  <2>9. \A j \in 1..Len(stack') : j < i => stack'[j].version < stack'[i].version
    BY <2>6, <2>8
  <2>. QED BY <2>4, <2>5, <2>7, <2>8, <2>9 DEF Newest
<1>. QED BY <1>13, <1>14, <1>15, <1>17, <1>18, <1>19, <1>20, <1>21 DEF IInv

-----------------------------------------------------------------------------
\* Every step keeps the invariant.
LEMMA StepKeeps == IInv /\ [Next]_vars => IInv'
<1>. SUFFICES ASSUME IInv, [Next]_vars PROVE IInv' OBVIOUS
<1>1. ASSUME NEW c \in Containers, NEW n \in Names, Invoke(c, n) PROVE IInv'
  BY <1>1, InvokeKeeps
<1>2. ASSUME NEW c \in Containers, NEW n \in Names, NEW kind \in Kinds, Set(c, n, kind)
      PROVE IInv'
  BY <1>2, SetKeeps
<1>12. ASSUME NEW c \in Containers, NEW n \in Names, SetValue(c, n) PROVE IInv'
  BY <1>12, SetValueKeeps
<1>13. CASE Give BY <1>13, GiveKeeps
<1>3. ASSUME NEW c \in Containers, NEW p \in Containers, Fork(p, c) PROVE IInv'
  BY <1>3, ForkKeeps
<1>4. ASSUME NEW c \in Containers, Freeze(c) PROVE IInv' BY <1>4, FreezeKeeps
<1>5. ASSUME NEW c \in Containers, Dispose(c) PROVE IInv' BY <1>5, DisposeKeeps
<1>6. ASSUME NEW c \in Containers, CallDisposer(c) PROVE IInv' BY <1>6, CallDisposerKeeps
<1>7. ASSUME NEW c \in Containers, FinishDisposal(c) PROVE IInv' BY <1>7, FinishDisposalKeeps
<1>8. ASSUME NEW n \in Names, Reuse(n) PROVE IInv' BY <1>8, ReuseKeeps
<1>9. CASE Return BY <1>9, ReturnKeeps
<1>10. CASE Throw BY <1>10, ThrowKeeps
<1>11. CASE UNCHANGED vars
  BY <1>11 DEF vars, tree, IInv, TypeOK, OneNameEach, Registered, Current, Remembered, Running,
               Given, Newest, OneValuePerScope, Live, Values, Bindings, Ids
<1>. QED BY <1>1, <1>2, <1>3, <1>4, <1>5, <1>6, <1>7, <1>8, <1>9, <1>10, <1>11, <1>12, <1>13 DEF Next

\* The invariant holds of every tree of containers, whatever the factories do.
THEOREM Inductive == Spec => []IInv
<1>1. Init => IInv BY InitHolds
<1>2. IInv /\ [Next]_vars => IInv' BY StepKeeps
<1>. QED BY <1>1, <1>2, PTL DEF Spec

\* A registration makes one value in each scope that caches it: a factory that
\* is under way finds the cache it will fill still empty when it returns.
THEOREM OneValue == Spec => []OneValuePerScope
BY Inductive, Implies, PTL

\* What is cached under a name is of the registration and the scope it has now.
THEOREM CurrentCache == Spec => []CacheIsCurrent
BY Inductive, Implies, PTL

-----------------------------------------------------------------------------
(* The queue of a disposal. *)

\* A set of natural numbers has a least one.
LEMMA LeastNat ==
  ASSUME NEW T, T \subseteq Nat, T # {}
  PROVE  \E x \in T : \A y \in T : x <= y
<1>. DEFINE R == {p \in Nat \X Nat : p[1] < p[2]}
<1>1. IsWellFoundedOn(R, Nat) BY NatLessThanWellFounded, Zenon DEF OpToRel
<1>2. PICK x \in T : \A y \in T : ~ (<<y, x>> \in R) BY <1>1, WFMin
<1>3. \A y \in T : x \in Nat /\ y \in Nat /\ ~(y < x) BY <1>2
<1>. QED BY <1>3

\* Induction over the natural numbers.
LEMMA SetInduction ==
  ASSUME NEW S, 0 \in S, \A n \in Nat : n \in S => n + 1 \in S
  PROVE  Nat \subseteq S
<1>. DEFINE T == Nat \ S
<1>. SUFFICES ASSUME T # {} PROVE FALSE OBVIOUS
<1>1. PICK x \in T : \A y \in T : x <= y
  <2>1. T \subseteq Nat OBVIOUS
  <2>. QED BY <2>1, LeastNat
<1>2. x - 1 \in Nat /\ ~(x <= x - 1) BY <1>1
<1>3. x - 1 \in S BY <1>1, <1>2
<1>4. (x - 1) + 1 \in S BY <1>2, <1>3
<1>. QED BY <1>2, <1>4

\* Induction up to a bound.
LEMMA BoundedInduction ==
  ASSUME NEW m \in Nat, NEW P, 0 \in P, \A n \in 1..m : n - 1 \in P => n \in P
  PROVE  \A n \in 0..m : n \in P
<1>. DEFINE Q == {n \in Nat : n <= m => n \in P}
<1>1. 0 \in Q OBVIOUS
<1>2. ASSUME NEW n \in Nat, n \in Q PROVE n + 1 \in Q
  <2>1. CASE n + 1 <= m
    <3>1. n \in P /\ n + 1 \in 1..m /\ (n + 1) - 1 = n BY <1>2, <2>1
    <3>. QED BY <3>1
  <2>2. CASE ~(n + 1 <= m) BY <2>2
  <2>. QED BY <2>1, <2>2
<1>. HIDE DEF Q
<1>3. Nat \subseteq Q BY <1>1, <1>2, SetInduction
<1>. USE DEF Q
<1>. QED BY <1>3

\* What the i-th name adds in front of what the names before it left.
Latest(names, i) == \A j \in (i + 1)..Len(names) : names[j] # names[i]
Put(names, cached, i, queue) ==
  IF cached[names[i]] = 0 \/ ~Latest(names, i) THEN queue ELSE <<cached[names[i]]>> \o queue
Builds(f, names, cached) ==
  f[0] = <<>> /\ \A i \in 1..Len(names) : f[i] = Put(names, cached, i, f[i - 1])

\* The queue is built name by name.
LEMMA LatestSteps ==
  ASSUME NEW N, NEW names \in Seq(N), NEW cached
  PROVE  \E f : LatestFirst(names, cached) = f[Len(names)] /\ Builds(f, names, cached)
<1>. DEFINE P(i, queue) == Put(names, cached, i, queue)
            Upto(n, f) == f[0] = <<>> /\ \A i \in 1..n : f[i] = P(i, f[i - 1])
            D == {n \in Nat : \E f : Upto(n, f)}
<1>1. 0 \in D
  <2>1. Upto(0, [i \in 0..0 |-> <<>>]) OBVIOUS
  <2>. QED BY <2>1
<1>2. ASSUME NEW n \in Nat, n \in D PROVE n + 1 \in D
  <2>. HIDE DEF P
  <2>1. PICK f : Upto(n, f) BY <1>2
  <2>. DEFINE g == [i \in 0..(n + 1) |-> IF i = n + 1 THEN P(n + 1, f[n]) ELSE f[i]]
  <2>2. g[n + 1] = P(n + 1, f[n]) /\ \A i \in 0..n : g[i] = f[i] OBVIOUS
  <2>. HIDE DEF g
  <2>3. ASSUME NEW i \in 1..(n + 1) PROVE g[i] = P(i, g[i - 1])
    <3>1. CASE i = n + 1 BY <2>2, <3>1
    <3>2. CASE i # n + 1
      <4>1. i \in 1..n /\ i \in 0..n /\ i - 1 \in 0..n BY <3>2
      <4>. QED BY <2>1, <2>2, <4>1
    <3>. QED BY <3>1, <3>2
  <2>4. g[0] = <<>> BY <2>1, <2>2
  <2>5. \E f1 : Upto(n + 1, f1) BY <2>3, <2>4, Zenon
  <2>. QED BY <2>5
<1>3. Len(names) \in Nat OBVIOUS
<1>4. Len(names) \in D
  <2>. HIDE DEF D
  <2>. QED BY <1>1, <1>2, <1>3, SetInduction
<1>. DEFINE Body(f) ==
       [i \in 0..Len(names) |->
          IF i = 0 THEN <<>>
          ELSE IF cached[names[i]] = 0 \/ \E j \in (i + 1)..Len(names) : names[j] = names[i]
          THEN f[i - 1]
          ELSE <<cached[names[i]]>> \o f[i - 1]]
<1>5. ASSUME NEW f, NEW i \in 0..Len(names)
      PROVE  Body(f)[i] = IF i = 0 THEN <<>> ELSE P(i, f[i - 1])
  <2>1. (\E j \in (i + 1)..Len(names) : names[j] = names[i]) <=> ~Latest(names, i)
    BY DEF Latest
  <2>. QED BY <2>1 DEF Put
<1>6. PICK f : f = Body(f)
  <2>1. PICK f : Upto(Len(names), f) BY <1>4
  <2>. DEFINE g == [i \in 0..Len(names) |-> f[i]]
  <2>2. \A i \in 0..Len(names) : g[i] = f[i] OBVIOUS
  <2>3. g = [i \in 0..Len(names) |-> g[i]] OBVIOUS
  <2>. HIDE DEF g, P
  <2>4. ASSUME NEW i \in 0..Len(names) PROVE g[i] = Body(g)[i]
    <3>1. CASE i = 0 BY <1>5, <2>1, <2>2, <3>1
    <3>2. CASE i # 0
      <4>1. i \in 1..Len(names) /\ i - 1 \in 0..Len(names) BY <1>3, <3>2
      <4>2. f[i] = P(i, f[i - 1]) BY <2>1, <4>1
      <4>. HIDE DEF Body, Upto
      <4>. QED BY <1>5, <2>2, <3>2, <4>1, <4>2
    <3>. QED BY <3>1, <3>2
  <2>5. g = Body(g) BY <2>3, <2>4
  <2>. QED BY <2>5
<1>. DEFINE g == CHOOSE f1 : f1 = Body(f1)
<1>7. g = Body(g) BY <1>6
<1>8. LatestFirst(names, cached) = g[Len(names)] BY DEF LatestFirst
<1>. HIDE DEF g
<1>9. \A i \in 0..Len(names) : Body(g)[i] = IF i = 0 THEN <<>> ELSE P(i, g[i - 1])
  BY <1>5
<1>. HIDE DEF Body
<1>10. \A i \in 0..Len(names) : g[i] = IF i = 0 THEN <<>> ELSE P(i, g[i - 1])
  BY <1>7, <1>9
<1>. HIDE DEF P
<1>11. g[0] = <<>> /\ \A i \in 1..Len(names) : g[i] = P(i, g[i - 1]) BY <1>3, <1>10
<1>12. Builds(g, names, cached) BY <1>11 DEF Builds, P
<1>. QED BY <1>8, <1>12

\* What is in the queue, and in which order: l comes before k in it.
Queues(q, m, names, cached) ==
  /\ \A k \in 1..Len(q) : \E i \in 1..m : Latest(names, i) /\ q[k] = cached[names[i]]
  /\ \A k \in 1..Len(q) : \A l \in 1..(k - 1) : \E i \in 1..m : \E j \in 1..(i - 1) :
       /\ Latest(names, i) /\ q[l] = cached[names[i]]
       /\ Latest(names, j) /\ q[k] = cached[names[j]]
  /\ \A i \in 1..m : Latest(names, i) /\ cached[names[i]] # 0 =>
       \E k \in 1..Len(q) : q[k] = cached[names[i]]

\* The queue holds what is cached, by the last place of its name.
LEMMA LatestFirstIs ==
  ASSUME NEW N, NEW names \in Seq(N), NEW M, NEW cached \in [N -> M]
  PROVE  /\ LatestFirst(names, cached) \in Seq(M \ {0})
         /\ Queues(LatestFirst(names, cached), Len(names), names, cached)
<1>1. PICK f : LatestFirst(names, cached) = f[Len(names)] /\ Builds(f, names, cached)
  BY LatestSteps, Zenon
<1>. DEFINE P == {n \in 0..Len(names) : f[n] \in Seq(M \ {0}) /\ Queues(f[n], n, names, cached)}
<1>2. 0 \in P
  <2>1. f[0] = <<>> /\ Len(<<>>) = 0 /\ <<>> \in Seq(M \ {0}) BY <1>1 DEF Builds
  <2>2. Queues(<<>>, 0, names, cached) BY <2>1 DEF Queues
  <2>3. f[0] \in Seq(M \ {0}) BY <2>1, EmptySeq
  <2>4. Queues(f[0], 0, names, cached) BY <2>1, <2>2, Zenon
  <2>5. 0 \in 0..Len(names) OBVIOUS
  <2>. QED BY <2>3, <2>4, <2>5
<1>3. ASSUME NEW n \in 1..Len(names), n - 1 \in P PROVE n \in P
  <2>. DEFINE q == f[n - 1]
              x == cached[names[n]]
  <2>1. f[n] = Put(names, cached, n, q) BY <1>1 DEF Builds
  <2>2. q \in Seq(M \ {0}) /\ Queues(q, n - 1, names, cached) BY <1>3
  <2>3. x \in M OBVIOUS
  <2>. HIDE DEF q
  <2>4. CASE x = 0 \/ ~Latest(names, n)
    <3>1. f[n] = q BY <2>1, <2>4 DEF Put
    <3>2. 1..(n - 1) \subseteq 1..n /\ \A i \in 1..n : i = n \/ i \in 1..(n - 1) OBVIOUS
    <3>3. Queues(q, n, names, cached)
      <4>1. \A k \in 1..Len(q) : \E i \in 1..n : Latest(names, i) /\ q[k] = cached[names[i]]
        BY <2>2, <3>2 DEF Queues
      <4>2. \A k \in 1..Len(q) : \A l \in 1..(k - 1) : \E i \in 1..n : \E j \in 1..(i - 1) :
               /\ Latest(names, i) /\ q[l] = cached[names[i]]
               /\ Latest(names, j) /\ q[k] = cached[names[j]]
        <5>1. \A k \in 1..Len(q) : \A l \in 1..(k - 1) : \E i \in 1..(n - 1) : \E j \in 1..(i - 1) :
                 /\ Latest(names, i) /\ q[l] = cached[names[i]]
                 /\ Latest(names, j) /\ q[k] = cached[names[j]]
          BY <2>2 DEF Queues
        <5>. QED BY <3>2, <5>1, Zenon
      <4>3. \A i \in 1..n : Latest(names, i) /\ cached[names[i]] # 0 =>
               \E k \in 1..Len(q) : q[k] = cached[names[i]]
        <5>1. \A i \in 1..(n - 1) : Latest(names, i) /\ cached[names[i]] # 0 =>
                \E k \in 1..Len(q) : q[k] = cached[names[i]]
          BY <2>2 DEF Queues
        <5>. QED BY <2>4, <3>2, <5>1
      <4>. QED BY <4>1, <4>2, <4>3 DEF Queues
    <3>. QED BY <2>2, <3>1, <3>3
  <2>5. CASE x # 0 /\ Latest(names, n)
    <3>. HIDE DEF x
    <3>1. f[n] = <<x>> \o q BY <2>1, <2>5 DEF Put, x
    <3>. DEFINE r == <<x>> \o q
    <3>2. x \in M \ {0} BY <2>3, <2>5
    <3>3. /\ r \in Seq(M \ {0}) /\ Len(r) = Len(q) + 1 /\ r[1] = x /\ Len(q) \in Nat
          /\ \A i \in 1..Len(q) : r[i + 1] = q[i]
          /\ \A i \in 1..Len(q) + 1 : i # 1 => i - 1 \in 1..Len(q) /\ r[i] = q[i - 1]
      BY <2>2, <3>2, Pushed
    <3>. HIDE DEF r
    <3>4. ASSUME NEW k \in 1..Len(r)
          PROVE  \E i \in 1..n : Latest(names, i) /\ r[k] = cached[names[i]]
      <4>1. CASE k = 1 BY <2>5, <3>3, <4>1 DEF x
      <4>2. CASE k # 1
        <5>1. k - 1 \in 1..Len(q) /\ r[k] = q[k - 1] BY <3>3, <4>2
        <5>2. PICK i \in 1..(n - 1) : Latest(names, i) /\ q[k - 1] = cached[names[i]]
          BY <2>2, <5>1 DEF Queues
        <5>. QED BY <5>1, <5>2
      <4>. QED BY <4>1, <4>2
    <3>5. ASSUME NEW k \in 1..Len(r), NEW l \in 1..(k - 1)
          PROVE  \E i \in 1..n : \E j \in 1..(i - 1) :
                   /\ Latest(names, i) /\ r[l] = cached[names[i]]
                   /\ Latest(names, j) /\ r[k] = cached[names[j]]
      <4>1. k # 1 /\ k - 1 \in 1..Len(q) /\ r[k] = q[k - 1] BY <3>3
      <4>2. CASE l = 1
        <5>1. PICK j \in 1..(n - 1) : Latest(names, j) /\ q[k - 1] = cached[names[j]]
          BY <2>2, <4>1 DEF Queues
        <5>2. Latest(names, n) /\ r[l] = cached[names[n]] BY <2>5, <3>3, <4>2 DEF x
        <5>3. n \in 1..n /\ j \in 1..(n - 1) OBVIOUS
        <5>. QED BY <4>1, <5>1, <5>2, <5>3
      <4>3. CASE l # 1
        <5>1. l - 1 \in 1..((k - 1) - 1) /\ r[l] = q[l - 1] BY <3>3, <4>3
        <5>2. PICK i \in 1..(n - 1) : \E j \in 1..(i - 1) :
                 /\ Latest(names, i) /\ q[l - 1] = cached[names[i]]
                 /\ Latest(names, j) /\ q[k - 1] = cached[names[j]]
          BY <2>2, <4>1, <5>1 DEF Queues
        <5>. QED BY <4>1, <5>1, <5>2
      <4>. QED BY <4>2, <4>3
    <3>6. ASSUME NEW i \in 1..n, Latest(names, i), cached[names[i]] # 0
          PROVE  \E k \in 1..Len(r) : r[k] = cached[names[i]]
      <4>1. CASE i = n
        <5>1. 1 \in 1..Len(r) /\ r[1] = cached[names[i]] BY <3>3, <4>1 DEF x
        <5>. QED BY <5>1
      <4>2. CASE i # n
        <5>1. i \in 1..(n - 1) BY <4>2
        <5>2. PICK k \in 1..Len(q) : q[k] = cached[names[i]] BY <2>2, <3>6, <5>1 DEF Queues
        <5>3. k + 1 \in 1..Len(r) /\ r[k + 1] = q[k] BY <3>3
        <5>. QED BY <5>2, <5>3
      <4>. QED BY <4>1, <4>2
    <3>7. Queues(r, n, names, cached) BY <3>4, <3>5, <3>6 DEF Queues
    <3>8. f[n] = r BY <3>1 DEF r
    <3>9. f[n] \in Seq(M \ {0}) /\ Queues(f[n], n, names, cached) BY <3>3, <3>7, <3>8, Zenon
    <3>. QED BY <3>9
  <2>. QED BY <2>4, <2>5
<1>4. Len(names) \in Nat OBVIOUS
<1>5. Len(names) \in P
  <2>. HIDE DEF P
  <2>1. \A n \in 0..Len(names) : n \in P BY <1>2, <1>3, <1>4, BoundedInduction
  <2>. QED BY <1>4, <2>1
<1>. QED BY <1>1, <1>5

-----------------------------------------------------------------------------
(* What disposal rests on. *)

\* Forks make a tree: a container is deeper in it than its parent.
Deepens(depth) ==
  \A c \in Containers : parent[c] # NoOne => depth[parent[c]] < depth[c]
Tree ==
  /\ \E depth \in [Containers -> Nat] : Deepens(depth)
  /\ \A c \in Containers : parent[c] # NoOne => state[parent[c]] # "unborn"

\* What is cached is kept, and a value that was registered was given to set().
Cache ==
  \A c \in Containers, n \in Names :
    LET b == bindings[c][n]
    IN b.cached # 0 => /\ made[b.cached].kept
                       /\ b.kind = "value" => made[b.cached].given

\* Later values of a name in a container are of later registrations; what a
\* value is made from was made before it.
Chronicle ==
  /\ \A i, j \in 1..Len(made) :
       /\ i < j /\ made[i].kept /\ made[j].kept
       /\ made[i].at = made[j].at /\ made[i].name = made[j].name
       => made[i].version <= made[j].version
  /\ \A i \in 1..Len(made) : made[i].uses \subseteq 0..(i - 1)

\* t[k] is the value that was made when the k-th name was added to the order of
\* c: what a factory made and is still cached is among them.
Tells(c, t) ==
  /\ \A k \in 1..Len(order[c]) :
       /\ t[k] \in 1..Len(made)
       /\ made[t[k]].at = c /\ made[t[k]].name = order[c][k] /\ made[t[k]].kept
       /\ \A l \in 1..(k - 1) : t[l] < t[k]
  /\ \A n \in Names :
       LET b == bindings[c][n]
       IN b.cached # 0 /\ b.kind # "value" =>
            \E k \in 1..Len(order[c]) : t[k] = b.cached
Recorded == \A c \in Containers : \E t \in [1..Len(order[c]) -> 1..Len(made)] : Tells(c, t)

\* x may end before y: y was not made from x, or was given to set().
Ends(x, y) == x # y /\ (y < x \/ made[y].given)

\* What waits in a disposal and what has ended.
Disposals ==
  /\ pending \in [Containers -> Seq(1..Len(made))] /\ ended \in Seq(1..Len(made))
  /\ \A c \in Containers :
       /\ pending[c] # <<>> => state[c] = "disposing"
       /\ \A k \in 1..Len(pending[c]) :
            /\ made[pending[c][k]].at = c
            /\ \A l \in 1..(k - 1) : Ends(pending[c][l], pending[c][k])
            /\ \A l \in 1..Len(ended) : Ends(ended[l], pending[c][k]) \/ made[ended[l]].at # c
  /\ \A k \in 1..Len(ended) :
       /\ state[made[ended[k]].at] \in {"disposing", "disposed"}
       /\ \A l \in 1..(k - 1) :
            Ends(ended[l], ended[k]) \/ made[ended[l]].at # made[ended[k]].at

\* A disposal queues everything that a factory made and that is cached.
Complete ==
  \A c \in Containers, n \in Names :
    LET b == bindings[c][n]
    IN state[c] = "disposing" /\ b.cached # 0 /\ b.kind # "value" =>
         \/ \E k \in 1..Len(ended) : ended[k] = b.cached
         \/ \E k \in 1..Len(pending[c]) : pending[c][k] = b.cached

DInv == Tree /\ Cache /\ Chronicle /\ Recorded /\ Disposals /\ Complete

\* The nearest registration above c, by what the function says of its parent.
Nearest(n, f, c) ==
  IF bindings[c][n].kind # "none" THEN c
  ELSE IF parent[c] # NoOne /\ Live(parent[c]) THEN f[parent[c]] ELSE NoOne

\* The search for a registration ends: HolderOf is what its definition says.
LEMMA HolderSteps ==
  ASSUME TypeOK, Tree, NEW n \in Names
  PROVE  \A c \in Containers : HolderOf(n)[c] = Nearest(n, HolderOf(n), c)
<1>1. PICK depth \in [Containers -> Nat] : Deepens(depth) BY DEF Tree
<1>2. \A c \in Containers : parent[c] # NoOne =>
        parent[c] \in Containers /\ depth[parent[c]] < depth[c]
  BY <1>1 DEF TypeOK, Deepens
<1>. DEFINE V(f, c) == Nearest(n, f, c)
            Upto(k, f) == \A c \in Containers : depth[c] < k => f[c] = V(f, c)
            D == {k \in Nat : \E f : Upto(k, f)}
<1>3. ASSUME NEW f, NEW g, NEW c \in Containers,
             \A d \in Containers : depth[d] < depth[c] => f[d] = g[d]
      PROVE  V(f, c) = V(g, c)
  BY <1>2, <1>3 DEF Nearest
<1>. HIDE DEF V
<1>4. \A k \in Nat : \E f : Upto(k, f)
  <2>1. 0 \in D
    <3>1. \A f : Upto(0, f) BY <1>1
    <3>. QED BY <3>1
  <2>2. ASSUME NEW k \in Nat, k \in D PROVE k + 1 \in D
    <3>1. PICK f : Upto(k, f) BY <2>2
    <3>. DEFINE g == [c \in Containers |-> V(f, c)]
    <3>2. ASSUME NEW c \in Containers, depth[c] < k + 1 PROVE g[c] = V(g, c)
      <4>1. \A d \in Containers : depth[d] < depth[c] => depth[d] < k BY <1>1, <3>2
      <4>2. \A d \in Containers : depth[d] < depth[c] => f[d] = g[d] BY <3>1, <4>1
      <4>. HIDE DEF g
      <4>3. V(f, c) = V(g, c) BY <1>3, <4>2
      <4>4. g[c] = V(f, c) BY DEF g
      <4>. QED BY <4>3, <4>4
    <3>. HIDE DEF g
    <3>3. \E f1 : Upto(k + 1, f1) BY <3>2
    <3>. QED BY <3>3
  <2>. HIDE DEF D
  <2>3. Nat \subseteq D BY <2>1, <2>2, SetInduction
  <2>. QED BY <2>3 DEF D
<1>5. ASSUME NEW m \in Nat, NEW f, NEW g, Upto(m, f), Upto(m, g)
      PROVE  \A c \in Containers : depth[c] < m => f[c] = g[c]
  <2>. DEFINE P == {k \in Nat : \A c \in Containers : depth[c] < k => f[c] = g[c]}
  <2>1. 0 \in P BY <1>1
  <2>2. ASSUME NEW k \in 1..m, k - 1 \in P PROVE k \in P
    <3>1. ASSUME NEW c \in Containers, depth[c] < k PROVE f[c] = g[c]
      <4>1. \A d \in Containers : depth[d] < depth[c] => depth[d] < k - 1 BY <1>1, <3>1
      <4>2. \A d \in Containers : depth[d] < depth[c] => f[d] = g[d] BY <2>2, <4>1
      <4>3. V(f, c) = V(g, c) BY <1>3, <4>2
      <4>4. depth[c] < m BY <1>1, <3>1
      <4>. QED BY <1>5, <4>3, <4>4
    <3>. QED BY <3>1
  <2>. HIDE DEF P
  <2>3. \A k \in 0..m : k \in P BY <2>1, <2>2, BoundedInduction
  <2>4. m \in P BY <2>3
  <2>. QED BY <2>4 DEF P
<1>. DEFINE F(k) == CHOOSE f : Upto(k, f)
            h == [c \in Containers |-> F(depth[c] + 1)[c]]
            Body(f) == [c \in Containers |-> V(f, c)]
<1>6. \A k \in Nat : Upto(k, F(k)) BY <1>4
<1>. HIDE DEF F
<1>7. ASSUME NEW c \in Containers PROVE h[c] = V(h, c)
  <2>1. depth[c] + 1 \in Nat /\ depth[c] < depth[c] + 1 BY <1>1
  <2>2. h[c] = V(F(depth[c] + 1), c) BY <1>6, <2>1
  <2>3. ASSUME NEW d \in Containers, depth[d] < depth[c]
        PROVE  F(depth[c] + 1)[d] = h[d]
    <3>1. depth[d] + 1 \in Nat /\ depth[d] < depth[d] + 1 /\ depth[d] + 1 <= depth[c] + 1
      BY <1>1, <2>3
    <3>2. Upto(depth[c] + 1, F(depth[c] + 1)) BY <1>6, <2>1
    <3>3. Upto(depth[d] + 1, F(depth[c] + 1)) BY <1>1, <2>1, <3>1, <3>2
    <3>4. Upto(depth[d] + 1, F(depth[d] + 1)) BY <1>6, <3>1
    <3>. HIDE DEF Upto
    <3>5. F(depth[c] + 1)[d] = F(depth[d] + 1)[d] BY <1>5, <3>1, <3>3, <3>4
    <3>. QED BY <3>5
  <2>. HIDE DEF h
  <2>4. V(F(depth[c] + 1), c) = V(h, c) BY <1>3, <2>3
  <2>. QED BY <2>2, <2>4
<1>8. h = Body(h)
  <2>1. h = [c \in Containers |-> h[c]] OBVIOUS
  <2>. HIDE DEF h
  <2>. QED BY <1>7, <2>1
<1>9. HolderOf(n) = CHOOSE f : f = Body(f) BY DEF HolderOf, V, Nearest
<1>. HIDE DEF h, Body
<1>10. HolderOf(n) = Body(HolderOf(n)) BY <1>8, <1>9
<1>. QED BY <1>10 DEF Body, V

\* Who holds a name for a container is the container or one that is not disposed.
LEMMA HolderIsLive ==
  ASSUME TypeOK, Tree, NEW n \in Names, NEW c \in Containers, HolderOf(n)[c] # NoOne, Live(c)
  PROVE  Found(c, HolderOf(n)[c], n)
<1>1. PICK depth \in [Containers -> Nat] : Deepens(depth) BY DEF Tree
<1>2. \A d \in Containers : parent[d] # NoOne =>
        parent[d] \in Containers /\ depth[parent[d]] < depth[d]
  BY <1>1 DEF TypeOK, Deepens
<1>. DEFINE h == HolderOf(n)
            Good(d) == h[d] # NoOne =>
              /\ h[d] \in Containers /\ bindings[h[d]][n].kind # "none"
              /\ h[d] # d => bindings[d][n].kind = "none" /\ Live(h[d])
            P == {k \in Nat : \A d \in Containers : depth[d] < k => Good(d)}
<1>3. \A d \in Containers : h[d] = Nearest(n, h, d) BY HolderSteps
<1>. HIDE DEF h
<1>4. 0 \in P BY <1>1
<1>5. ASSUME NEW k \in Nat, k \in P PROVE k + 1 \in P
  <2>1. ASSUME NEW d \in Containers, depth[d] < k + 1 PROVE Good(d)
    <3>1. CASE bindings[d][n].kind # "none" BY <1>3, <3>1 DEF Nearest
    <3>2. CASE bindings[d][n].kind = "none" /\ parent[d] # NoOne /\ Live(parent[d])
      <4>1. h[d] = h[parent[d]] BY <1>3, <3>2 DEF Nearest
      <4>2. parent[d] \in Containers /\ depth[parent[d]] < k BY <1>1, <1>2, <2>1, <3>2
      <4>3. Good(parent[d]) BY <1>5, <4>2
      <4>. QED BY <3>2, <4>1, <4>3
    <3>3. CASE bindings[d][n].kind = "none" /\ ~(parent[d] # NoOne /\ Live(parent[d]))
      BY <1>3, <3>3 DEF Nearest
    <3>. QED BY <3>1, <3>2, <3>3
  <2>. QED BY <2>1
<1>. HIDE DEF P
<1>6. Nat \subseteq P BY <1>4, <1>5, SetInduction
<1>7. depth[c] + 1 \in P /\ depth[c] < depth[c] + 1 BY <1>1, <1>6
<1>8. Good(c) BY <1>7 DEF P
<1>. QED BY <1>8 DEF h, Found

\* What a value was made from was made before it.
LEMMA NeedsBefore ==
  ASSUME TypeOK, Chronicle, NEW i \in 1..Len(made)
  PROVE  Needs[i] \subseteq 0..(i - 1)
<1>. DEFINE m == Len(made)
            V(f, j) == IF j = 0 THEN {} ELSE made[j].uses \cup UNION {f[l] : l \in made[j].uses}
            Upto(k, f) == \A j \in Ids : j <= k => f[j] = V(f, j)
            D == {k \in Nat : \E f : Upto(k, f)}
<1>1. m \in Nat /\ Ids = 0..m BY DEF TypeOK, Ids
<1>2. \A j \in 1..m : made[j].uses \subseteq 0..(j - 1) BY DEF Chronicle
<1>. HIDE DEF m
<1>3. ASSUME NEW f, NEW g, NEW j \in Ids, \A l \in Ids : l < j => f[l] = g[l]
      PROVE  V(f, j) = V(g, j)
  <2>1. CASE j = 0 BY <2>1
  <2>2. CASE j # 0
    <3>1. \A l \in made[j].uses : l \in Ids /\ l < j BY <1>1, <1>2, <2>2
    <3>2. \A l \in made[j].uses : f[l] = g[l] BY <1>3, <3>1
    <3>3. {f[l] : l \in made[j].uses} = {g[l] : l \in made[j].uses} BY <3>2
    <3>. QED BY <2>2, <3>3
  <2>. QED BY <2>1, <2>2
<1>. HIDE DEF V
<1>4. \A k \in Nat : \E f : Upto(k, f)
  <2>1. 0 \in D
    <3>. DEFINE f == [j \in Ids |-> V(<<>>, 0)]
    <3>1. \A l \in Ids : ~(l < 0) BY <1>1
    <3>2. V(<<>>, 0) = V(f, 0) BY DEF V
    <3>3. \A j \in Ids : j <= 0 => j = 0 BY <1>1
    <3>4. Upto(0, f) BY <3>2, <3>3
    <3>. QED BY <3>4
  <2>2. ASSUME NEW k \in Nat, k \in D PROVE k + 1 \in D
    <3>1. PICK f : Upto(k, f) BY <2>2
    <3>. DEFINE g == [j \in Ids |-> V(f, j)]
    <3>2. ASSUME NEW j \in Ids, j <= k + 1 PROVE g[j] = V(g, j)
      <4>1. \A l \in Ids : l < j => l <= k BY <1>1, <3>2
      <4>2. \A l \in Ids : l < j => f[l] = g[l] BY <3>1, <4>1
      <4>4. g[j] = V(f, j) OBVIOUS
      <4>. HIDE DEF g
      <4>3. V(f, j) = V(g, j) BY <1>3, <4>2
      <4>. QED BY <4>3, <4>4
    <3>. HIDE DEF g
    <3>3. \E f1 : Upto(k + 1, f1) BY <3>2
    <3>. QED BY <3>3
  <2>. HIDE DEF D
  <2>3. Nat \subseteq D BY <2>1, <2>2, SetInduction
  <2>. QED BY <2>3 DEF D
<1>. DEFINE Body(f) == [j \in Ids |-> V(f, j)]
<1>5. PICK f : f = Body(f)
  <2>1. PICK f : Upto(m, f) BY <1>1, <1>4
  <2>. DEFINE g == [j \in Ids |-> f[j]]
  <2>2. ASSUME NEW j \in Ids PROVE g[j] = V(g, j)
    <3>1. j <= m /\ \A l \in Ids : l < j => f[l] = g[l] BY <1>1
    <3>2. g[j] = f[j] /\ f[j] = V(f, j) BY <2>1, <3>1
    <3>. HIDE DEF g
    <3>3. V(f, j) = V(g, j) BY <1>3, <3>1
    <3>. QED BY <3>2, <3>3
  <2>3. g = [j \in Ids |-> g[j]] OBVIOUS
  <2>. HIDE DEF g
  <2>4. g = Body(g) BY <2>2, <2>3
  <2>. QED BY <2>4
<1>6. Needs = CHOOSE f1 : f1 = Body(f1) BY DEF Needs, V
<1>. HIDE DEF Body
<1>7. Needs = Body(Needs) BY <1>5, <1>6
<1>8. \A j \in Ids : Needs[j] = V(Needs, j) BY <1>7 DEF Body
<1>9. /\ Needs[0] = {}
      /\ \A j \in 1..m : Needs[j] = made[j].uses \cup UNION {Needs[l] : l \in made[j].uses}
  <2>1. 0 \in Ids /\ \A j \in 1..m : j \in Ids /\ j # 0 BY <1>1
  <2>. QED BY <1>8, <2>1, Zenon DEF V
<1>. DEFINE P == {k \in Nat : \A j \in Ids : j <= k => Needs[j] \subseteq 0..(j - 1)}
<1>10. 0 \in P
  <2>1. \A j \in Ids : j <= 0 => j = 0 BY <1>1
  <2>. QED BY <1>9, <2>1
<1>11. ASSUME NEW k \in Nat, k \in P PROVE k + 1 \in P
  <2>1. ASSUME NEW j \in Ids, j <= k + 1, j # 0, NEW x \in Needs[j] PROVE x \in 0..(j - 1)
    <3>1. j \in 1..m BY <1>1, <2>1
    <3>2. CASE x \in made[j].uses BY <1>2, <3>1, <3>2
    <3>3. CASE x \notin made[j].uses
      <4>1. PICK l \in made[j].uses : x \in Needs[l] BY <1>9, <2>1, <3>1, <3>3
      <4>2. l \in 0..(j - 1) /\ l \in Ids /\ l <= k BY <1>1, <1>2, <2>1, <3>1
      <4>3. Needs[l] \subseteq 0..(l - 1) BY <1>11, <4>2
      <4>. QED BY <1>1, <4>1, <4>2, <4>3
    <3>. QED BY <3>2, <3>3
  <2>2. Needs[0] \subseteq 0..(0 - 1) BY <1>9
  <2>. QED BY <2>1, <2>2
<1>. HIDE DEF P
<1>12. Nat \subseteq P BY <1>10, <1>11, SetInduction
<1>13. i \in 1..m /\ i \in Nat /\ i \in Ids BY <1>1 DEF m
<1>14. i \in P BY <1>12, <1>13
<1>. QED BY <1>13, <1>14 DEF P

-----------------------------------------------------------------------------
(* Every step keeps what disposal rests on. *)

\* Nothing is forgotten of the values there have been.
Grows == /\ Len(made) <= Len(made') /\ Len(made) \in Nat /\ Len(made') \in Nat
         /\ \A i \in 1..Len(made) : i \in 1..Len(made') /\ made'[i] = made[i]

\* It holds in an empty container.
LEMMA InitDisposals == Init => DInv
<1>. SUFFICES ASSUME Init PROVE DInv OBVIOUS
<1>1. /\ Len(made) = 0 /\ Len(ended) = 0 /\ made = <<>> /\ ended = <<>>
      /\ \A c \in Containers : Len(pending[c]) = 0 /\ pending[c] = <<>> /\ Len(order[c]) = 0
      /\ \A c \in Containers : parent[c] = NoOne /\ state[c] # "disposing"
      /\ \A c \in Containers, n \in Names : bindings[c][n].cached = 0
      /\ pending = [c \in Containers |-> <<>>]
  BY DEF Init, Nothing
<1>2. Tree
  <2>1. Deepens([c \in Containers |-> 0]) /\ [c \in Containers |-> 0] \in [Containers -> Nat]
    BY <1>1 DEF Deepens
  <2>. QED BY <1>1, <2>1 DEF Tree
<1>3. Cache /\ Chronicle /\ Complete BY <1>1 DEF Cache, Chronicle, Complete
<1>4. Recorded
  <2>1. ASSUME NEW c \in Containers
        PROVE  \E t \in [1..Len(order[c]) -> 1..Len(made)] : Tells(c, t)
    <3>1. <<>> \in [1..Len(order[c]) -> 1..Len(made)] BY <1>1
    <3>2. Tells(c, <<>>) BY <1>1 DEF Tells
    <3>. QED BY <3>1, <3>2
  <2>. QED BY <2>1 DEF Recorded
<1>5. Disposals
  <2>1. pending \in [Containers -> Seq(1..Len(made))] /\ ended \in Seq(1..Len(made))
    BY <1>1
  <2>. QED BY <1>1, <2>1 DEF Disposals
<1>. QED BY <1>2, <1>3, <1>4, <1>5 DEF DInv

\* Values that are added do not disturb a disposal, nor do states that go on.
LEMMA DisposalsStay ==
  ASSUME TypeOK, Disposals, Grows, pending' = pending, ended' = ended,
         \A c \in Containers : pending[c] # <<>> => state'[c] = "disposing",
         \A c \in Containers : state[c] \in {"disposing", "disposed"} =>
                               state'[c] \in {"disposing", "disposed"}
  PROVE  Disposals'
<1>1. /\ pending \in [Containers -> Seq(1..Len(made))] /\ ended \in Seq(1..Len(made))
      /\ 1..Len(made) \subseteq 1..Len(made')
  BY DEF Disposals, Grows
<1>2. pending' \in [Containers -> Seq(1..Len(made'))] /\ ended' \in Seq(1..Len(made'))
  <2>1. ended \in Seq(1..Len(made')) BY <1>1, SeqGrows
  <2>2. \A c \in Containers : pending[c] \in Seq(1..Len(made')) BY <1>1, SeqGrows
  <2>3. pending = [c \in Containers |-> pending[c]] BY <1>1
  <2>4. pending \in [Containers -> Seq(1..Len(made'))] BY <2>2, <2>3
  <2>. QED BY <2>1, <2>4
<1>3. /\ \A k \in 1..Len(ended) : ended[k] \in 1..Len(made)
      /\ \A c \in Containers : \A k \in 1..Len(pending[c]) : pending[c][k] \in 1..Len(made)
  BY <1>1
<1>4. \A x, y \in 1..Len(made) : Ends(x, y) => Ends(x, y)' BY DEF Grows, Ends
<1>5. \A i \in 1..Len(made) : made'[i] = made[i] /\ made[i].at \in Containers
  <2>1. \A i \in 1..Len(made) : made[i] \in Values BY DEF TypeOK
  <2>. QED BY <2>1 DEF Grows, Values
<1>6. ASSUME NEW c \in Containers, NEW k \in 1..Len(pending[c])
      PROVE  /\ made'[pending[c][k]].at = c
             /\ \A l \in 1..(k - 1) : Ends(pending[c][l], pending[c][k])'
             /\ \A l \in 1..Len(ended) :
                  Ends(ended[l], pending[c][k])' \/ made'[ended[l]].at # c
  <2>1. /\ made[pending[c][k]].at = c
        /\ \A l \in 1..(k - 1) : Ends(pending[c][l], pending[c][k])
        /\ \A l \in 1..Len(ended) : Ends(ended[l], pending[c][k]) \/ made[ended[l]].at # c
    BY DEF Disposals
  <2>2. \A l \in 1..(k - 1) : l \in 1..Len(pending[c]) OBVIOUS
  <2>3. \A l \in 1..(k - 1) : Ends(pending[c][l], pending[c][k])'
    BY <1>3, <1>4, <2>1, <2>2
  <2>4. \A l \in 1..Len(ended) : Ends(ended[l], pending[c][k])' \/ made'[ended[l]].at # c
    BY <1>3, <1>4, <1>5, <2>1
  <2>. QED BY <1>3, <1>5, <2>1, <2>3, <2>4
<1>7. ASSUME NEW k \in 1..Len(ended)
      PROVE  /\ state'[made'[ended[k]].at] \in {"disposing", "disposed"}
             /\ \A l \in 1..(k - 1) :
                  Ends(ended[l], ended[k])' \/ made'[ended[l]].at # made'[ended[k]].at
  <2>1. /\ state[made[ended[k]].at] \in {"disposing", "disposed"}
        /\ \A l \in 1..(k - 1) :
             Ends(ended[l], ended[k]) \/ made[ended[l]].at # made[ended[k]].at
    BY DEF Disposals
  <2>2. \A l \in 1..(k - 1) : l \in 1..Len(ended) OBVIOUS
  <2>. QED BY <1>3, <1>4, <1>5, <2>1, <2>2
<1>. QED BY <1>2, <1>6, <1>7 DEF Disposals

\* What was recorded stays so, as long as nothing new is cached.
LEMMA RecordedStays ==
  ASSUME Grows, NEW c \in Containers, order'[c] = order[c],
         \A n \in Names : bindings'[c][n].cached # 0 /\ bindings'[c][n].kind # "value" =>
           /\ bindings[c][n].cached = bindings'[c][n].cached /\ bindings[c][n].kind # "value",
         \E t \in [1..Len(order[c]) -> 1..Len(made)] : Tells(c, t)
  PROVE  (\E t \in [1..Len(order[c]) -> 1..Len(made)] : Tells(c, t))'
<1>1. PICK t \in [1..Len(order[c]) -> 1..Len(made)] : Tells(c, t) OBVIOUS
<1>2. t \in [1..Len(order'[c]) -> 1..Len(made')]
  <2>1. 1..Len(made) \subseteq 1..Len(made') BY DEF Grows
  <2>. QED BY <2>1
<1>3. Tells(c, t)'
  <2>1. ASSUME NEW k \in 1..Len(order'[c])
        PROVE  /\ t[k] \in 1..Len(made')
               /\ made'[t[k]].at = c /\ made'[t[k]].name = order'[c][k] /\ made'[t[k]].kept
               /\ \A l \in 1..(k - 1) : t[l] < t[k]
    BY <1>1, ZenonT(20) DEF Tells, Grows
  <2>2. ASSUME NEW n \in Names, bindings'[c][n].cached # 0, bindings'[c][n].kind # "value"
        PROVE  \E k \in 1..Len(order'[c]) : t[k] = bindings'[c][n].cached
    <3>1. /\ bindings[c][n].cached = bindings'[c][n].cached
          /\ bindings[c][n].cached # 0 /\ bindings[c][n].kind # "value"
      BY <2>2
    <3>2. \E k \in 1..Len(order[c]) : t[k] = bindings[c][n].cached
      BY <1>1, <3>1 DEF Tells
    <3>. QED BY <3>1, <3>2
  <2>. QED BY <2>1, <2>2 DEF Tells
<1>. QED BY <1>2, <1>3

\* The tree stays, with its depths.
LEMMA TreeStays == ASSUME Tree, parent' = parent, state' = state PROVE Tree'
BY DEF Tree, Deepens

\* A registration that replaces another takes its cache along.
LEMMA RegisteringDisposals ==
  ASSUME IInv, DInv, NEW c \in Containers, NEW n \in Names, NEW kind \in Kinds,
         NEW v \in Nat, NEW w, Live(c), Newest(v, 1),
         w.name = n, w.version = v, w.at = c, w.kept, w.given,
         w.uses \subseteq 0..Len(made),
         made' = IF kind = "value" THEN Append(made, w) ELSE made,
         bindings' = [bindings EXCEPT ![c][n] =
           [kind |-> kind, version |-> v, cached |-> IF kind = "value" THEN Len(made') ELSE 0]],
         UNCHANGED <<order, pending, ended, tree>>
  PROVE  DInv'
<1>. DEFINE k == Len(made)
<1>1. /\ registered \in Nat /\ k \in Nat /\ parent' = parent /\ state' = state
      /\ made \in Seq(Values) /\ bindings \in [Containers -> [Names -> Bindings]]
  BY DEF IInv, TypeOK, tree
<1>3. /\ Len(made') = IF kind = "value" THEN k + 1 ELSE k
      /\ \A i \in 1..k : made'[i] = made[i]
      /\ kind = "value" => made'[k + 1] = w
  BY <1>1
<1>4. Grows BY <1>1, <1>3 DEF Grows
<1>5. \A d \in Containers, m \in Names :
        IF d = c /\ m = n
        THEN /\ bindings'[d][m].kind = kind
             /\ bindings'[d][m].cached = IF kind = "value" THEN k + 1 ELSE 0
        ELSE bindings'[d][m] = bindings[d][m]
  BY <1>1, <1>3
<1>6. w.name = n /\ w.version = v /\ w.at = c /\ w.kept /\ w.given /\ w.uses \subseteq 0..k
  OBVIOUS
<1>7. \A i \in 1..k :
        /\ made[i].version \in Nat /\ made[i].version < v
        /\ made[i].at \in Containers /\ made[i].name \in Names
  BY MadeFields DEF Newest
<1>8. \A d \in Containers, m \in Names : bindings[d][m].cached \in 0..k
  BY BindingFields
<1>9. Tree' BY <1>1, TreeStays DEF DInv
<1>10. Cache'
  <2>. SUFFICES ASSUME NEW d \in Containers, NEW m \in Names, bindings'[d][m].cached # 0
       PROVE /\ made'[bindings'[d][m].cached].kept
             /\ bindings'[d][m].kind = "value" => made'[bindings'[d][m].cached].given
    BY DEF Cache
  <2>1. CASE d = c /\ m = n BY <1>3, <1>5, <1>6, <2>1
  <2>2. CASE ~(d = c /\ m = n)
    <3>1. bindings'[d][m] = bindings[d][m] /\ bindings[d][m].cached \in 1..k
      BY <1>5, <1>8, <2>2
    <3>2. made'[bindings[d][m].cached] = made[bindings[d][m].cached] BY <1>3, <3>1
    <3>3. /\ made[bindings[d][m].cached].kept
          /\ bindings[d][m].kind = "value" => made[bindings[d][m].cached].given
      BY <3>1 DEF DInv, Cache
    <3>. QED BY <3>1, <3>2, <3>3
  <2>. QED BY <2>1, <2>2
<1>11. Chronicle'
  <2>1. ASSUME NEW i \in 1..Len(made'), NEW j \in 1..Len(made'), i < j,
               made'[i].kept, made'[j].kept,
               made'[i].at = made'[j].at, made'[i].name = made'[j].name
        PROVE  made'[i].version <= made'[j].version
    <3>1. CASE j \in 1..k
      <4>1. i \in 1..k BY <2>1, <3>1
      <4>. QED BY <1>3, <2>1, <3>1, <4>1 DEF DInv, Chronicle
    <3>2. CASE j = k + 1 /\ kind = "value"
      <4>1. i \in 1..k BY <1>3, <2>1, <3>2
      <4>. QED BY <1>1, <1>3, <1>6, <1>7, <3>2, <4>1
    <3>. QED BY <1>1, <1>3, <3>1, <3>2
  <2>2. ASSUME NEW i \in 1..Len(made') PROVE made'[i].uses \subseteq 0..(i - 1)
    <3>1. CASE i \in 1..k BY <1>3, <3>1 DEF DInv, Chronicle
    <3>2. CASE i = k + 1 /\ kind = "value"
      <4>1. i - 1 = k /\ made'[i] = w BY <1>1, <1>3, <3>2
      <4>. QED BY <1>6, <4>1
    <3>. QED BY <1>1, <1>3, <3>1, <3>2
  <2>. QED BY <2>1, <2>2 DEF Chronicle
<1>12. Recorded'
  <2>1. ASSUME NEW d \in Containers
        PROVE  (\E t \in [1..Len(order[d]) -> 1..Len(made)] : Tells(d, t))'
    <3>1. \A m \in Names : bindings'[d][m].cached # 0 /\ bindings'[d][m].kind # "value" =>
            bindings[d][m].cached = bindings'[d][m].cached /\ bindings[d][m].kind # "value"
      BY <1>5
    <3>2. order'[d] = order[d] BY <1>1
    <3>3. \E t \in [1..Len(order[d]) -> 1..Len(made)] : Tells(d, t) BY DEF DInv, Recorded
    <3>. QED BY <1>4, <3>1, <3>2, <3>3, RecordedStays
  <2>. QED BY <2>1 DEF Recorded
<1>13. Disposals'
  <2>1. \A d \in Containers : pending[d] # <<>> => state[d] = "disposing"
    BY DEF DInv, Disposals
  <2>2. TypeOK /\ Disposals BY DEF IInv, DInv
  <2>. QED BY <1>1, <1>4, <2>1, <2>2, DisposalsStay
<1>14. Complete'
  <2>. SUFFICES ASSUME NEW d \in Containers, NEW m \in Names,
                       state[d] = "disposing", bindings'[d][m].cached # 0,
                       bindings'[d][m].kind # "value"
       PROVE  \/ \E l \in 1..Len(ended) : ended[l] = bindings'[d][m].cached
              \/ \E l \in 1..Len(pending[d]) : pending[d][l] = bindings'[d][m].cached
    BY <1>1 DEF Complete
  <2>1. d # c BY DEF Live
  <2>2. bindings'[d][m] = bindings[d][m] BY <1>5, <2>1
  <2>. QED BY <2>2 DEF DInv, Complete
<1>. QED BY <1>9, <1>10, <1>11, <1>12, <1>13, <1>14 DEF DInv

\* A registration without a value.
LEMMA SetDisposals ==
  ASSUME IInv, DInv, NEW c \in Containers, NEW n \in Names, NEW kind \in Kinds, Set(c, n, kind)
  PROVE  DInv'
<1>. DEFINE w == [name |-> n, version |-> registered + 1, at |-> c,
                  kept |-> TRUE, given |-> TRUE, uses |-> {}]
<1>1. /\ Live(c) /\ kind # "value" /\ made' = made
      /\ bindings' = [bindings EXCEPT ![c][n] =
           [kind |-> kind, version |-> registered + 1, cached |-> 0]]
      /\ UNCHANGED <<order, pending, ended, tree>>
  BY DEF Set
<1>2. registered + 1 \in Nat /\ Newest(registered + 1, 1) BY NextIsNewest
<1>3. /\ w.name = n /\ w.version = registered + 1 /\ w.at = c /\ w.kept /\ w.given
      /\ w.uses \subseteq 0..Len(made)
  OBVIOUS
<1>. HIDE DEF w
<1>. QED BY <1>1, <1>2, <1>3, RegisteringDisposals

\* A value is registered that the factory given to set() made.
LEMMA GiveDisposals ==
  ASSUME IInv, DInv, Give
  PROVE  DInv'
<1>. DEFINE w == Head(stack)
<1>1. /\ stack # <<>> /\ w.given /\ made' = Append(made, w)
      /\ bindings' = [bindings EXCEPT ![w.at][w.name] =
           [kind |-> "value", version |-> w.version, cached |-> Len(made')]]
      /\ UNCHANGED <<order, pending, ended, tree>>
  BY DEF Give
<1>2. /\ w.kept /\ Newest(w.version, 1) /\ Live(w.at) /\ w.uses \subseteq 0..Len(made)
      /\ w.at \in Containers /\ w.name \in Names /\ w.version \in 1..registered
      /\ registered \in Nat
  BY <1>1, GivenFields
<1>. HIDE DEF w
<1>3. "value" \in Kinds /\ w.version \in Nat BY <1>2 DEF Kinds
<1>. QED BY <1>1, <1>2, <1>3, RegisteringDisposals

\* What leaves containers, registrations and values alone leaves all of it alone.
LEMMA QuietDisposals ==
  ASSUME DInv, UNCHANGED <<state, parent, bindings, order, pending, made, ended>>
  PROVE  DInv'
<1>1. Tree' BY TreeStays DEF DInv
<1>2. Cache' /\ Chronicle' /\ Complete' BY DEF DInv, Cache, Chronicle, Complete
<1>3. Recorded' BY DEF DInv, Recorded, Tells
<1>4. Disposals' BY DEF DInv, Disposals, Ends
<1>. QED BY <1>1, <1>2, <1>3, <1>4 DEF DInv

\* A scope begins under a container that lives, and nobody's parent was unborn.
LEMMA ForkDisposals ==
  ASSUME IInv, DInv, NEW p \in Containers, NEW c \in Containers, Fork(p, c)
  PROVE  DInv'
<1>1. /\ Live(p) /\ state[c] = "unborn"
      /\ state' = [state EXCEPT ![c] = "live"] /\ parent' = [parent EXCEPT ![c] = p]
      /\ UNCHANGED <<bindings, order, pending, made, ended>>
  BY DEF Fork
<1>2. /\ state \in [Containers -> States] /\ made \in Seq(Values)
      /\ parent \in [Containers -> Containers \cup {NoOne}]
  BY DEF IInv, TypeOK
<1>3. /\ \A d \in Containers : state'[d] = IF d = c THEN "live" ELSE state[d]
      /\ \A d \in Containers : parent'[d] = IF d = c THEN p ELSE parent[d]
  BY <1>1, <1>2
<1>4. p # c BY <1>1 DEF Live
<1>5. Tree'
  <2>1. PICK depth \in [Containers -> Nat] : Deepens(depth) BY DEF DInv, Tree
  <2>. DEFINE below == [depth EXCEPT ![c] = depth[p] + 1]
  <2>2. below \in [Containers -> Nat] BY <2>1
  <2>3. \A d \in Containers : below[d] = IF d = c THEN depth[p] + 1 ELSE depth[d] BY <2>1
  <2>. HIDE DEF below
  <2>4. ASSUME NEW d \in Containers, parent'[d] # NoOne
        PROVE  below[parent'[d]] < below[d] /\ state'[parent'[d]] # "unborn"
    <3>1. CASE d = c BY <1>1, <1>3, <1>4, <2>1, <2>3, <3>1 DEF Live
    <3>2. CASE d # c
      <4>1. parent'[d] = parent[d] /\ parent[d] \in Containers /\ parent[d] # NoOne
        BY <1>2, <1>3, <2>4, <3>2
      <4>2. depth[parent[d]] < depth[d] /\ state[parent[d]] # "unborn"
        BY <2>1, <4>1 DEF DInv, Tree, Deepens
      <4>3. parent[d] # c BY <1>1, <4>2
      <4>. QED BY <1>3, <2>3, <3>2, <4>1, <4>2, <4>3
    <3>. QED BY <3>1, <3>2
  <2>5. Deepens(below)' BY <2>4 DEF Deepens
  <2>. QED BY <2>2, <2>4, <2>5 DEF Tree
<1>6. Cache' /\ Chronicle' BY <1>1 DEF DInv, Cache, Chronicle
<1>7. Recorded'
  <2>1. UNCHANGED <<bindings, order, made>> BY <1>1
  <2>. QED BY <2>1 DEF DInv, Recorded, Tells
<1>8. Disposals'
  <2>1. Grows BY <1>1, <1>2 DEF Grows
  <2>2. \A d \in Containers : pending[d] # <<>> => state[d] = "disposing"
    BY DEF DInv, Disposals
  <2>3. /\ \A d \in Containers : pending[d] # <<>> => state'[d] = "disposing"
        /\ \A d \in Containers : state[d] \in {"disposing", "disposed"} =>
                                 state'[d] \in {"disposing", "disposed"}
    BY <1>1, <1>3, <2>2
  <2>4. TypeOK /\ Disposals BY DEF IInv, DInv
  <2>. QED BY <1>1, <2>1, <2>3, <2>4, DisposalsStay
<1>9. Complete' BY <1>1, <1>3 DEF DInv, Complete
<1>. QED BY <1>5, <1>6, <1>7, <1>8, <1>9 DEF DInv

\* A scoped registration that is copied has nothing in its cache.
LEMMA InvokeDisposals ==
  ASSUME IInv, DInv, NEW c \in Containers, NEW n \in Names, Invoke(c, n)
  PROVE  DInv'
<1>. DEFINE h == HolderOf(n)[c]
            b == bindings[h][n]
            e == [b EXCEPT !.cached = 0]
            copies == b.kind = "scoped" /\ h # c
<1>1. /\ Live(c) /\ Found(c, h, n)
      /\ bindings' = IF copies THEN [bindings EXCEPT ![c][n] = e] ELSE bindings
      /\ state' = state /\ parent' = parent
      /\ UNCHANGED <<order, made, pending, ended>>
  BY DEF Invoke, MayAsk, tree
<1>. HIDE DEF h
<1>2. h \in Containers /\ made \in Seq(Values) BY <1>1 DEF Found, IInv, TypeOK
<1>3. b \in Bindings /\ Len(made) \in Nat BY <1>2, BindingFields
<1>4. e.kind = b.kind /\ e.cached = 0 BY <1>3, Emptied
<1>. HIDE DEF e
<1>5. \A d \in Containers, m \in Names :
        bindings'[d][m].cached # 0 => bindings'[d][m] = bindings[d][m]
  <2>1. bindings \in [Containers -> [Names -> Bindings]] BY DEF IInv, TypeOK
  <2>2. \A d \in Containers, m \in Names :
          bindings'[d][m] = IF copies /\ d = c /\ m = n THEN e ELSE bindings[d][m]
    BY <1>1, <2>1
  <2>. QED BY <1>4, <2>2
<1>6. Grows BY <1>1, <1>2 DEF Grows
<1>7. Tree' BY <1>1, TreeStays DEF DInv
<1>8. Cache'
  <2>. SUFFICES ASSUME NEW d \in Containers, NEW m \in Names, bindings'[d][m].cached # 0
       PROVE /\ made[bindings'[d][m].cached].kept
             /\ bindings'[d][m].kind = "value" => made[bindings'[d][m].cached].given
    BY <1>1 DEF Cache
  <2>1. bindings'[d][m] = bindings[d][m] BY <1>5
  <2>. QED BY <2>1 DEF DInv, Cache
<1>9. Chronicle' BY <1>1 DEF DInv, Chronicle
<1>10. Recorded'
  <2>1. ASSUME NEW d \in Containers
        PROVE  (\E t \in [1..Len(order[d]) -> 1..Len(made)] : Tells(d, t))'
    <3>1. \A m \in Names : bindings'[d][m].cached # 0 /\ bindings'[d][m].kind # "value" =>
            bindings[d][m].cached = bindings'[d][m].cached /\ bindings[d][m].kind # "value"
      BY <1>5
    <3>2. order'[d] = order[d] BY <1>1
    <3>3. \E t \in [1..Len(order[d]) -> 1..Len(made)] : Tells(d, t) BY DEF DInv, Recorded
    <3>. QED BY <1>6, <3>1, <3>2, <3>3, RecordedStays
  <2>. QED BY <2>1 DEF Recorded
<1>11. Disposals' BY <1>1, SMTT(20) DEF DInv, Disposals, Ends
<1>12. Complete'
  <2>. SUFFICES ASSUME NEW d \in Containers, NEW m \in Names,
                       state[d] = "disposing", bindings'[d][m].cached # 0,
                       bindings'[d][m].kind # "value"
       PROVE  \/ \E l \in 1..Len(ended) : ended[l] = bindings'[d][m].cached
              \/ \E l \in 1..Len(pending[d]) : pending[d][l] = bindings'[d][m].cached
    BY <1>1 DEF Complete
  <2>1. bindings'[d][m] = bindings[d][m] BY <1>5
  <2>. QED BY <2>1 DEF DInv, Complete
<1>. QED BY <1>7, <1>8, <1>9, <1>10, <1>11, <1>12 DEF DInv

\* A factory returns: its value is the latest of all, in the order too.
LEMMA ReturnDisposals ==
  ASSUME IInv, DInv, Return
  PROVE  DInv'
<1>. DEFINE f == Head(stack)
            k == Len(made)
            at == f.at
            n == f.name
<1>1. /\ stack # <<>> /\ ~f.given /\ made' = Append(made, f)
      /\ bindings' = IF f.kept THEN [bindings EXCEPT ![at][n].cached = k + 1] ELSE bindings
      /\ order' = IF f.kept THEN [order EXCEPT ![at] = Append(@, n)] ELSE order
      /\ state' = state /\ parent' = parent /\ pending' = pending /\ ended' = ended
  BY DEF Return, tree
<1>2. /\ stack \in Seq(Values) /\ made \in Seq(Values) /\ k \in Nat /\ registered \in Nat
      /\ bindings \in [Containers -> [Names -> Bindings]] /\ order \in [Containers -> Seq(Names)]
  BY DEF IInv, TypeOK
<1>3. f \in Values /\ f = stack[1] /\ 1 \in 1..Len(stack) BY <1>1, <1>2, Popped
<1>4. /\ at \in Containers /\ n \in Names /\ f.version \in Nat /\ f.uses \subseteq 0..k
  BY <1>2, <1>3, ValueFields DEF Ids
<1>5. /\ Live(at)
      /\ f.kept => bindings[at][n].version = f.version /\ bindings[at][n].cached = 0
  BY <1>1, <1>3 DEF IInv, Running
<1>6. /\ Len(made') = k + 1 /\ made'[k + 1] = f
      /\ \A i \in 1..k : i \in 1..Len(made') /\ made'[i] = made[i]
      /\ \A i \in 1..Len(made') : i # k + 1 => i \in 1..k
  BY <1>1, <1>2
<1>. HIDE DEF f
<1>7. Grows BY <1>2, <1>6 DEF Grows
<1>8. \A d \in Containers, m \in Names :
        /\ bindings'[d][m].kind = bindings[d][m].kind
        /\ bindings'[d][m].cached =
             IF f.kept /\ d = at /\ m = n THEN k + 1 ELSE bindings[d][m].cached
  <2>. DEFINE e == [bindings[at][n] EXCEPT !.cached = k + 1]
  <2>1. e.kind = bindings[at][n].kind /\ e.cached = k + 1
    <3>1. bindings[at][n] \in Bindings BY <1>2, <1>4
    <3>. QED BY <3>1 DEF Bindings
  <2>2. bindings' = IF f.kept THEN [bindings EXCEPT ![at][n] = e] ELSE bindings
    BY <1>1
  <2>. HIDE DEF e
  <2>3. \A d \in Containers, m \in Names :
          bindings'[d][m] = IF f.kept /\ d = at /\ m = n THEN e ELSE bindings[d][m]
    BY <1>2, <2>2
  <2>. QED BY <2>1, <2>3
<1>9. f.kept => bindings[at][n].kind # "value" BY <1>4, <1>5 DEF IInv, Registered, Live
<1>10. \A d \in Containers, m \in Names : bindings[d][m].cached \in 0..k BY BindingFields
<1>11. Tree' BY <1>1, TreeStays DEF DInv
<1>12. Cache'
  <2>. SUFFICES ASSUME NEW d \in Containers, NEW m \in Names, bindings'[d][m].cached # 0
       PROVE /\ made'[bindings'[d][m].cached].kept
             /\ bindings'[d][m].kind = "value" => made'[bindings'[d][m].cached].given
    BY DEF Cache
  <2>1. CASE f.kept /\ d = at /\ m = n BY <1>6, <1>8, <1>9, <2>1
  <2>2. CASE ~(f.kept /\ d = at /\ m = n)
    <3>1. bindings'[d][m].cached = bindings[d][m].cached /\ bindings[d][m].cached \in 1..k
      BY <1>8, <1>10, <2>2
    <3>. QED BY <1>6, <1>8, <3>1 DEF DInv, Cache
  <2>. QED BY <2>1, <2>2
<1>13. Chronicle'
  <2>1. ASSUME NEW i \in 1..Len(made'), NEW j \in 1..Len(made'), i < j,
               made'[i].kept, made'[j].kept,
               made'[i].at = made'[j].at, made'[i].name = made'[j].name
        PROVE  made'[i].version <= made'[j].version
    <3>1. CASE j # k + 1
      <4>1. j \in 1..k /\ i \in 1..k BY <1>2, <1>6, <2>1, <3>1
      <4>. QED BY <1>6, <2>1, <4>1 DEF DInv, Chronicle
    <3>2. CASE j = k + 1
      <4>1. i \in 1..k /\ made'[i] = made[i] BY <1>2, <1>6, <2>1, <3>2
      <4>2. made[i].version <= bindings[made[i].at][made[i].name].version
        BY <2>1, <4>1 DEF IInv, Remembered
      <4>3. made[i].at = at /\ made[i].name = n /\ f.kept BY <1>6, <2>1, <3>2, <4>1
      <4>4. made[i].version <= f.version BY <1>5, <4>2, <4>3
      <4>. QED BY <1>6, <3>2, <4>1, <4>4
    <3>. QED BY <3>1, <3>2
  <2>2. ASSUME NEW i \in 1..Len(made') PROVE made'[i].uses \subseteq 0..(i - 1)
    <3>1. CASE i # k + 1
      <4>1. i \in 1..k BY <1>6, <3>1
      <4>. QED BY <1>6, <4>1 DEF DInv, Chronicle
    <3>2. CASE i = k + 1
      <4>1. i - 1 = k BY <1>2, <3>2
      <4>. QED BY <1>4, <1>6, <3>2, <4>1
    <3>. QED BY <3>1, <3>2
  <2>. QED BY <2>1, <2>2 DEF Chronicle
<1>14. Recorded'
  <2>1. ASSUME NEW d \in Containers
        PROVE  (\E t \in [1..Len(order[d]) -> 1..Len(made)] : Tells(d, t))'
    <3>1. CASE ~(f.kept /\ d = at)
      <4>1. \A m \in Names : bindings'[d][m].cached # 0 /\ bindings'[d][m].kind # "value" =>
              bindings[d][m].cached = bindings'[d][m].cached /\ bindings[d][m].kind # "value"
        BY <1>8, <3>1
      <4>2. order'[d] = order[d] BY <1>1, <1>2, <3>1
      <4>3. \E t \in [1..Len(order[d]) -> 1..Len(made)] : Tells(d, t) BY DEF DInv, Recorded
      <4>. QED BY <1>7, <4>1, <4>2, <4>3, RecordedStays
    <3>2. CASE f.kept /\ d = at
      <4>. DEFINE z == Len(order[d])
      <4>1. PICK t \in [1..z -> 1..k] : Tells(d, t) BY DEF DInv, Recorded
      <4>2. order[d] \in Seq(Names) /\ z \in Nat BY <1>2
      <4>3. order'[d] = Append(order[d], n) BY <1>1, <1>2, <3>2
      <4>4. /\ Len(order'[d]) = z + 1 /\ order'[d][z + 1] = n
            /\ \A i \in 1..z : order'[d][i] = order[d][i]
        BY <1>4, <4>2, <4>3
      <4>5. \A i \in 1..z : t[i] \in 1..k BY <4>1
      <4>6. PICK u \in [1..(z + 1) -> 1..(k + 1)] :
              u[z + 1] = k + 1 /\ \A i \in 1..z : u[i] = t[i]
        <5>. DEFINE v == [i \in 1..(z + 1) |-> IF i = z + 1 THEN k + 1 ELSE t[i]]
        <5>1. v \in [1..(z + 1) -> 1..(k + 1)] BY <1>2, <4>2, <4>5
        <5>2. v[z + 1] = k + 1 /\ \A i \in 1..z : v[i] = t[i] BY <4>2
        <5>. QED BY <5>1, <5>2
      <4>7. u[z + 1] = k + 1 /\ \A i \in 1..z : u[i] = t[i] BY <4>6
      <4>. HIDE DEF z
      <4>8. ASSUME NEW i \in 1..(z + 1)
            PROVE  /\ u[i] \in 1..Len(made')
                   /\ made'[u[i]].at = d /\ made'[u[i]].name = order'[d][i] /\ made'[u[i]].kept
                   /\ \A l \in 1..(i - 1) : u[l] < u[i]
        <5>1. CASE i = z + 1
          <6>1. \A l \in 1..(i - 1) : l \in 1..z BY <4>2, <5>1
          <6>2. \A l \in 1..(i - 1) : u[l] < u[i] BY <1>2, <4>5, <4>7, <5>1, <6>1
          <6>3. u[i] = k + 1 /\ k + 1 \in 1..Len(made') BY <1>2, <1>6, <4>7, <5>1
          <6>. QED BY <1>6, <3>2, <4>4, <5>1, <6>2, <6>3
        <5>2. CASE i # z + 1
          <6>1. i \in 1..z /\ \A l \in 1..(i - 1) : l \in 1..z BY <4>2, <5>2
          <6>2. /\ made[t[i]].at = d /\ made[t[i]].name = order[d][i] /\ made[t[i]].kept
                /\ \A l \in 1..(i - 1) : t[l] < t[i]
            BY <4>1, <6>1 DEF Tells, z
          <6>3. t[i] \in 1..k /\ made'[t[i]] = made[t[i]] /\ t[i] \in 1..Len(made')
            BY <1>6, <4>5, <6>1
          <6>. QED BY <4>4, <4>7, <6>1, <6>2, <6>3
        <5>. QED BY <5>1, <5>2
      <4>9. ASSUME NEW m \in Names, bindings'[d][m].cached # 0, bindings'[d][m].kind # "value"
            PROVE  \E i \in 1..(z + 1) : u[i] = bindings'[d][m].cached
        <5>1. CASE m = n
          <6>1. bindings'[d][m].cached = k + 1 /\ z + 1 \in 1..(z + 1)
            BY <1>8, <3>2, <4>2, <5>1
          <6>. QED BY <4>7, <6>1
        <5>2. CASE m # n
          <6>1. /\ bindings[d][m].cached = bindings'[d][m].cached
                /\ bindings[d][m].cached # 0 /\ bindings[d][m].kind # "value"
            BY <1>8, <4>9, <5>2
          <6>2. PICK i \in 1..z : t[i] = bindings[d][m].cached BY <4>1, <6>1 DEF Tells, z
          <6>3. i \in 1..(z + 1) /\ u[i] = t[i] BY <4>2, <4>7
          <6>. QED BY <6>1, <6>2, <6>3
        <5>. QED BY <5>1, <5>2
      <4>10. Tells(d, u)' BY <4>4, <4>8, <4>9 DEF Tells
      <4>11. u \in [1..Len(order'[d]) -> 1..Len(made')] BY <1>6, <4>4, <4>6
      <4>. QED BY <4>10, <4>11
    <3>. QED BY <3>1, <3>2
  <2>. QED BY <2>1 DEF Recorded
<1>15. Disposals'
  <2>1. \A d \in Containers : pending[d] # <<>> => state[d] = "disposing"
    BY DEF DInv, Disposals
  <2>2. TypeOK /\ Disposals BY DEF IInv, DInv
  <2>. QED BY <1>1, <1>7, <2>1, <2>2, DisposalsStay
<1>16. Complete'
  <2>. SUFFICES ASSUME NEW d \in Containers, NEW m \in Names,
                       state[d] = "disposing", bindings'[d][m].cached # 0,
                       bindings'[d][m].kind # "value"
       PROVE  \/ \E l \in 1..Len(ended) : ended[l] = bindings'[d][m].cached
              \/ \E l \in 1..Len(pending[d]) : pending[d][l] = bindings'[d][m].cached
    BY <1>1 DEF Complete
  <2>1. d # at BY <1>5 DEF Live
  <2>2. bindings'[d][m].cached = bindings[d][m].cached /\ bindings'[d][m].kind = bindings[d][m].kind
    BY <1>8, <2>1
  <2>. QED BY <2>2 DEF DInv, Complete
<1>. QED BY <1>11, <1>12, <1>13, <1>14, <1>15, <1>16 DEF DInv

\* What stands last in the order under a name is what is cached under it, unless
\* that was registered later.
LEMMA LastIsCached ==
  ASSUME IInv, DInv, NEW c \in Containers, NEW t, Tells(c, t), NEW k \in 1..Len(order[c]),
         bindings[c][order[c][k]].cached # 0
  PROVE  /\ t[k] \in Nat /\ t[k] <= bindings[c][order[c][k]].cached
         /\ t[k] = bindings[c][order[c][k]].cached => Latest(order[c], k)
         /\ /\ Latest(order[c], k)
            /\ bindings[c][order[c][k]].kind # "value"
            => t[k] = bindings[c][order[c][k]].cached
<1>. DEFINE s == order[c]
            n == s[k]
            b == bindings[c][n]
            i == b.cached
<1>1. s \in Seq(Names) /\ n \in Names /\ Len(s) \in Nat BY DEF IInv, TypeOK
<1>2. i \in 1..Len(made) /\ Len(made) \in Nat BY <1>1, BindingFields
<1>3. made[i].at = c /\ made[i].name = n /\ made[i].version = b.version /\ made[i].kept
  BY <1>1 DEF IInv, DInv, Current, Cache
<1>4. \A l \in 1..Len(s) : /\ t[l] \in 1..Len(made)
                          /\ made[t[l]].at = c /\ made[t[l]].name = s[l] /\ made[t[l]].kept
                          /\ \A j \in 1..(l - 1) : t[j] < t[l]
  BY DEF Tells
<1>. HIDE DEF s, n, b, i
<1>5. ASSUME NEW l \in 1..Len(s), s[l] = n PROVE t[l] <= i
  <2>. SUFFICES ASSUME i < t[l] PROVE FALSE BY <1>2, <1>4
  <2>1. made[i].version <= made[t[l]].version
    BY <1>2, <1>3, <1>4, <1>5 DEF DInv, Chronicle
  <2>2. made[t[l]].version <= b.version BY <1>4, <1>5 DEF IInv, Remembered, b
  <2>3. made[i].version \in Nat /\ made[t[l]].version \in Nat BY <1>2, <1>4, MadeFields
  <2>4. made[i].version = made[t[l]].version BY <1>3, <2>1, <2>2, <2>3
  <2>5. i = t[l] BY <1>2, <1>3, <1>4, <1>5, <2>4 DEF IInv, OneValuePerScope
  <2>. QED BY <1>2, <2>5
<1>6. k \in 1..Len(s) /\ s[k] = n BY DEF s, n
<1>7. ASSUME NEW j \in 1..Len(s), t[j] = i PROVE Latest(s, j)
  <2>. SUFFICES ASSUME NEW l \in (j + 1)..Len(s), s[l] = s[j] PROVE FALSE BY DEF Latest
  <2>1. l \in 1..Len(s) /\ j \in 1..(l - 1) BY <1>1
  <2>2. s[j] = n BY <1>3, <1>4, <1>7
  <2>3. t[j] < t[l] /\ t[l] <= i BY <1>4, <1>5, <2>1, <2>2
  <2>. QED BY <1>2, <1>4, <1>7, <2>1, <2>3
<1>8. ASSUME Latest(s, k), b.kind # "value" PROVE t[k] = i
  <2>1. i # 0 BY <1>2
  <2>2. PICK j \in 1..Len(s) : t[j] = i BY <1>1, <1>8, <2>1 DEF Tells, s, b, i
  <2>3. s[j] = n BY <1>3, <1>4, <2>2
  <2>4. Latest(s, j) BY <1>7, <2>2
  <2>5. j = k
    <3>1. ~(j < k) BY <1>1, <1>6, <2>3, <2>4 DEF Latest
    <3>2. ~(k < j) BY <1>1, <1>6, <1>8, <2>3 DEF Latest
    <3>. QED BY <1>1, <3>1, <3>2
  <2>. QED BY <2>2, <2>5
<1>9. t[k] \in Nat BY <1>4, <1>6
<1>10. t[k] <= i BY <1>5, <1>6
<1>11. t[k] = i => Latest(s, k) BY <1>6, <1>7
<1>. QED BY <1>8, <1>9, <1>10, <1>11 DEF s, n, b, i

Queue(c) == LatestFirst(order[c], [n \in Names |-> bindings[c][n].cached])

\* What a disposal queues: everything a factory made, what was made last first.
LEMMA QueueIs ==
  ASSUME IInv, DInv, NEW c \in Containers
  PROVE  /\ Queue(c) \in Seq(1..Len(made))
         /\ \A k \in 1..Len(Queue(c)) :
              /\ made[Queue(c)[k]].at = c
              /\ \A l \in 1..(k - 1) : Ends(Queue(c)[l], Queue(c)[k])
         /\ \A n \in Names :
              bindings[c][n].cached # 0 /\ bindings[c][n].kind # "value" =>
                \E k \in 1..Len(Queue(c)) : Queue(c)[k] = bindings[c][n].cached
<1>. DEFINE q == Queue(c)
            cached == [n \in Names |-> bindings[c][n].cached]
            s == order[c]
<1>1. s \in Seq(Names) /\ Len(s) \in Nat /\ \A i \in 1..Len(s) : s[i] \in Names
  BY DEF IInv, TypeOK
<1>2. /\ cached \in [Names -> 0..Len(made)]
      /\ \A n \in Names : cached[n] = bindings[c][n].cached
  BY BindingFields
<1>3. q = LatestFirst(s, cached) BY DEF Queue
<1>4. PICK t : Tells(c, t) BY DEF DInv, Recorded
<1>. HIDE DEF cached, q
<1>5. q \in Seq((0..Len(made)) \ {0}) /\ Queues(q, Len(s), s, cached)
  <2>. DEFINE M == 0..Len(made)
  <2>. HIDE DEF s, M
  <2>1. cached \in [Names -> M] BY <1>2 DEF M
  <2>2. /\ LatestFirst(s, cached) \in Seq(M \ {0})
        /\ Queues(LatestFirst(s, cached), Len(s), s, cached)
    BY <1>1, <2>1, LatestFirstIs
  <2>. QED BY <1>3, <2>2, Zenon DEF M
<1>6. Len(made) \in Nat BY DEF IInv, TypeOK
<1>7. q \in Seq(1..Len(made)) /\ \A k \in 1..Len(q) : q[k] \in 1..Len(made)
  <2>1. (0..Len(made)) \ {0} = 1..Len(made) BY <1>6
  <2>. QED BY <1>5, <2>1
<1>8. ASSUME NEW i \in 1..Len(s), cached[s[i]] # 0
      PROVE  /\ made[cached[s[i]]].at = c /\ made[cached[s[i]]].name = s[i]
             /\ bindings[c][s[i]].kind = "value" => made[cached[s[i]]].given
             /\ t[i] \in Nat /\ t[i] <= cached[s[i]]
             /\ t[i] = cached[s[i]] => Latest(s, i)
             /\ Latest(s, i) /\ bindings[c][s[i]].kind # "value" => t[i] = cached[s[i]]
  <2>1. bindings[c][s[i]].cached # 0 /\ s[i] \in Names BY <1>1, <1>2, <1>8
  <2>2. /\ made[bindings[c][s[i]].cached].at = c /\ made[bindings[c][s[i]].cached].name = s[i]
        /\ bindings[c][s[i]].kind = "value" => made[bindings[c][s[i]].cached].given
    BY <2>1 DEF IInv, DInv, Current, Cache
  <2>3. /\ t[i] \in Nat /\ t[i] <= bindings[c][s[i]].cached
        /\ t[i] = bindings[c][s[i]].cached => Latest(s, i)
        /\ Latest(s, i) /\ bindings[c][s[i]].kind # "value" => t[i] = bindings[c][s[i]].cached
    BY <1>4, <2>1, LastIsCached
  <2>. QED BY <1>2, <2>1, <2>2, <2>3
<1>. HIDE DEF s
<1>9. ASSUME NEW k \in 1..Len(q) PROVE made[q[k]].at = c
  <2>1. PICK i \in 1..Len(s) : q[k] = cached[s[i]] BY <1>5 DEF Queues
  <2>2. q[k] # 0 BY <1>6, <1>7
  <2>. QED BY <1>8, <2>1, <2>2
<1>10. ASSUME NEW k \in 1..Len(q), NEW l \in 1..(k - 1) PROVE Ends(q[l], q[k])
  <2>1. PICK i \in 1..Len(s) : \E j \in 1..(i - 1) :
           /\ Latest(s, i) /\ q[l] = cached[s[i]]
           /\ Latest(s, j) /\ q[k] = cached[s[j]]
    BY <1>5 DEF Queues
  <2>2. PICK j \in 1..(i - 1) : /\ Latest(s, i) /\ q[l] = cached[s[i]]
                                /\ Latest(s, j) /\ q[k] = cached[s[j]]
    BY <2>1
  <2>3. /\ j \in 1..Len(s) /\ l \in 1..Len(q) /\ q[l] \in 1..Len(made) /\ q[k] \in 1..Len(made)
        /\ q[l] # 0 /\ q[k] # 0
    BY <1>1, <1>5, <1>6, <1>7
  <2>4. s[i] # s[j] BY <1>1, <2>2 DEF Latest
  <2>5. /\ made[q[l]].name = s[i] /\ t[i] \in Nat /\ t[i] <= q[l]
        /\ made[q[k]].name = s[j] /\ t[j] \in Nat
        /\ bindings[c][s[j]].kind = "value" => made[q[k]].given
        /\ bindings[c][s[j]].kind # "value" => t[j] = q[k]
    BY <1>8, <2>2, <2>3
  <2>6. q[l] # q[k] BY <2>4, <2>5
  <2>7. t[j] < t[i] BY <1>4, <2>2 DEF Tells, s
  <2>8. t[j] < q[l]
    <3>1. q[l] \in Nat BY <2>3
    <3>. QED BY <2>5, <2>7, <3>1
  <2>9. bindings[c][s[j]].kind # "value" => q[k] < q[l] BY <2>5, <2>8
  <2>. QED BY <2>5, <2>6, <2>9 DEF Ends
<1>11. ASSUME NEW n \in Names, bindings[c][n].cached # 0, bindings[c][n].kind # "value"
       PROVE  \E k \in 1..Len(q) : q[k] = bindings[c][n].cached
  <2>1. PICK i \in 1..Len(s) : t[i] = bindings[c][n].cached BY <1>4, <1>11 DEF Tells, s
  <2>2. made[t[i]].name = s[i] BY <1>4 DEF Tells, s
  <2>3. made[bindings[c][n].cached].name = n BY <1>11 DEF IInv, Current
  <2>4. s[i] = n BY <2>1, <2>2, <2>3
  <2>5. cached[s[i]] # 0 /\ t[i] = cached[s[i]] BY <1>2, <1>11, <2>1, <2>4
  <2>6. Latest(s, i) BY <1>8, <2>5
  <2>7. \E k \in 1..Len(q) : q[k] = cached[s[i]] BY <1>5, <2>5, <2>6 DEF Queues
  <2>. QED BY <1>2, <2>4, <2>7
<1>. QED BY <1>7, <1>9, <1>10, <1>11 DEF q

\* A disposal begins: what is queued is in the order in which it may end.
LEMMA DisposeDisposals ==
  ASSUME IInv, DInv, NEW c \in Containers, Dispose(c)
  PROVE  DInv'
<1>. DEFINE q == Queue(c)
<1>1. /\ Live(c) /\ state' = [state EXCEPT ![c] = "disposing"]
      /\ pending' = [pending EXCEPT ![c] = q]
      /\ parent' = parent /\ UNCHANGED <<bindings, order, made, ended>>
  BY DEF Dispose, Queue
<1>2. /\ state \in [Containers -> States] /\ made \in Seq(Values)
      /\ parent \in [Containers -> Containers \cup {NoOne}]
  BY DEF IInv, TypeOK
<1>3. /\ pending \in [Containers -> Seq(1..Len(made))] /\ ended \in Seq(1..Len(made))
  BY DEF DInv, Disposals
<1>4. /\ q \in Seq(1..Len(made))
      /\ \A k \in 1..Len(q) : made[q[k]].at = c /\ \A l \in 1..(k - 1) : Ends(q[l], q[k])
      /\ \A n \in Names :
           bindings[c][n].cached # 0 /\ bindings[c][n].kind # "value" =>
             \E k \in 1..Len(q) : q[k] = bindings[c][n].cached
  BY QueueIs
<1>. HIDE DEF q
<1>5. /\ \A d \in Containers : state'[d] = IF d = c THEN "disposing" ELSE state[d]
      /\ \A d \in Containers : pending'[d] = IF d = c THEN q ELSE pending[d]
  BY <1>1, <1>2, <1>3
<1>6. Tree'
  <2>1. \A d \in Containers : parent[d] # NoOne => state'[parent[d]] # "unborn"
    <3>. SUFFICES ASSUME NEW d \in Containers, parent[d] # NoOne
         PROVE state'[parent[d]] # "unborn"
      OBVIOUS
    <3>1. parent[d] \in Containers /\ state[parent[d]] # "unborn" BY <1>2 DEF DInv, Tree
    <3>. QED BY <1>5, <3>1
  <2>2. \A depth : Deepens(depth) => Deepens(depth)' BY <1>1 DEF Deepens
  <2>. QED BY <1>1, <2>1, <2>2 DEF DInv, Tree
<1>7. UNCHANGED <<bindings, order, made, ended>> BY <1>1
<1>8. Cache' /\ Chronicle' BY <1>7 DEF DInv, Cache, Chronicle
<1>9. Recorded' BY <1>7 DEF DInv, Recorded, Tells
<1>10. Disposals'
  <2>1. pending' \in [Containers -> Seq(1..Len(made'))] /\ ended' \in Seq(1..Len(made'))
    BY <1>1, <1>3, <1>4
  <2>3. \A k \in 1..Len(ended) :
          made[ended[k]].at # c /\ state[made[ended[k]].at] \in {"disposing", "disposed"}
    BY <1>1 DEF Live, DInv, Disposals
  <2>4. ASSUME NEW k \in 1..Len(ended)
        PROVE  /\ state'[made[ended[k]].at] \in {"disposing", "disposed"}
               /\ \A l \in 1..(k - 1) :
                    Ends(ended[l], ended[k]) \/ made[ended[l]].at # made[ended[k]].at
    <3>1. made[ended[k]].at \in Containers
      <4>1. ended[k] \in 1..Len(made) BY <1>3
      <4>. QED BY <4>1, MadeFields
    <3>2. \A l \in 1..(k - 1) : Ends(ended[l], ended[k]) \/ made[ended[l]].at # made[ended[k]].at
      BY DEF DInv, Disposals
    <3>. QED BY <1>5, <2>3, <3>1, <3>2
  <2>5. ASSUME NEW d \in Containers
        PROVE  /\ pending'[d] # <<>> => state'[d] = "disposing"
               /\ \A k \in 1..Len(pending'[d]) :
                    /\ made[pending'[d][k]].at = d
                    /\ \A l \in 1..(k - 1) : Ends(pending'[d][l], pending'[d][k])
                    /\ \A l \in 1..Len(ended) :
                         Ends(ended[l], pending'[d][k]) \/ made[ended[l]].at # d
    <3>1. CASE d = c
      <4>1. pending'[d] = q /\ state'[d] = "disposing" BY <1>5, <3>1
      <4>. QED BY <1>4, <2>3, <3>1, <4>1
    <3>2. CASE d # c
      <4>1. pending'[d] = pending[d] /\ state'[d] = state[d] BY <1>5, <3>2
      <4>2. /\ pending[d] # <<>> => state[d] = "disposing"
            /\ \A k \in 1..Len(pending[d]) :
                 /\ made[pending[d][k]].at = d
                 /\ \A l \in 1..(k - 1) : Ends(pending[d][l], pending[d][k])
                 /\ \A l \in 1..Len(ended) : Ends(ended[l], pending[d][k]) \/ made[ended[l]].at # d
        BY DEF DInv, Disposals
      <4>. QED BY <4>1, <4>2
    <3>. QED BY <3>1, <3>2
  <2>6. ASSUME NEW d \in Containers
        PROVE  (/\ pending[d] # <<>> => state[d] = "disposing"
                /\ \A k \in 1..Len(pending[d]) :
                     /\ made[pending[d][k]].at = d
                     /\ \A l \in 1..(k - 1) : Ends(pending[d][l], pending[d][k])
                     /\ \A l \in 1..Len(ended) :
                          Ends(ended[l], pending[d][k]) \/ made[ended[l]].at # d)'
    <3>1. pending'[d] # <<>> => state'[d] = "disposing" BY <2>5
    <3>2. ASSUME NEW k \in 1..Len(pending'[d])
          PROVE  /\ made'[pending'[d][k]].at = d
                 /\ \A l \in 1..(k - 1) : Ends(pending[d][l], pending[d][k])'
                 /\ \A l \in 1..Len(ended') :
                      Ends(ended[l], pending[d][k])' \/ made'[ended'[l]].at # d
      <4>1. made'[pending'[d][k]].at = d BY <1>7, <2>5
      <4>2. \A l \in 1..(k - 1) : Ends(pending'[d][l], pending'[d][k]) BY <2>5
      <4>3. \A l \in 1..Len(ended) : Ends(ended[l], pending'[d][k]) \/ made[ended[l]].at # d
        BY <2>5
      <4>. QED BY <1>7, <4>1, <4>2, <4>3 DEF Ends
    <3>. QED BY <3>1, <3>2
  <2>7. (\A k \in 1..Len(ended) :
           /\ state[made[ended[k]].at] \in {"disposing", "disposed"}
           /\ \A l \in 1..(k - 1) :
                Ends(ended[l], ended[k]) \/ made[ended[l]].at # made[ended[k]].at)'
    BY <1>7, <2>4 DEF Ends
  <2>. QED BY <2>1, <2>6, <2>7 DEF Disposals
<1>11. Complete'
  <2>. SUFFICES ASSUME NEW d \in Containers, NEW m \in Names,
                       state'[d] = "disposing", bindings[d][m].cached # 0,
                       bindings[d][m].kind # "value"
       PROVE  \/ \E l \in 1..Len(ended) : ended[l] = bindings[d][m].cached
              \/ \E l \in 1..Len(pending'[d]) : pending'[d][l] = bindings[d][m].cached
    BY <1>7 DEF Complete
  <2>1. CASE d = c
    <3>1. pending'[d] = q BY <1>5, <2>1
    <3>. QED BY <1>4, <2>1, <3>1
  <2>2. CASE d # c
    <3>1. pending'[d] = pending[d] /\ state[d] = "disposing" BY <1>5, <2>2
    <3>. QED BY <3>1 DEF DInv, Complete
  <2>. QED BY <2>1, <2>2
<1>. QED BY <1>6, <1>8, <1>9, <1>10, <1>11 DEF DInv

\* A disposer is called: the first one that waits is the latest one that ended.
LEMMA CallDisposerDisposals ==
  ASSUME IInv, DInv, NEW c \in Containers, CallDisposer(c)
  PROVE  DInv'
<1>. DEFINE q == pending[c]
            x == Head(q)
            z == Len(ended)
<1>1. /\ q # <<>> /\ ended' = Append(ended, x) /\ pending' = [pending EXCEPT ![c] = Tail(q)]
      /\ state' = state /\ parent' = parent /\ UNCHANGED <<bindings, order, made>>
  BY DEF CallDisposer, tree
<1>2. /\ pending \in [Containers -> Seq(1..Len(made))] /\ ended \in Seq(1..Len(made))
      /\ q \in Seq(1..Len(made)) /\ z \in Nat
  BY DEF DInv, Disposals
<1>3. /\ x \in 1..Len(made) /\ x = q[1] /\ 1 \in 1..Len(q)
      /\ Tail(q) \in Seq(1..Len(made)) /\ Len(Tail(q)) = Len(q) - 1 /\ Len(q) \in Nat
      /\ \A i \in 1..Len(q) - 1 : i + 1 \in 1..Len(q) /\ Tail(q)[i] = q[i + 1]
  BY <1>1, <1>2, Popped
<1>4. /\ Len(ended') = z + 1 /\ ended'[z + 1] = x
      /\ \A i \in 1..z : ended'[i] = ended[i]
      /\ \A i \in 1..(z + 1) : i # z + 1 => i \in 1..z
      /\ ended' \in Seq(1..Len(made))
  BY <1>1, <1>2, <1>3
<1>5. \A d \in Containers : pending'[d] = IF d = c THEN Tail(q) ELSE pending[d]
  BY <1>1, <1>2
<1>6. /\ state[c] = "disposing" /\ made[x].at = c
      /\ \A k \in 1..Len(q) :
           /\ made[q[k]].at = c
           /\ \A l \in 1..(k - 1) : Ends(q[l], q[k])
           /\ \A l \in 1..z : Ends(ended[l], q[k]) \/ made[ended[l]].at # c
  <2>1. /\ q # <<>> => state[c] = "disposing"
        /\ \A k \in 1..Len(q) :
             /\ made[q[k]].at = c
             /\ \A l \in 1..(k - 1) : Ends(q[l], q[k])
             /\ \A l \in 1..z : Ends(ended[l], q[k]) \/ made[ended[l]].at # c
    BY DEF DInv, Disposals
  <2>2. made[x].at = c BY <1>3, <2>1
  <2>. QED BY <1>1, <2>1, <2>2
<1>. HIDE DEF x
<1>7. Tree' BY <1>1, TreeStays DEF DInv
<1>8. Cache' /\ Chronicle' BY <1>1 DEF DInv, Cache, Chronicle
<1>9. UNCHANGED <<bindings, order, made>> BY <1>1
<1>10. Recorded' BY <1>9 DEF DInv, Recorded, Tells
<1>12. Disposals'
  <2>1. pending' \in [Containers -> Seq(1..Len(made'))] /\ ended' \in Seq(1..Len(made'))
    BY <1>1, <1>2, <1>3, <1>4
  <2>2. ASSUME NEW k \in 1..(z + 1)
        PROVE  /\ state[made[ended'[k]].at] \in {"disposing", "disposed"}
               /\ \A l \in 1..(k - 1) :
                    Ends(ended'[l], ended'[k]) \/ made[ended'[l]].at # made[ended'[k]].at
    <3>1. \A l \in 1..(k - 1) : l \in 1..z /\ ended'[l] = ended[l] BY <1>2, <1>4
    <3>2. CASE k = z + 1
      <4>1. ended'[k] = x BY <1>4, <3>2
      <4>2. \A l \in 1..(k - 1) : Ends(ended[l], x) \/ made[ended[l]].at # c
        BY <1>3, <1>6, <3>1
      <4>. QED BY <1>6, <3>1, <4>1, <4>2
    <3>3. CASE k # z + 1
      <4>1. k \in 1..z /\ ended'[k] = ended[k] BY <1>4, <3>3
      <4>2. /\ state[made[ended[k]].at] \in {"disposing", "disposed"}
            /\ \A l \in 1..(k - 1) : Ends(ended[l], ended[k]) \/ made[ended[l]].at # made[ended[k]].at
        BY <4>1 DEF DInv, Disposals
      <4>. QED BY <3>1, <4>1, <4>2
    <3>. QED BY <3>2, <3>3
  <2>3. ASSUME NEW d \in Containers
        PROVE  /\ pending'[d] # <<>> => state[d] = "disposing"
               /\ \A k \in 1..Len(pending'[d]) :
                    /\ made[pending'[d][k]].at = d
                    /\ \A l \in 1..(k - 1) : Ends(pending'[d][l], pending'[d][k])
                    /\ \A l \in 1..(z + 1) :
                         Ends(ended'[l], pending'[d][k]) \/ made[ended'[l]].at # d
    <3>1. CASE d = c
      <4>1. pending'[d] = Tail(q) BY <1>5, <3>1
      <4>2. ASSUME NEW k \in 1..Len(Tail(q))
            PROVE  /\ made[Tail(q)[k]].at = c
                   /\ \A l \in 1..(k - 1) : Ends(Tail(q)[l], Tail(q)[k])
                   /\ \A l \in 1..(z + 1) : Ends(ended'[l], Tail(q)[k]) \/ made[ended'[l]].at # c
        <5>1. k + 1 \in 1..Len(q) /\ Tail(q)[k] = q[k + 1] BY <1>3
        <5>2. ASSUME NEW l \in 1..(k - 1) PROVE Ends(Tail(q)[l], Tail(q)[k])
          <6>1. l + 1 \in 1..((k + 1) - 1) /\ l \in 1..Len(q) - 1 BY <1>3
          <6>2. Tail(q)[l] = q[l + 1] BY <1>3, <6>1
          <6>. QED BY <1>6, <5>1, <6>1, <6>2
        <5>3. ASSUME NEW l \in 1..(z + 1)
              PROVE  Ends(ended'[l], Tail(q)[k]) \/ made[ended'[l]].at # c
          <6>1. CASE l = z + 1
            <7>1. 1 \in 1..((k + 1) - 1) OBVIOUS
            <7>2. Ends(q[1], q[k + 1]) BY <1>6, <5>1, <7>1
            <7>. QED BY <1>3, <1>4, <5>1, <6>1, <7>2
          <6>2. CASE l # z + 1 BY <1>4, <1>6, <5>1, <6>2
          <6>. QED BY <6>1, <6>2
        <5>. QED BY <1>6, <5>1, <5>2, <5>3
      <4>3. pending'[d] # <<>> => state[d] = "disposing" BY <1>6, <3>1
      <4>. DEFINE t == Tail(q)
      <4>. HIDE DEF t
      <4>4. /\ pending'[d] = t
            /\ \A k \in 1..Len(t) : /\ made[t[k]].at = c
                                    /\ \A l \in 1..(k - 1) : Ends(t[l], t[k])
                                    /\ \A l \in 1..(z + 1) :
                                         Ends(ended'[l], t[k]) \/ made[ended'[l]].at # c
        BY <4>1, <4>2 DEF t
      <4>. QED BY <3>1, <4>3, <4>4
    <3>2. CASE d # c
      <4>1. pending'[d] = pending[d] BY <1>5, <3>2
      <4>2. /\ pending[d] # <<>> => state[d] = "disposing"
            /\ \A k \in 1..Len(pending[d]) :
                 /\ made[pending[d][k]].at = d
                 /\ \A l \in 1..(k - 1) : Ends(pending[d][l], pending[d][k])
                 /\ \A l \in 1..z : Ends(ended[l], pending[d][k]) \/ made[ended[l]].at # d
        BY DEF DInv, Disposals
      <4>3. \A k \in 1..Len(pending[d]) : \A l \in 1..(z + 1) :
              Ends(ended'[l], pending[d][k]) \/ made[ended'[l]].at # d
        BY <1>4, <1>6, <3>2, <4>2
      <4>. QED BY <4>1, <4>2, <4>3
    <3>. QED BY <3>1, <3>2
  <2>4. \A k \in 1..Len(ended') :
          /\ state'[made'[ended'[k]].at] \in {"disposing", "disposed"}
          /\ \A l \in 1..(k - 1) :
               Ends(ended[l], ended[k])' \/ made'[ended'[l]].at # made'[ended'[k]].at
    BY <1>1, <1>4, <2>2 DEF Ends
  <2>5. \A d \in Containers :
          /\ pending'[d] # <<>> => state'[d] = "disposing"
          /\ \A k \in 1..Len(pending'[d]) :
               /\ made'[pending'[d][k]].at = d
               /\ \A l \in 1..(k - 1) : Ends(pending[d][l], pending[d][k])'
               /\ \A l \in 1..Len(ended') :
                    Ends(ended[l], pending[d][k])' \/ made'[ended'[l]].at # d
    <3>1. made' = made /\ state' = state /\ Len(ended') = z + 1 BY <1>1, <1>4
    <3>. SUFFICES ASSUME NEW d \in Containers
         PROVE  /\ pending'[d] # <<>> => state'[d] = "disposing"
                /\ \A k \in 1..Len(pending'[d]) :
                     /\ made'[pending'[d][k]].at = d
                     /\ \A l \in 1..(k - 1) : Ends(pending[d][l], pending[d][k])'
                     /\ \A l \in 1..Len(ended') :
                          Ends(ended[l], pending[d][k])' \/ made'[ended'[l]].at # d
      OBVIOUS
    <3>. HIDE DEF z
    <3>. QED BY <2>3, <3>1 DEF Ends
  <2>. QED BY <2>1, <2>4, <2>5 DEF Disposals
<1>13. Complete'
  <2>. SUFFICES ASSUME NEW d \in Containers, NEW m \in Names,
                       state[d] = "disposing", bindings[d][m].cached # 0,
                       bindings[d][m].kind # "value"
       PROVE  \/ \E l \in 1..Len(ended') : ended'[l] = bindings[d][m].cached
              \/ \E l \in 1..Len(pending'[d]) : pending'[d][l] = bindings[d][m].cached
    BY <1>1, SMTT(20) DEF Complete
  <2>. DEFINE v == bindings[d][m].cached
  <2>1. \/ \E l \in 1..z : ended[l] = v
        \/ \E l \in 1..Len(pending[d]) : pending[d][l] = v
    BY DEF DInv, Complete
  <2>. HIDE DEF v
  <2>2. CASE \E l \in 1..z : ended[l] = v
    <3>1. PICK l \in 1..z : ended[l] = v BY <2>2
    <3>2. l \in 1..Len(ended') /\ ended'[l] = v BY <1>2, <1>4, <3>1
    <3>. QED BY <3>2 DEF v
  <2>3. CASE \E l \in 1..Len(pending[d]) : pending[d][l] = v
    <3>1. PICK l \in 1..Len(pending[d]) : pending[d][l] = v BY <2>3
    <3>2. CASE d # c BY <1>5, <3>1, <3>2 DEF v
    <3>3. CASE d = c /\ l = 1
      <4>1. z + 1 \in 1..Len(ended') /\ ended'[z + 1] = v BY <1>2, <1>3, <1>4, <3>1, <3>3
      <4>. QED BY <4>1 DEF v
    <3>4. CASE d = c /\ l # 1
      <4>1. l - 1 \in 1..Len(q) - 1 /\ (l - 1) + 1 = l BY <1>3, <3>4
      <4>2. l - 1 \in 1..Len(Tail(q)) /\ Tail(q)[l - 1] = v BY <1>3, <3>1, <3>4, <4>1
      <4>. QED BY <1>5, <3>4, <4>2 DEF v
    <3>. QED BY <3>2, <3>3, <3>4
  <2>. QED BY <2>1, <2>2, <2>3
<1>. QED BY <1>7, <1>8, <1>10, <1>12, <1>13 DEF DInv

\* A disposal ends, and nothing is cached in the container any more.
LEMMA FinishDisposals ==
  ASSUME IInv, DInv, NEW c \in Containers, FinishDisposal(c)
  PROVE  DInv'
<1>1. /\ state[c] = "disposing" /\ pending[c] = <<>>
      /\ state' = [state EXCEPT ![c] = "disposed"] /\ parent' = [parent EXCEPT ![c] = NoOne]
      /\ bindings' = [bindings EXCEPT ![c] = [n \in Names |-> [@[n] EXCEPT !.cached = 0]]]
      /\ UNCHANGED <<order, made, pending, ended>>
  BY DEF FinishDisposal
<1>2. /\ state \in [Containers -> States] /\ made \in Seq(Values)
      /\ parent \in [Containers -> Containers \cup {NoOne}]
      /\ bindings \in [Containers -> [Names -> Bindings]]
  BY DEF IInv, TypeOK
<1>3. /\ \A d \in Containers : state'[d] = IF d = c THEN "disposed" ELSE state[d]
      /\ \A d \in Containers : parent'[d] = IF d = c THEN NoOne ELSE parent[d]
  BY <1>1, <1>2
<1>4. \A d \in Containers, m \in Names :
        bindings'[d][m].cached # 0 => d # c /\ bindings'[d][m] = bindings[d][m]
  <2>1. \A d \in Containers, m \in Names :
          bindings'[d][m] = IF d = c THEN [bindings[c][m] EXCEPT !.cached = 0] ELSE bindings[d][m]
    BY <1>1, <1>2
  <2>2. \A m \in Names : [bindings[c][m] EXCEPT !.cached = 0].cached = 0
    <3>. SUFFICES ASSUME NEW m \in Names PROVE [bindings[c][m] EXCEPT !.cached = 0].cached = 0
      OBVIOUS
    <3>1. bindings[c][m] \in Bindings BY <1>2
    <3>. QED BY <3>1 DEF Bindings
  <2>. QED BY <2>1, <2>2
<1>5. Tree'
  <2>1. PICK depth \in [Containers -> Nat] : Deepens(depth) BY DEF DInv, Tree
  <2>2. ASSUME NEW d \in Containers, parent'[d] # NoOne
        PROVE  depth[parent'[d]] < depth[d] /\ state'[parent'[d]] # "unborn"
    <3>1. parent'[d] = parent[d] /\ parent[d] # NoOne /\ parent[d] \in Containers
      BY <1>2, <1>3, <2>2
    <3>2. depth[parent[d]] < depth[d] /\ state[parent[d]] # "unborn"
      BY <2>1, <3>1 DEF DInv, Tree, Deepens
    <3>. QED BY <1>3, <3>1, <3>2
  <2>3. Deepens(depth)' BY <2>2 DEF Deepens
  <2>. QED BY <2>1, <2>2, <2>3 DEF Tree
<1>6. UNCHANGED <<order, made, pending, ended>> BY <1>1
<1>7. Cache'
  <2>. SUFFICES ASSUME NEW d \in Containers, NEW m \in Names, bindings'[d][m].cached # 0
       PROVE /\ made[bindings'[d][m].cached].kept
             /\ bindings'[d][m].kind = "value" => made[bindings'[d][m].cached].given
    BY <1>6 DEF Cache
  <2>1. bindings'[d][m] = bindings[d][m] BY <1>4
  <2>. QED BY <2>1 DEF DInv, Cache
<1>8. Chronicle' BY <1>6 DEF DInv, Chronicle
<1>9. Grows BY <1>2, <1>6 DEF Grows
<1>10. Recorded'
  <2>1. ASSUME NEW d \in Containers
        PROVE  (\E t \in [1..Len(order[d]) -> 1..Len(made)] : Tells(d, t))'
    <3>1. \A m \in Names : bindings'[d][m].cached # 0 /\ bindings'[d][m].kind # "value" =>
            bindings[d][m].cached = bindings'[d][m].cached /\ bindings[d][m].kind # "value"
      BY <1>4
    <3>2. order'[d] = order[d] BY <1>6
    <3>3. \E t \in [1..Len(order[d]) -> 1..Len(made)] : Tells(d, t) BY DEF DInv, Recorded
    <3>. QED BY <1>9, <3>1, <3>2, <3>3, RecordedStays
  <2>. QED BY <2>1 DEF Recorded
<1>11. Disposals'
  <2>1. \A d \in Containers : pending[d] # <<>> => state[d] = "disposing"
    BY DEF DInv, Disposals
  <2>2. /\ \A d \in Containers : pending[d] # <<>> => state'[d] = "disposing"
        /\ \A d \in Containers : state[d] \in {"disposing", "disposed"} =>
                                 state'[d] \in {"disposing", "disposed"}
    BY <1>1, <1>3, <2>1
  <2>3. TypeOK /\ Disposals BY DEF IInv, DInv
  <2>. QED BY <1>6, <1>9, <2>2, <2>3, DisposalsStay
<1>12. Complete'
  <2>. SUFFICES ASSUME NEW d \in Containers, NEW m \in Names,
                       state'[d] = "disposing", bindings'[d][m].cached # 0,
                       bindings'[d][m].kind # "value"
       PROVE  \/ \E l \in 1..Len(ended) : ended[l] = bindings'[d][m].cached
              \/ \E l \in 1..Len(pending[d]) : pending[d][l] = bindings'[d][m].cached
    BY <1>6 DEF Complete
  <2>1. d # c /\ bindings'[d][m] = bindings[d][m] BY <1>4
  <2>. QED BY <1>3, <2>1 DEF DInv, Complete
<1>. QED BY <1>5, <1>7, <1>8, <1>10, <1>11, <1>12 DEF DInv

\* Every step keeps it.
LEMMA StepDisposals == IInv /\ DInv /\ [Next]_vars => DInv'
<1>. SUFFICES ASSUME IInv, DInv, [Next]_vars PROVE DInv' OBVIOUS
<1>1. ASSUME NEW c \in Containers, NEW n \in Names, Invoke(c, n) PROVE DInv'
  BY <1>1, InvokeDisposals
<1>2. ASSUME NEW c \in Containers, NEW n \in Names, NEW kind \in Kinds, Set(c, n, kind)
      PROVE DInv'
  BY <1>2, SetDisposals
<1>10. CASE Give BY <1>10, GiveDisposals
<1>3. ASSUME NEW c \in Containers, NEW p \in Containers, Fork(p, c) PROVE DInv'
  BY <1>3, ForkDisposals
<1>4. ASSUME NEW c \in Containers, Freeze(c) PROVE DInv'
  <2>1. UNCHANGED <<state, parent, bindings, order, pending, made, ended>> BY <1>4 DEF Freeze
  <2>. QED BY <2>1, QuietDisposals
<1>5. ASSUME NEW c \in Containers, Dispose(c) PROVE DInv' BY <1>5, DisposeDisposals
<1>6. ASSUME NEW c \in Containers, CallDisposer(c) PROVE DInv' BY <1>6, CallDisposerDisposals
<1>7. ASSUME NEW c \in Containers, FinishDisposal(c) PROVE DInv' BY <1>7, FinishDisposals
<1>8. CASE \/ \E n \in Names : Reuse(n) \/ \E c \in Containers : SetValue(c, n)
           \/ Throw \/ UNCHANGED vars
  <2>1. UNCHANGED <<state, parent, bindings, order, pending, made, ended>>
    BY <1>8 DEF Reuse, SetValue, Throw, vars, tree
  <2>. QED BY <2>1, QuietDisposals
<1>9. CASE Return BY <1>9, ReturnDisposals
<1>. QED BY <1>1, <1>2, <1>3, <1>4, <1>5, <1>6, <1>7, <1>8, <1>9, <1>10 DEF Next

\* What disposal rests on holds of every tree of containers.
THEOREM DisposalInductive == Spec => [](IInv /\ DInv)
<1>1. Init => IInv /\ DInv BY InitHolds, InitDisposals
<1>2. IInv /\ DInv /\ [Next]_vars => (IInv /\ DInv)' BY StepKeeps, StepDisposals
<1>. QED BY <1>1, <1>2, PTL DEF Spec

\* The invariants say what the runs check of disposals.
LEMMA DisposalImplies ==
  IInv /\ DInv => DependentsEndFirst /\ DisposalIsComplete /\ NothingEndedIsServed
<1>. SUFFICES ASSUME IInv, DInv
     PROVE DependentsEndFirst /\ DisposalIsComplete /\ NothingEndedIsServed
  OBVIOUS
<1>1. /\ pending \in [Containers -> Seq(1..Len(made))] /\ ended \in Seq(1..Len(made))
      /\ \A k \in 1..Len(ended) : ended[k] \in 1..Len(made)
      /\ TypeOK /\ Tree /\ Chronicle /\ Len(made) \in Nat
  BY DEF DInv, Disposals, IInv, TypeOK
<1>2. DependentsEndFirst
  <2>. SUFFICES ASSUME NEW j \in 1..Len(ended), NEW i \in 1..(j - 1)
       PROVE /\ ended[i] # ended[j]
             /\ made[ended[i]].at = made[ended[j]].at /\ ~made[ended[j]].given =>
                  ended[i] \notin Needs[ended[j]]
    BY DEF DependentsEndFirst
  <2>1. Ends(ended[i], ended[j]) \/ made[ended[i]].at # made[ended[j]].at
    BY DEF DInv, Disposals
  <2>2. ended[j] \in 1..Len(made) BY <1>1
  <2>3. Needs[ended[j]] \subseteq 0..(ended[j] - 1) BY <1>1, <2>2, NeedsBefore
  <2>4. i \in 1..Len(ended) /\ ended[i] \in 1..Len(made) BY <1>1
  <2>. QED BY <1>1, <2>1, <2>2, <2>3, <2>4 DEF Ends
<1>3. DisposalIsComplete BY <1>1 DEF DisposalIsComplete, DInv, Complete, Contains
<1>4. NothingEndedIsServed
  <2>. SUFFICES ASSUME NEW c \in Containers, NEW n \in Names, Live(c), HolderOf(n)[c] # NoOne
       PROVE /\ Found(c, HolderOf(n)[c], n)
             /\ ~Contains(ended, bindings[HolderOf(n)[c]][n].cached)
    BY DEF NothingEndedIsServed
  <2>. DEFINE h == HolderOf(n)[c]
  <2>1. Found(c, h, n) BY <1>1, HolderIsLive
  <2>. HIDE DEF h
  <2>2. h \in Containers /\ Live(h) BY <2>1 DEF Found
  <2>3. ASSUME NEW k \in 1..Len(ended), ended[k] = bindings[h][n].cached PROVE FALSE
    <3>1. bindings[h][n].cached # 0 BY <1>1, <2>3
    <3>2. made[ended[k]].at = h BY <2>2, <2>3, <3>1 DEF IInv, Current
    <3>. QED BY <2>2, <3>2 DEF Live, DInv, Disposals
  <2>4. ~Contains(ended, bindings[h][n].cached) BY <2>3 DEF Contains
  <2>. QED BY <2>1, <2>4 DEF h
<1>. QED BY <1>2, <1>3, <1>4

\* A container calls the disposer of a value once, and of one that was resolved
\* before those of what it was made from, values given to set() included.
THEOREM DependentsFirst == Spec => []DependentsEndFirst
BY DisposalInductive, DisposalImplies, PTL

\* A disposal forgets nothing that a factory made and that is still cached.
THEOREM CompleteDisposal == Spec => []DisposalIsComplete
BY DisposalInductive, DisposalImplies, PTL

\* No scope is served a value whose disposer has been called.
THEOREM NothingEnded == Spec => []NothingEndedIsServed
BY DisposalInductive, DisposalImplies, PTL
=============================================================================
