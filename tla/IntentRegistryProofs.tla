------------------------ MODULE IntentRegistryProofs ------------------------
(***************************************************************************)
(* Proofs about IntentRegistry, for any definitions, any hooks and any     *)
(* number of calls.  A place in the registry stays with its five fields,   *)
(* whatever is registered while a call is under way, so what a call has    *)
(* seen, ranked and launched goes on to mean the same intents.             *)
(***************************************************************************)
EXTENDS IntentRegistry, FiniteSetTheorems, SequenceTheorems, WellFoundedInduction, TLAPS

\* An intent has all its fields.
Intents ==
  [action : Names, mimeType : Names, scope : Names, kernel : Names, vendor : Names,
   priority : Nat, mode : Modes]
CallRecords ==
  [op : Methods \cup {"none"}, query : Queries \cup {Undefined}, stage : Stages,
   seen : Seq(Nat), ranks : Seq(Nat), left : Seq(Nat), launched : Seq(Nat), chosen : Nat]

Typed ==
  /\ intents \in Seq(Intents) /\ given \subseteq Definitions /\ changes \in 0..MaxChanges
  /\ call \in [Calls -> CallRecords]

\* What a call holds are places among the first n.
Within(s, n) == \A i \in 1..Len(s) : s[i] \in 1..n
Placed(c, n) == Within(c.seen, n) /\ Within(c.left, n) /\ Within(c.launched, n)

\* The places a call has seen are in the order of the registry.
Increasing(s) == \A i, j \in 1..Len(s) : i < j => s[i] < s[j]

\* The other places whose ranks equal or outrank that of the n-th.
Above(ranks, n) == {m \in DOMAIN ranks : m # n /\ ranks[m] >= ranks[n]}

\* Which of the intents it saw an invoke() may launch.
Deserves(c, i) ==
  \E n \in 1..Len(c.seen) :
    /\ c.seen[n] = i
    /\ \/ Above(c.ranks, n) = {}
       \/ c.chosen = i /\ \A m \in 1..Len(c.seen) : Above(c.ranks, m) # {}

\* What a call has come to, by its stage.
Early == {"idle", "resolving", "matching", "matched", "choosing"}
Progress(c) ==
  /\ c.stage \in Early => c.left = <<>> /\ c.launched = <<>>
  /\ c.stage = "choosing" =>
       /\ c.op # "invokeAll"
       /\ \A m \in 1..Len(c.seen) : Above(c.ranks, m) # {}
  /\ c.stage = "launching" => c.left # <<>>
  /\ c.stage = "matched" => c.op \in {"invoke", "invokeAll"} /\ c.seen # <<>>
  /\ c.op = "invoke" =>
       \A i \in 1..Len(c.left) : Deserves(c, c.left[i])
  /\ c.op = "invoke" =>
       \A i \in 1..Len(c.launched) : Deserves(c, c.launched[i])
  /\ c.op = "invokeAll" =>
       /\ c.stage \in {"launching", "fulfilled"} => c.launched \o c.left = c.seen
       /\ c.stage = "fulfilled" => c.left = <<>>
       /\ IsPrefix(c.launched, c.seen)

\* A call is well on its way in a registry of n intents.
Sound(c, n) == Placed(c, n) /\ Increasing(c.seen) /\ Progress(c)

\* Each intent is of a definition that was taken, and for each of them there is
\* one intent of its key.
Kept(xs, ds) ==
  /\ \A i, j \in 1..Len(xs) : Identity(xs[i]) = Identity(xs[j]) => i = j
  /\ \A i \in 1..Len(xs) : \E d \in ds : SameFields(xs[i], d)
  /\ \A d \in ds : \E i \in 1..Len(xs) : Identity(xs[i]) = Identity(d)

IInv ==
  /\ Typed
  /\ Kept(intents, given)
  /\ \A k \in Calls : Sound(call[k], Len(intents))
-----------------------------------------------------------------------------
(* Lemmas on numbers and sequences. *)

\* A set of natural numbers has a least one.
LEMMA LeastNat ==
  ASSUME NEW T, T \subseteq Nat, T # {}
  PROVE  \E x \in T : \A y \in T : x <= y
<1> DEFINE R == {p \in Nat \X Nat : p[1] < p[2]}
<1>1. IsWellFoundedOn(R, Nat)
  BY NatLessThanWellFounded, Zenon DEF OpToRel
<1>2. PICK x \in T : \A y \in T : ~ (<<y, x>> \in R)
  BY <1>1, WFMin
<1>3. \A y \in T : x \in Nat /\ y \in Nat /\ ~(y < x)
  BY <1>2
<1> QED
  BY <1>3

\* Min is the least one.
LEMMA MinIsLeast ==
  ASSUME NEW T, T \subseteq Nat, T # {}
  PROVE  Min(T) \in T /\ \A y \in T : Min(T) <= y
<1>1. \E x \in T : \A y \in T : x <= y
  BY LeastNat
<1> QED
  BY <1>1 DEF Min

\* Induction up to a bound.
LEMMA BoundedInduction ==
  ASSUME NEW m \in Nat, NEW P, 0 \in P, \A n \in 1..m : n - 1 \in P => n \in P
  PROVE  \A n \in 0..m : n \in P
<1> DEFINE T == {n \in 0..m : n \notin P}
<1> SUFFICES ASSUME T # {} PROVE FALSE
  OBVIOUS
<1>1. T \subseteq Nat
  OBVIOUS
<1>2. PICK x \in T : \A y \in T : x <= y
  BY <1>1, LeastNat
<1>3. x \in 0..m /\ x \notin P /\ x # 0
  BY <1>2
<1>4. x \in 1..m /\ x - 1 \in 0..m /\ ~(x <= x - 1)
  BY <1>3
<1>5. x - 1 \in P
  BY <1>2, <1>4
<1> QED
  BY <1>3, <1>4, <1>5

\* f goes m steps from e.
Steps(f, m, e, step) == f[0] = e /\ \A i \in 1..m : f[i] = step[i][f[i - 1]]

\* Whatever the steps are, there is a function that goes them.
LEMMA StepsExist ==
  ASSUME NEW m \in Nat, NEW X, NEW e \in X, NEW step \in [1..m -> [X -> X]]
  PROVE  \E f \in [0..m -> X] : Steps(f, m, e, step)
<1> DEFINE Upto(n, f) == f \in [0..n -> X] /\ Steps(f, n, e, step)
           D == {n \in 0..m : \E f : Upto(n, f)}
<1>1. 0 \in D
  <2>1. Upto(0, [i \in 0..0 |-> e])
    BY DEF Steps
  <2> QED
    BY <2>1
<1>2. ASSUME NEW n \in 1..m, n - 1 \in D PROVE n \in D
  <2>1. PICK f : Upto(n - 1, f)
    BY <1>2
  <2>2. /\ f \in [0..(n - 1) -> X] /\ f[0] = e
        /\ \A i \in 1..(n - 1) : f[i] = step[i][f[i - 1]]
    BY <2>1 DEF Steps
  <2> DEFINE g == [i \in 0..n |-> IF i = n THEN step[n][f[n - 1]] ELSE f[i]]
  <2>3. \A i \in 0..(n - 1) : g[i] = f[i]
    OBVIOUS
  <2>4. g[n] = step[n][f[n - 1]]
    OBVIOUS
  <2>5. f[n - 1] \in X /\ step[n][f[n - 1]] \in X
    BY <2>2
  <2>6. g \in [0..n -> X]
    <3>1. \A i \in 0..n : i # n => i \in 0..(n - 1)
      OBVIOUS
    <3>2. ASSUME NEW i \in 0..n
          PROVE  (IF i = n THEN step[n][f[n - 1]] ELSE f[i]) \in X
      BY <2>2, <2>5, <3>1
    <3> QED
      BY <3>2
  <2> HIDE DEF g
  <2>7. ASSUME NEW i \in 1..n PROVE g[i] = step[i][g[i - 1]]
    <3>1. i - 1 \in 0..(n - 1) /\ (i # n => i \in 1..(n - 1) /\ i \in 0..(n - 1))
      OBVIOUS
    <3>2. g[i - 1] = f[i - 1]
      BY <2>3, <3>1
    <3>3. CASE i = n
      BY <2>4, <3>2, <3>3
    <3>4. CASE i # n
      BY <2>2, <2>3, <3>1, <3>2, <3>4
    <3> QED
      BY <3>3, <3>4
  <2>8. g[0] = e
    <3>1. 0 \in 0..(n - 1)
      OBVIOUS
    <3> QED
      BY <2>2, <2>3, <3>1
  <2>9. Upto(n, g)
    BY <2>6, <2>7, <2>8 DEF Steps
  <2> HIDE DEF Upto
  <2> QED
    BY <2>9
<1>3. m \in D
  <2> HIDE DEF D
  <2>1. \A n \in 0..m : n \in D
    BY <1>1, <1>2, BoundedInduction
  <2> QED
    BY <2>1
<1> QED
  BY <1>3

\* f counts up to n the numbers in S.
Counts(f, S, n) ==
  /\ f \in [0..n -> Seq(Nat)] /\ f[0] = <<>>
  /\ \A m \in 1..n : f[m] = IF m \in S THEN Append(f[m - 1], m) ELSE f[m - 1]

\* Counting goes a step for each number.
LEMMA CountingSteps ==
  ASSUME NEW S, NEW n \in Nat
  PROVE  \E f : Counts(f, S, n) /\ Counting(S, n) = f[n]
<1> DEFINE Next1(x, m) == IF m \in S THEN Append(x, m) ELSE x
           step == [m \in 1..n |-> [x \in Seq(Nat) |-> Next1(x, m)]]
           Body(f) == [m \in 0..n |->
                         IF m = 0 THEN <<>>
                         ELSE IF m \in S THEN Append(f[m - 1], m) ELSE f[m - 1]]
<1>1. step \in [1..n -> [Seq(Nat) -> Seq(Nat)]] /\ <<>> \in Seq(Nat)
  OBVIOUS
<1>2. \A x \in Seq(Nat), m \in 1..n : step[m][x] = Next1(x, m)
  OBVIOUS
<1>3. PICK f \in [0..n -> Seq(Nat)] : Steps(f, n, <<>>, step)
  <2> HIDE DEF step
  <2> QED
    BY <1>1, StepsExist
<1>4. f[0] = <<>> /\ \A m \in 1..n : f[m] = Next1(f[m - 1], m)
  <2>1. \A m \in 1..n : m - 1 \in 0..n
    OBVIOUS
  <2> HIDE DEF step, Next1
  <2> QED
    BY <1>2, <1>3, <2>1 DEF Steps
<1>5. f = Body(f)
  <2>1. \A m \in 0..n : m # 0 => m \in 1..n
    OBVIOUS
  <2>2. ASSUME NEW m \in 0..n
        PROVE  f[m] = (IF m = 0 THEN <<>>
                       ELSE IF m \in S THEN Append(f[m - 1], m) ELSE f[m - 1])
    BY <1>4, <2>1, <2>2
  <2>3. f = [m \in 0..n |-> f[m]]
    BY <1>3
  <2> QED
    BY <2>2, <2>3, Zenon
<1> DEFINE g == CHOOSE f1 : f1 = Body(f1)
<1>6. g = Body(g)
  BY <1>5
<1>7. Counting(S, n) = g[n]
  BY DEF Counting
<1> HIDE DEF g
<1>8. g[0] = <<>> /\ \A m \in 1..n : g[m] = Next1(g[m - 1], m)
  <2>1. \A m \in 0..n : g[m] = Body(g)[m]
    BY <1>6
  <2>2. 0 \in 0..n /\ \A m \in 1..n : m \in 0..n /\ m # 0
    OBVIOUS
  <2> QED
    BY <2>1, <2>2
<1> DEFINE P == {m \in 0..n : g[m] = f[m]}
<1>9. \A m \in 0..n : m \in P
  <2>1. 0 \in P
    BY <1>4, <1>8
  <2>2. ASSUME NEW m \in 1..n, m - 1 \in P PROVE m \in P
    <3>1. g[m - 1] = f[m - 1] /\ m \in 0..n
      BY <2>2
    <3>2. g[m] = Next1(g[m - 1], m) /\ f[m] = Next1(f[m - 1], m)
      BY <1>4, <1>8
    <3> HIDE DEF Next1
    <3>3. g[m] = f[m]
      BY <3>1, <3>2
    <3> QED
      BY <3>1, <3>3
  <2> HIDE DEF P
  <2> QED
    BY <2>1, <2>2, BoundedInduction
<1>10. Counting(S, n) = f[n]
  BY <1>7, <1>9
<1>11. Counts(f, S, n)
  BY <1>4 DEF Counts
<1> QED
  BY <1>10, <1>11

\* What is counted is in order, and in the set.
LEMMA CountingOrder ==
  ASSUME NEW S, NEW n \in Nat
  PROVE  \A s : s = Counting(S, n) =>
           s \in Seq(Nat) /\ Within(s, n) /\ Increasing(s) /\ ToSet(s) \subseteq S
<1>0. PICK f : Counts(f, S, n) /\ Counting(S, n) = f[n]
  BY CountingSteps, Zenon
<1>1. /\ f \in [0..n -> Seq(Nat)] /\ f[0] = <<>> /\ Counting(S, n) = f[n]
      /\ \A m \in 1..n : f[m] = IF m \in S THEN Append(f[m - 1], m) ELSE f[m - 1]
  BY <1>0 DEF Counts
<1> DEFINE Good(s, m) ==
             /\ \A i \in 1..Len(s) : s[i] \in 1..m /\ s[i] \in S
             /\ \A i, j \in 1..Len(s) : i < j => s[i] < s[j]
           P == {m \in 0..n : Good(f[m], m)}
<1>2. 0 \in P
  BY <1>1
<1>3. ASSUME NEW m \in 1..n, m - 1 \in P PROVE m \in P
  <2>1. PICK s \in Seq(Nat) : s = f[m - 1]
    <3>1. m - 1 \in 0..n
      OBVIOUS
    <3>2. f[m - 1] \in Seq(Nat)
      BY <1>1, <3>1
    <3> QED
      BY <3>2
  <2>2. Good(s, m - 1)
    BY <1>3, <2>1
  <2>3. CASE m \in S
    <3>1. f[m] = Append(s, m)
      BY <1>1, <2>1, <2>3
    <3> DEFINE t == Append(s, m)
    <3>2. /\ Len(t) = Len(s) + 1 /\ t[Len(s) + 1] = m /\ Len(s) \in Nat
          /\ \A i \in 1..Len(s) : t[i] = s[i]
      OBVIOUS
    <3> HIDE DEF t
    <3>3. \A i \in 1..Len(s) : s[i] \in 1..m /\ s[i] < m
      BY <2>2
    <3>4. \A i \in 1..Len(t) : i \in 1..Len(s) \/ i = Len(s) + 1
      BY <3>2
    <3>5. ASSUME NEW i \in 1..Len(t) PROVE t[i] \in 1..m /\ t[i] \in S
      <4>1. CASE i = Len(s) + 1
        BY <2>3, <3>2, <4>1
      <4>2. CASE i \in 1..Len(s)
        BY <2>2, <3>2, <3>3, <4>2
      <4> QED
        BY <3>4, <4>1, <4>2
    <3>6. \A i, j \in 1..Len(t) : i < j => t[i] < t[j]
      <4> SUFFICES ASSUME NEW i \in 1..Len(t), NEW j \in 1..Len(t), i < j PROVE t[i] < t[j]
        OBVIOUS
      <4>1. i \in 1..Len(s)
        BY <3>2
      <4>2. CASE j = Len(s) + 1
        BY <3>2, <3>3, <4>1, <4>2
      <4>3. CASE j \in 1..Len(s)
        BY <2>2, <3>2, <4>1, <4>3
      <4> QED
        BY <3>4, <4>2, <4>3
    <3>7. Good(t, m)
      BY <3>5, <3>6
    <3>8. f[m] = t /\ m \in 0..n
      BY <3>1 DEF t
    <3> HIDE DEF Good
    <3> QED
      BY <3>7, <3>8
  <2>4. CASE m \notin S
    <3>1. f[m] = s
      BY <1>1, <2>1, <2>4
    <3> QED
      BY <2>2, <3>1
  <2> QED
    BY <2>3, <2>4
<1>4. n \in P
  <2> HIDE DEF P
  <2>1. \A m \in 0..n : m \in P
    BY <1>2, <1>3, BoundedInduction
  <2> QED
    BY <2>1
<1>5. Good(f[n], n) /\ f[n] \in Seq(Nat)
  BY <1>1, <1>4
<1>6. PICK s \in Seq(Nat) : s = f[n]
  BY <1>5
<1>7. Good(s, n)
  BY <1>5, <1>6
<1>8. Within(s, n) /\ Increasing(s)
  BY <1>7 DEF Within, Increasing
<1>9. ToSet(s) \subseteq S
  <2>1. DOMAIN s = 1..Len(s)
    BY <1>6
  <2> QED
    BY <1>7, <2>1 DEF ToSet
<1>10. Counting(S, n) = s
  BY <1>1, <1>6
<1> HIDE DEF Good
<1> QED
  BY <1>8, <1>9, <1>10
-----------------------------------------------------------------------------
(* Registration. *)

\* The key depends on the five fields alone.
LEMMA SameKey ==
  ASSUME NEW x, NEW y, SameFields(x, y)
  PROVE  Identity(x) = Identity(y)
<1>1. /\ x.action = y.action /\ x.mimeType = y.mimeType /\ x.scope = y.scope
      /\ x.kernel = y.kernel /\ x.vendor = y.vendor
  BY DEF SameFields
<1> QED
  BY <1>1 DEF Identity

\* A new intent has the fields of its definition.
LEMMA MadeIsIntent ==
  ASSUME NEW d \in Definable
  PROVE  Made(d) \in Intents /\ SameFields(Made(d), d)
<1>1. Undefined \notin Nat \cup Modes
  BY RegistryAssumption
<1>2. Or(d.priority, 0) \in Nat /\ Or(d.mode, "awaitable") \in Modes
  BY <1>1 DEF Or, Definable, Modes
<1>3. Made(d) \in Intents
  BY <1>2 DEF Made, Definable, Intents
<1>4. SameFields(Made(d), d)
  BY DEF Made, SameFields, Definable
<1> QED
  BY <1>3, <1>4

\* An update leaves the five fields of an intent alone.
LEMMA UpdatedIsIntent ==
  ASSUME NEW x \in Intents, NEW d \in Definable
  PROVE  Updated(x, d) \in Intents /\ SameFields(Updated(x, d), x)
<1>1. Undefined \notin Nat \cup Modes
  BY RegistryAssumption
<1>2. Or(d.priority, x.priority) \in Nat /\ Or(d.mode, x.mode) \in Modes
  BY <1>1 DEF Or, Definable, Intents
<1>3. Updated(x, d) \in Intents
  BY <1>2 DEF Updated, Intents
<1>4. SameFields(Updated(x, d), x)
  BY DEF Updated, SameFields, Intents
<1> QED
  BY <1>3, <1>4

\* A definition of a new key gets a place of its own.
LEMMA NewPlace ==
  ASSUME NEW xs \in Seq(Intents), NEW d, NEW ds, NEW x \in Intents, SameFields(x, d),
         Kept(xs, ds), \A i \in 1..Len(xs) : Identity(xs[i]) # Identity(d)
  PROVE  Kept(Append(xs, x), ds \cup {d})
<1> DEFINE ys == Append(xs, x)
           n == Len(xs)
<1>1. n \in Nat /\ Len(ys) = n + 1 /\ ys[n + 1] = x /\ \A i \in 1..n : ys[i] = xs[i]
  OBVIOUS
<1>2. Identity(x) = Identity(d)
  BY SameKey
<1>3. /\ \A i, j \in 1..n : Identity(xs[i]) = Identity(xs[j]) => i = j
      /\ \A i \in 1..n : \E e \in ds : SameFields(xs[i], e)
      /\ \A e \in ds : \E i \in 1..n : Identity(xs[i]) = Identity(e)
      /\ \A i \in 1..n : Identity(xs[i]) # Identity(d)
  BY DEF Kept
<1> HIDE DEF ys, n
<1>4. \A i \in 1..(n + 1) : i \in 1..n \/ i = n + 1
  BY <1>1
<1>5. ASSUME NEW i \in 1..(n + 1), NEW j \in 1..(n + 1), Identity(ys[i]) = Identity(ys[j])
      PROVE  i = j
  <2>1. CASE i = n + 1 /\ j = n + 1
    BY <2>1
  <2>2. CASE i = n + 1 /\ j \in 1..n
    BY <1>1, <1>2, <1>3, <1>5, <2>2
  <2>3. CASE i \in 1..n /\ j = n + 1
    BY <1>1, <1>2, <1>3, <1>5, <2>3
  <2>4. CASE i \in 1..n /\ j \in 1..n
    BY <1>1, <1>3, <1>5, <2>4
  <2> QED
    BY <1>4, <2>1, <2>2, <2>3, <2>4
<1>6. ASSUME NEW i \in 1..(n + 1)
      PROVE  \E e \in ds \cup {d} : SameFields(ys[i], e)
  <2>1. CASE i = n + 1
    BY <1>1, <2>1
  <2>2. CASE i \in 1..n
    BY <1>1, <1>3, <2>2
  <2> QED
    BY <1>4, <2>1, <2>2
<1>7. ASSUME NEW e \in ds \cup {d}
      PROVE  \E i \in 1..(n + 1) : Identity(ys[i]) = Identity(e)
  <2>1. CASE e = d
    <3>1. n + 1 \in 1..(n + 1)
      BY <1>1
    <3> QED
      BY <1>1, <1>2, <2>1, <3>1
  <2>2. CASE e \in ds
    <3>1. PICK i \in 1..n : Identity(xs[i]) = Identity(e)
      BY <1>3, <2>2
    <3>2. i \in 1..(n + 1)
      BY <1>1
    <3> QED
      BY <1>1, <3>1, <3>2
  <2> QED
    BY <2>1, <2>2
<1>8. Kept(ys, ds \cup {d})
  BY <1>1, <1>5, <1>6, <1>7 DEF Kept
<1> QED
  BY <1>8 DEF ys

\* A definition of a key that is there updates the intent of that key.
LEMMA OldPlace ==
  ASSUME NEW xs \in Seq(Intents), NEW d, NEW ds, NEW ys \in Seq(Intents),
         Len(ys) = Len(xs), \A i \in 1..Len(xs) : SameFields(ys[i], xs[i]),
         Kept(xs, ds), \E i \in 1..Len(xs) : Identity(xs[i]) = Identity(d)
  PROVE  Kept(ys, ds \cup {d})
<1>1. \A i \in 1..Len(xs) : Identity(ys[i]) = Identity(xs[i])
  BY SameKey
<1>2. /\ \A i, j \in 1..Len(xs) : Identity(xs[i]) = Identity(xs[j]) => i = j
      /\ \A i \in 1..Len(xs) : \E e \in ds : SameFields(xs[i], e)
      /\ \A e \in ds : \E i \in 1..Len(xs) : Identity(xs[i]) = Identity(e)
  BY DEF Kept
<1>3. \A i, j \in 1..Len(xs) : Identity(ys[i]) = Identity(ys[j]) => i = j
  BY <1>1, <1>2
<1>4. ASSUME NEW i \in 1..Len(xs)
      PROVE  \E e \in ds \cup {d} : SameFields(ys[i], e)
  <2>1. PICK e \in ds : SameFields(xs[i], e)
    BY <1>2
  <2>2. SameFields(ys[i], xs[i])
    OBVIOUS
  <2>3. SameFields(ys[i], e)
    BY <2>1, <2>2 DEF SameFields
  <2> QED
    BY <2>3
<1>5. \A e \in ds \cup {d} : \E i \in 1..Len(xs) : Identity(ys[i]) = Identity(e)
  BY <1>1, <1>2
<1> QED
  BY <1>3, <1>4, <1>5 DEF Kept

\* A definition that is taken has its intent, and none is moved.
LEMMA WithKeeps ==
  ASSUME NEW xs \in Seq(Intents), NEW d \in Definable, NEW ds
  PROVE  \A ys : ys = With(xs, d) =>
           /\ ys \in Seq(Intents) /\ Len(xs) <= Len(ys)
           /\ Kept(xs, ds) => Kept(ys, ds \cup {d})
<1> DEFINE same == {i \in DOMAIN xs : Identity(xs[i]) = Identity(d)}
<1>1. DOMAIN xs = 1..Len(xs) /\ Len(xs) \in Nat
  OBVIOUS
<1>2. CASE same = {}
  <2>1. With(xs, d) = Append(xs, Made(d))
    BY <1>2 DEF With
  <2>2. \A i \in 1..Len(xs) : Identity(xs[i]) # Identity(d)
    BY <1>1, <1>2
  <2>3. Made(d) \in Intents /\ SameFields(Made(d), d)
    BY MadeIsIntent
  <2>4. Kept(xs, ds) => Kept(Append(xs, Made(d)), ds \cup {d})
    BY <2>2, <2>3, NewPlace
  <2>5. Append(xs, Made(d)) \in Seq(Intents) /\ Len(Append(xs, Made(d))) = Len(xs) + 1
    BY <2>3
  <2> QED
    BY <1>1, <2>1, <2>4, <2>5
<1>3. CASE same # {}
  <2>1. same \subseteq Nat
    BY <1>1
  <2>2. Min(same) \in same
    BY <1>3, <2>1, MinIsLeast
  <2>3. PICK i \in 1..Len(xs) : i = Min(same) /\ Identity(xs[i]) = Identity(d)
    BY <1>1, <2>2
  <2>4. With(xs, d) = [xs EXCEPT ![i] = Updated(xs[i], d)]
    BY <1>3, <2>3 DEF With
  <2>5. xs[i] \in Intents
    OBVIOUS
  <2>6. PICK x \in Intents : x = Updated(xs[i], d) /\ SameFields(x, xs[i])
    BY <2>5, UpdatedIsIntent
  <2> DEFINE ys == [xs EXCEPT ![i] = x]
  <2>7. /\ ys \in Seq(Intents) /\ Len(ys) = Len(xs) /\ ys[i] = x
        /\ \A j \in 1..Len(xs) : j # i => ys[j] = xs[j]
    BY <2>6
  <2>8. With(xs, d) = ys
    BY <2>4, <2>6
  <2> HIDE DEF ys
  <2>9. \A j \in 1..Len(xs) : SameFields(ys[j], xs[j])
    BY <2>6, <2>7 DEF SameFields
  <2>10. Kept(xs, ds) => Kept(ys, ds \cup {d})
    BY <2>3, <2>7, <2>9, OldPlace
  <2> QED
    BY <1>1, <2>7, <2>8, <2>10
<1> QED
  BY <1>2, <1>3

\* So it is for definitions in turn.
LEMMA RegisteredKeeps ==
  ASSUME intents \in Seq(Intents), NEW ds \in Seq(Definable), NEW es, Kept(intents, es)
  PROVE  \A ys : ys = Registered(ds) =>
           ys \in Seq(Intents) /\ Len(intents) <= Len(ys) /\ Kept(ys, es \cup ToSet(ds))
<1> DEFINE m == Len(ds)
           Body(f) == [n \in 0..m |-> IF n = 0 THEN intents ELSE With(f[n - 1], ds[n])]
           g == CHOOSE f : f = Body(f)
           Good(xs, n) == /\ xs \in Seq(Intents) /\ Len(intents) <= Len(xs)
                          /\ Kept(xs, es \cup {ds[j] : j \in 1..n})
<1>1. m \in Nat /\ \A n \in 1..m : ds[n] \in Definable
  OBVIOUS
<1>2. Registered(ds) = g[m]
  BY DEF Registered
<1> DEFINE step == [n \in 1..m |-> [x \in Seq(Intents) |-> With(x, ds[n])]]
<1>3. g = Body(g)
  <2>1. \A x \in Seq(Intents), n \in 1..m : With(x, ds[n]) \in Seq(Intents)
    BY <1>1, WithKeeps
  <2>2. step \in [1..m -> [Seq(Intents) -> Seq(Intents)]]
    BY <2>1
  <2>3. PICK f \in [0..m -> Seq(Intents)] : Steps(f, m, intents, step)
    <3> HIDE DEF step, m
    <3> QED
      BY <1>1, <2>2, StepsExist
  <2>4. f[0] = intents /\ \A n \in 1..m : f[n] = With(f[n - 1], ds[n])
    <3>1. ASSUME NEW n \in 1..m PROVE f[n] = With(f[n - 1], ds[n])
      <4>1. n - 1 \in 0..m
        OBVIOUS
      <4>2. f[n - 1] \in Seq(Intents)
        BY <2>3, <4>1
      <4>3. f[n] = step[n][f[n - 1]]
        BY <2>3 DEF Steps
      <4> QED
        BY <4>2, <4>3
    <3>2. f[0] = intents
      BY <2>3 DEF Steps
    <3> QED
      BY <3>1, <3>2
  <2>5. \A n \in 0..m : n # 0 => n \in 1..m
    OBVIOUS
  <2>6. \A n \in 0..m : f[n] = IF n = 0 THEN intents ELSE With(f[n - 1], ds[n])
    BY <2>4, <2>5
  <2>7. f = [n \in 0..m |-> f[n]]
    BY <2>3
  <2>8. f = Body(f)
    BY <2>6, <2>7, Zenon
  <2> QED
    BY <2>8
<1> HIDE DEF g, m
<1>4. g[0] = intents /\ \A n \in 1..m : g[n] = With(g[n - 1], ds[n])
  <2>1. \A n \in 0..m : g[n] = IF n = 0 THEN intents ELSE With(g[n - 1], ds[n])
    BY <1>3
  <2>2. 0 \in 0..m /\ \A n \in 1..m : n \in 0..m /\ n # 0
    BY <1>1
  <2> QED
    BY <2>1, <2>2
<1> DEFINE P == {n \in 0..m : Good(g[n], n)}
<1>5. 0 \in P
  <2>1. Len(intents) <= Len(intents) /\ es \cup {ds[j] : j \in 1..0} = es
    OBVIOUS
  <2>2. Good(intents, 0)
    BY <2>1
  <2>3. 0 \in 0..m
    BY <1>1
  <2> HIDE DEF Good
  <2> QED
    BY <1>4, <2>2, <2>3
<1>6. ASSUME NEW n \in 1..m, n - 1 \in P PROVE n \in P
  <2> DEFINE fs == es \cup {ds[j] : j \in 1..(n - 1)}
  <2>1. PICK xs : xs = g[n - 1]
    OBVIOUS
  <2>2. PICK ys : ys = g[n]
    OBVIOUS
  <2>3. xs \in Seq(Intents) /\ Len(intents) <= Len(xs) /\ Kept(xs, fs)
    BY <1>6, <2>1
  <2>4. ys = With(xs, ds[n]) /\ ds[n] \in Definable
    BY <1>1, <1>4, <2>1, <2>2
  <2>5. fs \cup {ds[n]} = es \cup {ds[j] : j \in 1..n}
    <3>1. \A j \in 1..n : j \in 1..(n - 1) \/ j = n
      BY <1>1
    <3>2. \A j \in 1..(n - 1) : j \in 1..n
      BY <1>1
    <3>3. n \in 1..n
      BY <1>1
    <3> QED
      BY <3>1, <3>2, <3>3
  <2> HIDE DEF fs
  <2>6. ys \in Seq(Intents) /\ Len(xs) <= Len(ys) /\ Kept(ys, fs \cup {ds[n]})
    BY <2>3, <2>4, WithKeeps
  <2>7. Len(intents) <= Len(ys)
    BY <2>3, <2>6
  <2>8. Good(ys, n)
    BY <2>5, <2>6, <2>7
  <2>9. n \in 0..m
    BY <1>1
  <2> HIDE DEF Good
  <2> QED
    BY <2>2, <2>8, <2>9
<1>7. m \in P
  <2> HIDE DEF P
  <2>1. \A n \in 0..m : n \in P
    BY <1>1, <1>5, <1>6, BoundedInduction
  <2>2. m \in 0..m
    BY <1>1
  <2> QED
    BY <2>1, <2>2
<1>8. Good(g[m], m)
  BY <1>7
<1>9. {ds[j] : j \in 1..m} = ToSet(ds)
  BY DEF ToSet, m
<1> QED
  BY <1>2, <1>8, <1>9

-----------------------------------------------------------------------------
(* Calls. *)

\* A registry that grows does not take back what a call has come to.
LEMMA SoundGrows ==
  ASSUME NEW c, NEW n \in Nat, NEW m \in Nat, n <= m, Sound(c, n)
  PROVE  Sound(c, m)
<1>1. \A s : Within(s, n) => Within(s, m)
  <2>1. \A x \in 1..n : x \in 1..m
    OBVIOUS
  <2> QED
    BY <2>1 DEF Within
<1> QED
  BY <1>1 DEF Sound, Placed

\* When one call goes on, the others stay as they are.
LEMMA OneGoesOn ==
  ASSUME Typed, NEW k \in Calls, NEW c \in CallRecords, Goes(k, c),
         NEW n \in Nat, Len(intents) <= n,
         \A j \in Calls : Sound(call[j], Len(intents)), Sound(c, n)
  PROVE  call' \in [Calls -> CallRecords] /\ \A j \in Calls : Sound(call[j], n)'
<1>1. call' = [call EXCEPT ![k] = c] /\ call \in [Calls -> CallRecords]
  BY DEF Goes, Typed
<1>2. call' \in [Calls -> CallRecords] /\ call'[k] = c
      /\ \A j \in Calls : j # k => call'[j] = call[j]
  BY <1>1
<1>3. Len(intents) \in Nat
  BY DEF Typed
<1>4. \A j \in Calls : Sound(call[j], n)
  BY <1>3, SoundGrows
<1>5. \A j \in Calls : Sound(call'[j], n)
  BY <1>2, <1>4
<1> QED
  BY <1>2, <1>5

\* What a call may launch depends on what it saw, the ranks and the choice.
LEMMA SameDeserts ==
  ASSUME NEW c, NEW d, c.seen = d.seen, c.ranks = d.ranks, c.chosen = d.chosen
  PROVE  \A i : Deserves(c, i) => Deserves(d, i)
BY DEF Deserves

\* Nothing is a prefix of anything, and so is the front of what is put together.
LEMMA FrontIsPrefix ==
  /\ \A s \in Seq(Nat) : IsPrefix(<<>>, s)
  /\ \A s, t \in Seq(Nat) : IsPrefix(s, s \o t)
<1>1. ASSUME NEW s \in Seq(Nat) PROVE IsPrefix(<<>>, s)
  BY DEF IsPrefix
<1>2. ASSUME NEW s \in Seq(Nat), NEW t \in Seq(Nat) PROVE IsPrefix(s, s \o t)
  <2>1. PICK u \in Seq(Nat) : u = s \o t
    <3>1. s \o t \in Seq(Nat)
      OBVIOUS
    <3> QED
      BY <3>1, Zenon
  <2>2. Len(s) <= Len(u) /\ \A i \in 1..Len(s) : u[i] = s[i]
    BY <2>1
  <2>3. SubSeq(s, 1, Len(s)) = SubSeq(u, 1, Len(s))
    BY <2>2
  <2> QED
    BY <2>1, <2>2, <2>3 DEF IsPrefix
<1> QED
  BY <1>1, <1>2

\* A call that has begun has nothing yet.
LEMMA BegunIsSound ==
  ASSUME NEW op \in Methods, NEW q \in Queries, NEW n \in Nat
  PROVE  \A c : c = [NoCall EXCEPT !.op = op, !.query = q, !.stage = "resolving"] =>
           c \in CallRecords /\ Sound(c, n)
<1>0. [NoCall EXCEPT !.op = op, !.query = q, !.stage = "resolving"]
        = [op |-> op, query |-> q, stage |-> "resolving", seen |-> <<>>,
           ranks |-> <<>>, left |-> <<>>, launched |-> <<>>, chosen |-> 0]
  <2> DEFINE R(o, a, st) == [op |-> o, query |-> a, stage |-> st, seen |-> <<>>,
                             ranks |-> <<>>, left |-> <<>>, launched |-> <<>>, chosen |-> 0]
  <2>1. NoCall = R("none", Undefined, "idle")
    BY DEF NoCall
  <2>2. [R("none", Undefined, "idle") EXCEPT !.op = op] = R(op, Undefined, "idle")
    OBVIOUS
  <2>3. [R(op, Undefined, "idle") EXCEPT !.query = q] = R(op, q, "idle")
    OBVIOUS
  <2>4. [R(op, q, "idle") EXCEPT !.stage = "resolving"] = R(op, q, "resolving")
    OBVIOUS
  <2> HIDE DEF R
  <2>5. [NoCall EXCEPT !.op = op, !.query = q, !.stage = "resolving"] = R(op, q, "resolving")
    BY <2>1, <2>2, <2>3, <2>4, Zenon
  <2> QED
    BY <2>5, Zenon DEF R
<1> SUFFICES ASSUME NEW c,
                    c = [op |-> op, query |-> q, stage |-> "resolving", seen |-> <<>>,
                         ranks |-> <<>>, left |-> <<>>, launched |-> <<>>, chosen |-> 0]
             PROVE  c \in CallRecords /\ Sound(c, n)
  BY <1>0, Zenon
<1>1. /\ c.stage = "resolving" /\ c.seen = <<>> /\ c.left = <<>> /\ c.launched = <<>>
      /\ c \in CallRecords
  <2>2. <<>> \in Seq(Nat) /\ "resolving" \in Stages /\ 0 \in Nat
    BY DEF Stages
  <2>3. PICK e \in Seq(Nat) : e = <<>>
    BY <2>2
  <2>4. [op |-> op, query |-> q, stage |-> "resolving", seen |-> e, ranks |-> e,
         left |-> e, launched |-> e, chosen |-> 0] \in CallRecords
    BY <2>2 DEF CallRecords
  <2>5. c \in CallRecords
    BY <2>3, <2>4, Zenon
  <2> QED
    BY <2>5
<1>2. Placed(c, n) /\ Increasing(c.seen)
  BY <1>1 DEF Placed, Within, Increasing
<1>3. IsPrefix(c.launched, c.seen)
  <2>1. <<>> \in Seq(Nat)
    OBVIOUS
  <2> QED
    BY <1>1, <2>1, FrontIsPrefix, Zenon
<1>4. Progress(c)
  BY <1>1, <1>3 DEF Progress, Early
<1> QED
  BY <1>1, <1>2, <1>4 DEF Sound

\* A call that is rejected keeps what it launched.
LEMMA RejectedIsSound ==
  ASSUME NEW c \in CallRecords, NEW n \in Nat, Sound(c, n)
  PROVE  Rejected(c) \in CallRecords /\ Sound(Rejected(c), n)
<1> DEFINE d == Rejected(c)
<1>1. /\ d \in CallRecords /\ d.stage = "rejected" /\ d.op = c.op /\ d.seen = c.seen
      /\ d.ranks = c.ranks /\ d.left = c.left /\ d.launched = c.launched
      /\ d.chosen = c.chosen
  BY DEF Rejected, CallRecords, Stages
<1> HIDE DEF d
<1>2. Placed(c, n) /\ Increasing(c.seen) /\ Progress(c)
  BY DEF Sound
<1>3. Placed(d, n) /\ Increasing(d.seen)
  BY <1>1, <1>2 DEF Placed
<1>4. \A i : Deserves(c, i) => Deserves(d, i)
  BY <1>1, SameDeserts
<1>5. Progress(d)
  BY <1>1, <1>2, <1>4 DEF Progress, Early
<1>6. Sound(d, n)
  BY <1>3, <1>5 DEF Sound
<1> QED
  BY <1>1, <1>6 DEF d

\* After the resolve hooks a call still has nothing.
LEMMA ResolvedIsSound ==
  ASSUME NEW c \in CallRecords, NEW n \in Nat, Sound(c, n), c.stage = "resolving"
  PROVE  \A d : d = [c EXCEPT !.stage = "matching"] => d \in CallRecords /\ Sound(d, n)
<1> SUFFICES ASSUME NEW d, d = [c EXCEPT !.stage = "matching"]
             PROVE  d \in CallRecords /\ Sound(d, n)
  OBVIOUS
<1>1. /\ d \in CallRecords /\ d.stage = "matching" /\ d.op = c.op /\ d.seen = c.seen
      /\ d.left = c.left /\ d.launched = c.launched
  BY DEF CallRecords, Stages
<1>2. Placed(c, n) /\ Increasing(c.seen) /\ Progress(c)
  BY DEF Sound
<1>3. Placed(d, n) /\ Increasing(d.seen)
  BY <1>1, <1>2 DEF Placed
<1>4. c.left = <<>> /\ c.launched = <<>> /\ (c.op = "invokeAll" => IsPrefix(c.launched, c.seen))
  BY <1>2 DEF Progress, Early
<1>5. Progress(d)
  BY <1>1, <1>4 DEF Progress, Early
<1> QED
  BY <1>1, <1>3, <1>5 DEF Sound

\* The answer to a lookup is in the order of the registry.
LEMMA AnsweredIsSound ==
  ASSUME NEW c \in CallRecords, NEW n \in Nat, Sound(c, n), c.stage = "matching",
         NEW is \in Seq(Nat), Within(is, n), Increasing(is)
  PROVE  Answered(c, is) \in CallRecords /\ Sound(Answered(c, is), n)
<1>1. CASE is = <<>> /\ c.op \notin {"resolve", "resolveAll"}
  BY <1>1, RejectedIsSound DEF Answered
<1>2. CASE ~(is = <<>> /\ c.op \notin {"resolve", "resolveAll"})
  <2> DEFINE seen == IF c.op \in {"resolve", "require"} THEN First(is) ELSE is
             stage == IF c.op \in {"invoke", "invokeAll"} THEN "matched" ELSE "fulfilled"
             d == [c EXCEPT !.seen = seen, !.stage = stage]
  <2>1. Answered(c, is) = d
    BY <1>2 DEF Answered
  <2>2. seen \in Seq(Nat) /\ Within(seen, n) /\ Increasing(seen)
    <3>1. CASE is = <<>>
      BY <3>1 DEF First
    <3>2. CASE is # <<>>
      <4>1. /\ <<Head(is)>> \in Seq(Nat) /\ Len(<<Head(is)>>) = 1 /\ <<Head(is)>>[1] = is[1]
            /\ 1 \in 1..Len(is)
        BY <3>2
      <4>2. Within(<<Head(is)>>, n) /\ Increasing(<<Head(is)>>)
        BY <4>1 DEF Within, Increasing
      <4> QED
        BY <3>2, <4>1, <4>2 DEF First
    <3> QED
      BY <3>1, <3>2
  <2>3. stage \in Stages
    BY DEF Stages
  <2>4. /\ d \in CallRecords /\ d.stage = stage /\ d.op = c.op /\ d.seen = seen
        /\ d.left = c.left /\ d.launched = c.launched
    BY <2>2, <2>3 DEF CallRecords
  <2>5. Placed(c, n) /\ c.left = <<>> /\ c.launched = <<>>
    BY DEF Sound, Progress, Early
  <2>6. c.op \in {"invoke", "invokeAll"} => seen = is /\ is # <<>>
    BY <1>2
  <2>7. IsPrefix(<<>>, seen)
    <3> HIDE DEF seen
    <3> QED
      BY <2>2, FrontIsPrefix, Zenon
  <2>8. stage \in {"matched", "fulfilled"} /\ (stage = "matched" => c.op \in {"invoke", "invokeAll"})
        /\ (c.op = "invokeAll" => stage = "matched")
    OBVIOUS
  <2> HIDE DEF d, seen, stage
  <2>9. Placed(d, n) /\ Increasing(d.seen)
    BY <2>2, <2>4, <2>5 DEF Placed
  <2>10. Progress(d)
    BY <2>4, <2>5, <2>6, <2>7, <2>8 DEF Progress, Early
  <2> QED
    BY <2>1, <2>4, <2>9, <2>10 DEF Sound
<1> QED
  BY <1>1, <1>2

\* The ranks are natural numbers, one for each place.
LEMMA RanksOfPlaces ==
  ASSUME Typed, NEW is \in Seq(Nat), Within(is, Len(intents))
  PROVE  /\ Ranks(is) \in Seq(Nat) /\ DOMAIN Ranks(is) = 1..Len(is)
         /\ \A m \in 1..Len(is) : Ranks(is)[m] = intents[is[m]].priority
<1>1. \A m \in 1..Len(is) : is[m] \in 1..Len(intents)
  BY DEF Within
<1>2. \A i \in 1..Len(intents) : intents[i].priority \in Nat
  <2>1. \A i \in 1..Len(intents) : intents[i] \in Intents
    BY DEF Typed
  <2> QED
    BY <2>1 DEF Intents
<1>3. Ranks(is) = [m \in 1..Len(is) |-> intents[is[m]].priority]
  BY DEF Ranks
<1>4. \A m \in 1..Len(is) : intents[is[m]].priority \in Nat
  BY <1>1, <1>2
<1>5. Len(is) \in Nat
  OBVIOUS
<1>6. Ranks(is) \in Seq(Nat)
  BY <1>3, <1>4, <1>5, IsASeq
<1> QED
  BY <1>3, <1>6

\* Of the places a call saw, the unique highest is outranked by none.
LEMMA UniqueIsHighest ==
  ASSUME NEW is \in Seq(Nat), Increasing(is), NEW ranks,
         DOMAIN ranks = 1..Len(is),
         \A m \in 1..Len(is) : ranks[m] \in Nat /\ ranks[m] = intents[is[m]].priority
  PROVE  /\ \A n \in 1..Len(is) : is[n] \in Unique(is) => Above(ranks, n) = {}
         /\ \A n \in 1..Len(is) : is[n] \notin Unique(is) => Above(ranks, n) # {}
<1>1. \A m, n \in 1..Len(is) : is[m] = is[n] => m = n
  BY DEF Increasing
<1>2. ToSet(is) = {is[m] : m \in 1..Len(is)}
  <2>1. DOMAIN is = 1..Len(is)
    OBVIOUS
  <2> QED
    BY <2>1 DEF ToSet
<1>3. ASSUME NEW n \in 1..Len(is), is[n] \in Unique(is)
      PROVE  Above(ranks, n) = {}
  <2>1. \A m \in 1..Len(is) : is[m] = is[n] \/ ranks[m] < ranks[n]
    BY <1>2, <1>3 DEF Unique
  <2> QED
    BY <1>1, <2>1 DEF Above
<1>4. ASSUME NEW n \in 1..Len(is), is[n] \notin Unique(is)
      PROVE  Above(ranks, n) # {}
  <2>1. PICK m \in 1..Len(is) : is[m] # is[n] /\ ~(ranks[m] < ranks[n])
    BY <1>2, <1>4 DEF Unique
  <2>2. ranks[m] >= ranks[n] /\ m # n
    BY <2>1
  <2> QED
    BY <2>2 DEF Above
<1> QED
  BY <1>3, <1>4

\* What a call that has begun to launch has, and how it comes to it.
LEMMA LaunchingIsSound ==
  ASSUME NEW c \in CallRecords, NEW n \in Nat, Placed(c, n), Increasing(c.seen),
         c.launched = <<>>, NEW is \in Seq(Nat), is # <<>>, Within(is, n),
         c.op = "invokeAll" => is = c.seen,
         c.op = "invoke" => \A i \in 1..Len(is) : Deserves(c, is[i])
  PROVE  Launching(c, is) \in CallRecords /\ Sound(Launching(c, is), n)
<1> DEFINE d == Launching(c, is)
<1>1. /\ d \in CallRecords /\ d.stage = "launching" /\ d.op = c.op /\ d.seen = c.seen
      /\ d.ranks = c.ranks /\ d.chosen = c.chosen /\ d.left = is /\ d.launched = <<>>
      /\ d.seen \in Seq(Nat)
  BY DEF Launching, CallRecords, Stages
<1> HIDE DEF d
<1>2. Placed(d, n) /\ Increasing(d.seen)
  BY <1>1 DEF Placed
<1>3. \A i : Deserves(c, i) => Deserves(d, i)
  BY <1>1, SameDeserts
<1>4. <<>> \o is = is /\ IsPrefix(<<>>, d.seen)
  <2>1. IsPrefix(<<>>, d.seen)
    BY <1>1, FrontIsPrefix, Zenon
  <2> QED
    BY <2>1
<1>5. Progress(d)
  <2>1. d.op = "invoke" => \A i \in 1..Len(d.left) : Deserves(d, d.left[i])
    BY <1>1, <1>3
  <2>2. \A i \in 1..Len(d.launched) : Deserves(d, d.launched[i])
    BY <1>1
  <2>3. d.op = "invokeAll" => d.launched \o d.left = d.seen /\ IsPrefix(d.launched, d.seen)
    BY <1>1, <1>4
  <2> QED
    BY <1>1, <2>1, <2>2, <2>3 DEF Progress, Early
<1>6. Sound(d, n)
  BY <1>2, <1>5 DEF Sound
<1> QED
  BY <1>1, <1>6 DEF d

\* What is launched without asking deserves it; if nothing does, the hooks are
\* asked about places none of which is the unique highest.
LEMMA DecidedIsSound ==
  ASSUME Typed, NEW c0 \in CallRecords, Sound(c0, Len(intents)), c0.stage = "matched"
  PROVE  \A c : c = [c0 EXCEPT !.ranks = Ranks(c0.seen)] =>
           /\ Winners(c) # <<>> =>
                /\ Launching(c, Winners(c)) \in CallRecords
                /\ Sound(Launching(c, Winners(c)), Len(intents))
           /\ Winners(c) = <<>> =>
                \A d : d = [c EXCEPT !.stage = "choosing"] =>
                  d \in CallRecords /\ Sound(d, Len(intents))
<1> DEFINE n == Len(intents)
           is == c0.seen
           ranks == Ranks(is)
<1> SUFFICES ASSUME NEW c, c = [c0 EXCEPT !.ranks = ranks]
             PROVE  /\ Winners(c) # <<>> =>
                         /\ Launching(c, Winners(c)) \in CallRecords
                         /\ Sound(Launching(c, Winners(c)), n)
                    /\ Winners(c) = <<>> =>
                         \A d : d = [c EXCEPT !.stage = "choosing"] =>
                           d \in CallRecords /\ Sound(d, n)
  OBVIOUS
<1>1. n \in Nat /\ is \in Seq(Nat)
  BY DEF Typed, CallRecords
<1>2. /\ Placed(c0, n) /\ Increasing(is) /\ Within(is, n) /\ is # <<>>
      /\ c0.left = <<>> /\ c0.launched = <<>> /\ c0.op \in {"invoke", "invokeAll"}
  BY DEF Sound, Placed, Progress, Early
<1>3. /\ ranks \in Seq(Nat) /\ DOMAIN ranks = 1..Len(is)
      /\ \A m \in 1..Len(is) : ranks[m] = intents[is[m]].priority
  BY <1>1, <1>2, RanksOfPlaces
<1>4. \A m \in 1..Len(is) : ranks[m] \in Nat
  BY <1>3
<1>5. /\ \A m \in 1..Len(is) : is[m] \in Unique(is) => Above(ranks, m) = {}
      /\ \A m \in 1..Len(is) : is[m] \notin Unique(is) => Above(ranks, m) # {}
  <2> HIDE DEF ranks, is
  <2> QED
    BY <1>1, <1>2, <1>3, <1>4, UniqueIsHighest
<1>6. /\ c \in CallRecords /\ c.op = c0.op /\ c.seen = is /\ c.ranks = ranks
      /\ c.left = <<>> /\ c.launched = <<>>
  <2> HIDE DEF ranks
  <2> QED
    BY <1>2, <1>3 DEF CallRecords
<1> HIDE DEF n, is, ranks
<1>7. Placed(c, n) /\ Increasing(c.seen)
  BY <1>2, <1>6 DEF Placed
<1>8. CASE c.op = "invokeAll"
  <2>1. Winners(c) = is
    BY <1>6, <1>8 DEF Winners
  <2>2. Launching(c, is) \in CallRecords /\ Sound(Launching(c, is), n)
    BY <1>1, <1>2, <1>6, <1>7, <1>8, LaunchingIsSound
  <2> QED
    BY <1>2, <2>1, <2>2
<1>9. CASE c.op = "invoke" /\ Len(is) = 1
  <2>1. Winners(c) = is
    BY <1>6, <1>9 DEF Winners
  <2>2. Above(ranks, 1) = {}
    BY <1>3, <1>9 DEF Above
  <2>3. \A i \in 1..Len(is) : Deserves(c, is[i])
    <3>1. 1 \in 1..Len(is) /\ \A i \in 1..Len(is) : i = 1
      BY <1>9
    <3>2. Deserves(c, is[1])
      BY <1>6, <2>2, <3>1 DEF Deserves
    <3> QED
      BY <3>1, <3>2
  <2>4. Launching(c, is) \in CallRecords /\ Sound(Launching(c, is), n)
    BY <1>1, <1>2, <1>6, <1>7, <1>9, <2>3, LaunchingIsSound
  <2> QED
    BY <1>2, <2>1, <2>4
<1>10. CASE c.op = "invoke" /\ Len(is) # 1 /\ Unique(is) # {}
  <2>1. PICK i \in Unique(is) : Winners(c) = <<i>>
    BY <1>6, <1>10 DEF Winners, Only
  <2>2. PICK m \in 1..Len(is) : is[m] = i
    BY <2>1 DEF Unique, ToSet
  <2>3. Deserves(c, i)
    BY <1>5, <1>6, <2>1, <2>2 DEF Deserves
  <2>4. i \in 1..n /\ i \in Nat
    BY <1>1, <1>2, <2>2 DEF Within
  <2>5. <<i>> \in Seq(Nat) /\ <<i>> # <<>> /\ Len(<<i>>) = 1 /\ <<i>>[1] = i
    BY <2>4
  <2>6. Within(<<i>>, n) /\ \A j \in 1..Len(<<i>>) : Deserves(c, <<i>>[j])
    BY <2>3, <2>4, <2>5 DEF Within
  <2>7. Launching(c, <<i>>) \in CallRecords /\ Sound(Launching(c, <<i>>), n)
    BY <1>1, <1>6, <1>7, <1>10, <2>5, <2>6, LaunchingIsSound
  <2> QED
    BY <2>1, <2>5, <2>7
<1>11. CASE c.op = "invoke" /\ Len(is) # 1 /\ Unique(is) = {}
  <2>1. Winners(c) = <<>>
    BY <1>6, <1>11 DEF Winners, Only
  <2>2. \A m \in 1..Len(is) : Above(ranks, m) # {}
    BY <1>5, <1>11
  <2> SUFFICES ASSUME NEW d, d = [c EXCEPT !.stage = "choosing"]
               PROVE  d \in CallRecords /\ Sound(d, n)
    BY <2>1
  <2>3. /\ d \in CallRecords /\ d.stage = "choosing" /\ d.op = "invoke" /\ d.seen = is
        /\ d.ranks = ranks /\ d.left = <<>> /\ d.launched = <<>>
    BY <1>6, <1>11 DEF CallRecords, Stages
  <2>4. Placed(d, n) /\ Increasing(d.seen)
    BY <1>2, <1>6, <1>7, <2>3 DEF Placed
  <2>5. Progress(d)
    BY <2>2, <2>3 DEF Progress, Early
  <2> QED
    BY <2>3, <2>4, <2>5 DEF Sound
<1> QED
  BY <1>2, <1>6, <1>8, <1>9, <1>10, <1>11

\* A choice the hooks made is one of the places they were asked about.
LEMMA ChosenIsSound ==
  ASSUME NEW c \in CallRecords, NEW n \in Nat, Sound(c, n), c.stage = "choosing", NEW i \in Nat
  PROVE  Chosen(c, i) \in CallRecords /\ Sound(Chosen(c, i), n)
<1>1. CASE i \notin ToSet(c.seen)
  BY <1>1, RejectedIsSound DEF Chosen
<1>2. CASE i \in ToSet(c.seen)
  <2>1. PICK d : d = [c EXCEPT !.chosen = i]
    OBVIOUS
  <2>2. /\ d \in CallRecords /\ d.op = c.op /\ d.seen = c.seen /\ d.ranks = c.ranks
        /\ d.left = c.left /\ d.launched = c.launched /\ d.chosen = i
    BY <2>1 DEF CallRecords
  <2>3. /\ Placed(c, n) /\ Increasing(c.seen) /\ c.launched = <<>> /\ c.op # "invokeAll"
        /\ \A m \in 1..Len(c.seen) : Above(c.ranks, m) # {}
    BY DEF Sound, Progress, Early
  <2>4. PICK m \in 1..Len(c.seen) : c.seen[m] = i
    BY <1>2 DEF ToSet
  <2>5. i \in 1..n
    BY <2>3, <2>4 DEF Placed, Within
  <2>6. Deserves(d, i)
    BY <2>2, <2>3, <2>4 DEF Deserves
  <2>7. <<i>> \in Seq(Nat) /\ <<i>> # <<>> /\ Len(<<i>>) = 1 /\ <<i>>[1] = i
    OBVIOUS
  <2>8. Within(<<i>>, n) /\ \A j \in 1..Len(<<i>>) : Deserves(d, <<i>>[j])
    BY <2>5, <2>6, <2>7 DEF Within
  <2>9. Placed(d, n) /\ Increasing(d.seen) /\ d.launched = <<>> /\ d.op # "invokeAll"
    BY <2>2, <2>3 DEF Placed
  <2>10. Launching(d, <<i>>) \in CallRecords /\ Sound(Launching(d, <<i>>), n)
    BY <2>2, <2>7, <2>8, <2>9, LaunchingIsSound
  <2> QED
    BY <1>2, <2>1, <2>10 DEF Chosen
<1> QED
  BY <1>1, <1>2

\* What is in two sequences put together is in one of them.
LEMMA InEither ==
  ASSUME NEW s \in Seq(Nat), NEW t \in Seq(Nat), NEW x \in ToSet(s \o t)
  PROVE  (\E i \in 1..Len(s) : s[i] = x) \/ (\E i \in 1..Len(t) : t[i] = x)
<1>1. PICK i \in 1..(Len(s) + Len(t)) : (s \o t)[i] = x
  <2>1. DOMAIN (s \o t) = 1..(Len(s) + Len(t))
    OBVIOUS
  <2> QED
    BY <2>1 DEF ToSet
<1>2. Len(s) \in Nat /\ Len(t) \in Nat
  OBVIOUS
<1>3. CASE i <= Len(s)
  <2>1. i \in 1..Len(s) /\ (s \o t)[i] = s[i]
    BY <1>2, <1>3
  <2> QED
    BY <1>1, <2>1
<1>4. CASE i > Len(s)
  <2>1. i - Len(s) \in 1..Len(t) /\ (s \o t)[i] = t[i - Len(s)]
    BY <1>2, <1>4
  <2> QED
    BY <1>1, <2>1
<1>5. i <= Len(s) \/ i > Len(s)
  BY <1>2
<1> QED
  BY <1>3, <1>4, <1>5

\* A launch takes the first of what is left to the end of what was launched.
LEMMA MovedOver ==
  ASSUME NEW s \in Seq(Nat), NEW t \in Seq(Nat), t # <<>>
  PROVE  /\ Append(s, Head(t)) \in Seq(Nat) /\ Tail(t) \in Seq(Nat)
         /\ Append(s, Head(t)) \o Tail(t) = s \o t
<1> DEFINE u == Append(s, Head(t)) \o Tail(t)
           v == s \o t
<1>1. /\ Head(t) \in Nat /\ Tail(t) \in Seq(Nat) /\ Len(Tail(t)) = Len(t) - 1
      /\ \A i \in 1..(Len(t) - 1) : Tail(t)[i] = t[i + 1]
      /\ Len(t) \in Nat /\ Len(s) \in Nat /\ Len(t) >= 1 /\ Head(t) = t[1]
  OBVIOUS
<1>2. /\ Append(s, Head(t)) \in Seq(Nat) /\ Len(Append(s, Head(t))) = Len(s) + 1
      /\ Append(s, Head(t))[Len(s) + 1] = t[1]
      /\ \A i \in 1..Len(s) : Append(s, Head(t))[i] = s[i]
  BY <1>1
<1>3. PICK a \in Seq(Nat) : a = Append(s, Head(t))
  BY <1>2
<1>4. PICK b \in Seq(Nat) : b = Tail(t)
  BY <1>1
<1>5. /\ Len(a) = Len(s) + 1 /\ a[Len(s) + 1] = t[1] /\ \A i \in 1..Len(s) : a[i] = s[i]
      /\ Len(b) = Len(t) - 1 /\ \A i \in 1..(Len(t) - 1) : b[i] = t[i + 1]
  BY <1>1, <1>2, <1>3, <1>4
<1>6. a \o b = s \o t
  <2>1. a \o b \in Seq(Nat) /\ s \o t \in Seq(Nat)
    OBVIOUS
  <2>2. Len(a \o b) = Len(s) + Len(t) /\ Len(s \o t) = Len(s) + Len(t)
    <3>1. Len(a \o b) = Len(a) + Len(b) /\ Len(s \o t) = Len(s) + Len(t)
      OBVIOUS
    <3>2. (Len(s) + 1) + (Len(t) - 1) = Len(s) + Len(t)
      BY <1>1
    <3> QED
      BY <1>5, <3>1, <3>2
  <2>3. ASSUME NEW i \in 1..(Len(s) + Len(t)) PROVE (a \o b)[i] = (s \o t)[i]
    <3>1. CASE i <= Len(s)
      BY <1>1, <1>5, <3>1
    <3>2. CASE i = Len(s) + 1
      <4>1. (a \o b)[i] = a[i]
        BY <1>1, <1>5, <3>2
      <4>2. (s \o t)[i] = t[1]
        BY <1>1, <3>2
      <4> QED
        BY <1>5, <3>2, <4>1, <4>2
    <3>3. CASE ~(i <= Len(s)) /\ i # Len(s) + 1
      <4>0. i > Len(s) + 1
        <5>1. Len(s) \in Nat /\ i \in Nat
          OBVIOUS
        <5> QED
          BY <3>3, <5>1
      <4>1. (a \o b)[i] = b[i - (Len(s) + 1)]
        <5>1. ~(i <= Len(a)) /\ i \in 1..(Len(a) + Len(b))
          BY <1>1, <1>5, <4>0
        <5>2. (a \o b)[i] = b[i - Len(a)]
          BY <5>1
        <5> QED
          BY <1>5, <5>2
      <4>2. (s \o t)[i] = t[i - Len(s)]
        BY <1>1, <4>0
      <4>3. /\ i - (Len(s) + 1) \in 1..(Len(t) - 1)
            /\ (i - (Len(s) + 1)) + 1 = i - Len(s)
        BY <1>1, <4>0
      <4> QED
        BY <1>5, <4>1, <4>2, <4>3
    <3> QED
      BY <3>1, <3>2, <3>3
  <2> QED
    BY <2>1, <2>2, <2>3, SeqEqual
<1> QED
  BY <1>1, <1>2, <1>3, <1>4, <1>6

\* An activity that is active is launched; one that is not fails the call.
LEMMA LaunchedIsSound ==
  ASSUME NEW c \in CallRecords, NEW n \in Nat, Sound(c, n), c.stage = "launching",
         NEW active \in BOOLEAN
  PROVE  Launched(c, active) \in CallRecords /\ Sound(Launched(c, active), n)
<1>1. CASE ~active
  BY <1>1, RejectedIsSound DEF Launched
<1>2. CASE active
  <2> DEFINE left == Tail(c.left)
             launched == Append(c.launched, Head(c.left))
             stage == IF left = <<>> THEN "fulfilled" ELSE "launching"
             d == [c EXCEPT !.left = left, !.launched = launched, !.stage = stage]
  <2>1. Launched(c, active) = d
    BY <1>2 DEF Launched
  <2>2. c.left # <<>> /\ c.left \in Seq(Nat) /\ c.launched \in Seq(Nat)
    BY DEF Sound, Progress, CallRecords
  <2>3. /\ launched \in Seq(Nat) /\ left \in Seq(Nat)
        /\ launched \o left = c.launched \o c.left
    BY <2>2, MovedOver
  <2>4. /\ \A i \in 1..Len(left) : left[i] = c.left[i + 1] /\ i + 1 \in 1..Len(c.left)
        /\ \A i \in 1..Len(launched) : \/ i \in 1..Len(c.launched) /\ launched[i] = c.launched[i]
                                       \/ launched[i] = c.left[1] /\ 1 \in 1..Len(c.left)
    BY <2>2
  <2>5. stage \in Stages
    BY DEF Stages
  <2>6. /\ d \in CallRecords /\ d.stage = stage /\ d.op = c.op /\ d.seen = c.seen
        /\ d.ranks = c.ranks /\ d.chosen = c.chosen /\ d.left = left /\ d.launched = launched
    <3> HIDE DEF left, launched, stage
    <3> QED
      BY <2>3, <2>5 DEF CallRecords
  <2>7. stage \in {"launching", "fulfilled"} /\ (stage = "launching" <=> left # <<>>)
    OBVIOUS
  <2> HIDE DEF d, left, launched, stage
  <2>8. /\ Within(c.seen, n) /\ Within(c.left, n) /\ Within(c.launched, n)
        /\ Increasing(c.seen) /\ Progress(c)
    BY DEF Sound, Placed
  <2>9. Within(left, n) /\ Within(launched, n)
    BY <2>4, <2>8 DEF Within
  <2>10. Placed(d, n) /\ Increasing(d.seen)
    BY <2>6, <2>8, <2>9 DEF Placed
  <2>11. \A i : Deserves(c, i) => Deserves(d, i)
    BY <2>6, SameDeserts
  <2>12. ASSUME c.op = "invoke"
         PROVE  /\ \A i \in 1..Len(left) : Deserves(d, left[i])
                /\ \A i \in 1..Len(launched) : Deserves(d, launched[i])
    <3>1. /\ \A i \in 1..Len(c.left) : Deserves(d, c.left[i])
          /\ \A i \in 1..Len(c.launched) : Deserves(d, c.launched[i])
      BY <2>8, <2>11, <2>12 DEF Progress
    <3> QED
      BY <2>4, <3>1
  <2>13. ASSUME c.op = "invokeAll"
         PROVE  launched \o left = c.seen /\ IsPrefix(launched, c.seen)
    <3>1. launched \o left = c.seen
      BY <2>3, <2>8, <2>13 DEF Progress
    <3>2. IsPrefix(launched, launched \o left)
      BY <2>3, FrontIsPrefix, Zenon
    <3> QED
      BY <3>1, <3>2
  <2>14. Progress(d)
    BY <2>6, <2>7, <2>12, <2>13 DEF Progress, Early
  <2> QED
    BY <2>1, <2>6, <2>10, <2>14 DEF Sound
<1> QED
  BY <1>1, <1>2
-----------------------------------------------------------------------------
(* The steps. *)

\* Definitions that are taken keep the registry as it must be.
LEMMA RegisteringKeeps ==
  ASSUME IInv, NEW ds \in Seq(Definitions), RegisterAll(ds)
  PROVE  /\ (intents \in Seq(Intents) /\ given \subseteq Definitions /\ changes \in 0..MaxChanges)'
         /\ Len(intents) <= Len(intents') /\ Kept(intents, given)'
<1>1. /\ intents' = Registered(ds) /\ given' = given \cup ToSet(ds)
      /\ changes' = changes + Len(ds) /\ changes + Len(ds) <= MaxChanges
  BY DEF RegisterAll
<1>2. /\ intents \in Seq(Intents) /\ given \subseteq Definitions /\ changes \in 0..MaxChanges
      /\ Kept(intents, given)
  BY DEF IInv, Typed
<1>3. ds \in Seq(Definable) /\ MaxChanges \in Nat
  <2>1. Definitions \subseteq Definable /\ MaxChanges \in Nat
    BY RegistryAssumption
  <2> QED
    BY <2>1
<1>4. /\ intents' \in Seq(Intents) /\ Len(intents) <= Len(intents')
      /\ Kept(intents', given \cup ToSet(ds))
  BY <1>1, <1>2, <1>3, RegisteredKeeps
<1>5. given' \subseteq Definitions
  <2>1. ToSet(ds) \subseteq Definitions
    BY DEF ToSet
  <2> QED
    BY <1>1, <1>2, <2>1
<1>6. changes' \in 0..MaxChanges
  <2>1. Len(ds) \in Nat
    OBVIOUS
  <2> QED
    BY <1>1, <1>2, <1>3, <2>1
<1> QED
  BY <1>1, <1>4, <1>5, <1>6

\* While the registry is left alone, a call that goes on keeps all in order.
LEMMA CallStep ==
  ASSUME IInv, NEW k \in Calls, NEW c \in CallRecords, Goes(k, c), Sound(c, Len(intents)),
         UNCHANGED <<intents, given, changes>>
  PROVE  IInv'
<1>1. Len(intents) \in Nat /\ Len(intents) <= Len(intents) /\ Typed
  BY DEF IInv, Typed
<1>2. \A j \in Calls : Sound(call[j], Len(intents))
  BY DEF IInv
<1>3. call' \in [Calls -> CallRecords] /\ \A j \in Calls : Sound(call'[j], Len(intents))
  BY <1>1, <1>2, OneGoesOn
<1>4. Typed'
  BY <1>1, <1>3 DEF Typed
<1>5. Kept(intents, given)'
  BY DEF IInv
<1> QED
  BY <1>3, <1>4, <1>5 DEF IInv

\* Every action of a call keeps the invariant.
LEMMA StepKeeps ==
  ASSUME IInv, NEW k \in Calls, Step(k)
  PROVE  IInv'
<1>1. call[k] \in CallRecords /\ Sound(call[k], Len(intents)) /\ Len(intents) \in Nat /\ Typed
  BY DEF IInv, Typed
<1>2. ASSUME NEW ds \in Hooked, Resolve(k, ds) PROVE IInv'
  <2>1. PICK n \in 0..Len(ds) :
          /\ call[k].stage = "resolving" /\ RegisterAll(SubSeq(ds, 1, n))
          /\ Goes(k, IF n = Len(ds) THEN [call[k] EXCEPT !.stage = "matching"]
                     ELSE Rejected(call[k]))
    BY <1>2 DEF Resolve
  <2>2. ds \in Seq(Definitions)
    <3>1. ASSUME NEW d \in Definitions, ds = <<d>> PROVE ds \in Seq(Definitions)
      BY <3>1
    <3>2. ASSUME NEW d \in Definitions, NEW e \in Definitions, ds = <<d, e>>
          PROVE  ds \in Seq(Definitions)
      BY <3>2
    <3>3. <<>> \in Seq(Definitions)
      OBVIOUS
    <3>4. \/ ds = <<>>
          \/ \E d \in Definitions : ds = <<d>>
          \/ \E d, e \in Definitions : ds = <<d, e>>
      BY DEF Hooked
    <3> QED
      BY <3>1, <3>2, <3>3, <3>4
  <2>3. SubSeq(ds, 1, n) \in Seq(Definitions)
    BY <2>2
  <2>4. /\ (intents \in Seq(Intents) /\ given \subseteq Definitions /\ changes \in 0..MaxChanges)'
        /\ Len(intents) <= Len(intents') /\ Kept(intents, given)'
    BY <2>1, <2>3, RegisteringKeeps
  <2>5. Len(intents') \in Nat
    BY <2>4
  <2>6. PICK c \in CallRecords : Goes(k, c) /\ Sound(c, Len(intents))
    BY <1>1, <2>1, ResolvedIsSound, RejectedIsSound
  <2>7. Sound(c, Len(intents'))
    BY <1>1, <2>4, <2>5, <2>6, SoundGrows
  <2>8. \A j \in Calls : Sound(call[j], Len(intents))
    BY DEF IInv
  <2>9. call' \in [Calls -> CallRecords] /\ \A j \in Calls : Sound(call'[j], Len(intents'))
    BY <1>1, <2>4, <2>5, <2>6, <2>7, <2>8, OneGoesOn
  <2>10. Typed'
    BY <2>4, <2>9 DEF Typed
  <2> QED
    BY <2>4, <2>9, <2>10 DEF IInv
<1>3. ASSUME NEW vetoed \in SUBSET DOMAIN intents, Match(k, vetoed) PROVE IInv'
  <2>1. PICK is : is = Matches(call[k].query, vetoed)
    OBVIOUS
  <2>2. is \in Seq(Nat) /\ Within(is, Len(intents)) /\ Increasing(is)
    BY <1>1, <2>1, CountingOrder DEF Matches
  <2>3. /\ call[k].stage = "matching" /\ Goes(k, Answered(call[k], is))
        /\ UNCHANGED <<intents, given, changes>>
    BY <1>3, <2>1 DEF Match
  <2>4. Answered(call[k], is) \in CallRecords /\ Sound(Answered(call[k], is), Len(intents))
    BY <1>1, <2>2, <2>3, AnsweredIsSound
  <2> QED
    BY <2>3, <2>4, CallStep
<1>4. CASE Decide(k)
  <2>1. PICK c : c = [call[k] EXCEPT !.ranks = Ranks(call[k].seen)]
    OBVIOUS
  <2>2. /\ c.stage = "matched" /\ UNCHANGED <<intents, given, changes>>
        /\ Goes(k, IF Winners(c) # <<>> THEN Launching(c, Winners(c))
                   ELSE [c EXCEPT !.stage = "choosing"])
    BY <1>4, <2>1 DEF Decide
  <2>3. call[k].stage = "matched"
    BY <1>1, <2>1, <2>2 DEF CallRecords
  <2>4. /\ Winners(c) # <<>> => /\ Launching(c, Winners(c)) \in CallRecords
                                /\ Sound(Launching(c, Winners(c)), Len(intents))
        /\ Winners(c) = <<>> => \A d : d = [c EXCEPT !.stage = "choosing"] =>
                                 d \in CallRecords /\ Sound(d, Len(intents))
    BY <1>1, <2>1, <2>3, DecidedIsSound
  <2>5. PICK d \in CallRecords : Goes(k, d) /\ Sound(d, Len(intents))
    BY <2>2, <2>4, Zenon
  <2> QED
    BY <2>2, <2>5, CallStep
<1>5. ASSUME NEW i \in 0..Len(intents), Choose(k, i) PROVE IInv'
  <2>1. /\ call[k].stage = "choosing" /\ Goes(k, Chosen(call[k], i))
        /\ UNCHANGED <<intents, given, changes>>
    BY <1>5 DEF Choose
  <2>2. i \in Nat
    BY <1>1
  <2>3. Chosen(call[k], i) \in CallRecords /\ Sound(Chosen(call[k], i), Len(intents))
    BY <1>1, <2>1, <2>2, ChosenIsSound
  <2> QED
    BY <2>1, <2>3, CallStep
<1>6. ASSUME NEW active \in BOOLEAN, Launch(k, active) PROVE IInv'
  <2>1. /\ call[k].stage = "launching" /\ Goes(k, Launched(call[k], active))
        /\ UNCHANGED <<intents, given, changes>>
    BY <1>6 DEF Launch
  <2>2. Launched(call[k], active) \in CallRecords /\ Sound(Launched(call[k], active), Len(intents))
    BY <1>1, <2>1, LaunchedIsSound
  <2> QED
    BY <2>1, <2>2, CallStep
<1>7. CASE HookFails(k)
  <2>1. Goes(k, Rejected(call[k])) /\ UNCHANGED <<intents, given, changes>>
    BY <1>7 DEF HookFails
  <2>2. Rejected(call[k]) \in CallRecords /\ Sound(Rejected(call[k]), Len(intents))
    BY <1>1, RejectedIsSound
  <2> QED
    BY <2>1, <2>2, CallStep
<1> QED
  BY <1>2, <1>3, <1>4, <1>5, <1>6, <1>7 DEF Step

\* The invariant holds of every behaviour.
THEOREM Inductive == Spec => []IInv
<1>1. Init => IInv
  <2> SUFFICES ASSUME Init PROVE IInv
    OBVIOUS
  <2>1. intents = <<>> /\ given = {} /\ changes = 0 /\ call = [k \in Calls |-> NoCall]
    BY DEF Init
  <2>2. NoCall \in CallRecords
    <3>1. PICK e \in Seq(Nat) : e = <<>>
      BY <<>> \in Seq(Nat)
    <3>2. [op |-> "none", query |-> Undefined, stage |-> "idle", seen |-> e, ranks |-> e,
           left |-> e, launched |-> e, chosen |-> 0] \in CallRecords
      BY DEF CallRecords, Stages
    <3> QED
      BY <3>1, <3>2, Zenon DEF NoCall
  <2>3. Typed
    <3>1. MaxChanges \in Nat
      BY RegistryAssumption
    <3>2. 0 \in 0..MaxChanges /\ <<>> \in Seq(Intents)
      BY <3>1
    <3> QED
      BY <2>1, <2>2, <3>2 DEF Typed
  <2>4. Kept(intents, given)
    BY <2>1 DEF Kept
  <2>5. Sound(NoCall, 0)
    <3>1. <<>> \in Seq(Nat)
      OBVIOUS
    <3>2. IsPrefix(<<>>, <<>>)
      BY <3>1, FrontIsPrefix, Zenon
    <3> QED
      BY <3>2 DEF Sound, Placed, Within, Increasing, Progress, Early, NoCall
  <2> QED
    BY <2>1, <2>3, <2>4, <2>5 DEF IInv
<1>2. IInv /\ [Next]_vars => IInv'
  <2> SUFFICES ASSUME IInv, [Next]_vars PROVE IInv'
    OBVIOUS
  <2>1. ASSUME NEW d \in Definitions, Register(d) PROVE IInv'
    <3>1. RegisterAll(<<d>>) /\ call' = call /\ <<d>> \in Seq(Definitions)
      BY <2>1 DEF Register
    <3>2. /\ (intents \in Seq(Intents) /\ given \subseteq Definitions /\ changes \in 0..MaxChanges)'
          /\ Len(intents) <= Len(intents') /\ Kept(intents, given)'
      BY <3>1, RegisteringKeeps
    <3>3. Len(intents) \in Nat /\ Len(intents') \in Nat
      BY <3>2 DEF IInv, Typed
    <3>4. \A j \in Calls : Sound(call[j], Len(intents'))
      BY <3>2, <3>3, SoundGrows DEF IInv
    <3>5. Typed'
      BY <3>1, <3>2 DEF IInv, Typed
    <3> QED
      BY <3>1, <3>2, <3>4, <3>5 DEF IInv
  <2>2. ASSUME NEW k \in Calls, NEW op \in Operations, NEW q \in Queries, Begin(k, op, q)
        PROVE  IInv'
    <3>1. op \in Methods /\ Len(intents) \in Nat
      BY RegistryAssumption DEF IInv, Typed
    <3>2. PICK c : c = [NoCall EXCEPT !.op = op, !.query = q, !.stage = "resolving"]
      OBVIOUS
    <3>3. c \in CallRecords /\ Sound(c, Len(intents))
      BY <3>1, <3>2, BegunIsSound
    <3>4. Goes(k, c) /\ UNCHANGED <<intents, given, changes>>
      BY <2>2, <3>2 DEF Begin
    <3> QED
      BY <3>3, <3>4, CallStep
  <2>3. ASSUME NEW k \in Calls, Step(k) PROVE IInv'
    BY <2>3, StepKeeps
  <2>4. CASE UNCHANGED vars
    BY <2>4 DEF vars, IInv, Typed
  <2> QED
    BY <2>1, <2>2, <2>3, <2>4 DEF Next
<1> QED
  BY <1>1, <1>2, PTL DEF Spec

-----------------------------------------------------------------------------
(* What follows. *)

\* Intents have all their fields, and a call holds places of the registry,
\* whatever is registered while it is under way.
THEOREM TypeCorrect == Spec => []TypeOK
<1>1. IInv => TypeOK
  <2> SUFFICES ASSUME IInv PROVE TypeOK
    OBVIOUS
  <2>1. ASSUME NEW i \in DOMAIN intents
        PROVE  intents[i].priority \in Nat /\ intents[i].mode # Undefined
    <3>1. intents[i] \in Intents
      BY DEF IInv, Typed
    <3>2. Undefined \notin Modes
      BY RegistryAssumption
    <3> QED
      BY <3>1, <3>2 DEF Intents
  <2>2. ASSUME NEW k \in Calls
        PROVE  /\ call[k].stage \in Stages
               /\ ToSet(call[k].seen \o call[k].left \o call[k].launched) \subseteq DOMAIN intents
    <3>1. call[k] \in CallRecords /\ Placed(call[k], Len(intents)) /\ intents \in Seq(Intents)
      BY DEF IInv, Typed, Sound
    <3>2. PICK a \in Seq(Nat), b \in Seq(Nat), c \in Seq(Nat) :
            a = call[k].seen /\ b = call[k].left /\ c = call[k].launched
      BY <3>1 DEF CallRecords
    <3>3. Within(a, Len(intents)) /\ Within(b, Len(intents)) /\ Within(c, Len(intents))
      BY <3>1, <3>2 DEF Placed
    <3>4. ToSet(a \o b \o c) \subseteq 1..Len(intents)
      <4> SUFFICES ASSUME NEW x \in ToSet(a \o b \o c) PROVE x \in 1..Len(intents)
        OBVIOUS
      <4>1. PICK e \in Seq(Nat) : e = a \o b
        <5>1. a \o b \in Seq(Nat)
          OBVIOUS
        <5> QED
          BY <5>1, Zenon
      <4>2. (\E i \in 1..Len(e) : e[i] = x) \/ (\E i \in 1..Len(c) : c[i] = x)
        BY <4>1, InEither
      <4>3. ASSUME NEW i \in 1..Len(e), e[i] = x
            PROVE  (\E j \in 1..Len(a) : a[j] = x) \/ (\E j \in 1..Len(b) : b[j] = x)
        <5>1. x \in ToSet(e)
          BY <4>3 DEF ToSet
        <5> QED
          BY <4>1, <5>1, InEither
      <4>4. \/ \E j \in 1..Len(a) : a[j] = x
            \/ \E j \in 1..Len(b) : b[j] = x
            \/ \E j \in 1..Len(c) : c[j] = x
        BY <4>2, <4>3
      <4> QED
        BY <3>3, <4>4 DEF Within
    <3>5. call[k].stage \in Stages
      BY <3>1 DEF CallRecords
    <3> QED
      BY <3>1, <3>2, <3>4, <3>5
  <2> QED
    BY <2>1, <2>2 DEF IInv, Typed, TypeOK
<1> QED
  BY <1>1, Inductive, PTL

\* What a key is made of.
Letters == Tokens \cup {":"}
Plain(name) == \A i \in 1..Len(name) : name[i] # ":"

\* The colon of a key comes right after the name,
LEMMA JoinedParts ==
  ASSUME NEW x \in Seq(Letters), NEW y \in Seq(Letters)
  PROVE  \A z : z = Joined(x, y) =>
           z \in Seq(Letters) /\ Len(z) = Len(x) + 1 + Len(y) /\ z[Len(x) + 1] = ":"
<1>1. <<":">> \in Seq(Letters)
  BY DEF Letters
<1> QED
  BY <1>1 DEF Joined

\* what is before it is the name,
LEMMA JoinedFront ==
  ASSUME NEW x \in Seq(Letters), NEW y \in Seq(Letters)
  PROVE  \A z : z = Joined(x, y) => \A i \in 1..Len(x) : z[i] = x[i]
<1>1. <<":">> \in Seq(Letters)
  BY DEF Letters
<1> QED
  BY <1>1 DEF Joined

\* and the rest is after it.
LEMMA JoinedRest ==
  ASSUME NEW x \in Seq(Letters), NEW y \in Seq(Letters)
  PROVE  \A z : z = Joined(x, y) => \A i \in 1..Len(y) : z[Len(x) + 1 + i] = y[i]
<1>1. <<":">> \in Seq(Letters)
  BY DEF Letters
<1> QED
  BY <1>1 DEF Joined

\* Names without a colon can be read back from a key.
LEMMA JoinedApart ==
  ASSUME NEW a \in Seq(Letters), NEW b \in Seq(Letters),
         NEW r \in Seq(Letters), NEW s \in Seq(Letters),
         Plain(a), Plain(b)
  PROVE  \A z : z = Joined(a, r) /\ z = Joined(b, s) => a = b /\ r = s
<1> DEFINE m == Len(a)
           n == Len(b)
<1>1. /\ \A z : z = Joined(a, r) =>
           /\ Len(z) = m + 1 + Len(r) /\ z[m + 1] = ":"
           /\ \A i \in 1..m : z[i] = a[i]
           /\ \A i \in 1..Len(r) : z[m + 1 + i] = r[i]
      /\ \A z : z = Joined(b, s) =>
           /\ Len(z) = n + 1 + Len(s) /\ z[n + 1] = ":"
           /\ \A i \in 1..n : z[i] = b[i]
           /\ \A i \in 1..Len(s) : z[n + 1 + i] = s[i]
  <2>1. \A z : z = Joined(a, r) => Len(z) = Len(a) + 1 + Len(r) /\ z[Len(a) + 1] = ":"
    BY JoinedParts
  <2>2. \A z : z = Joined(a, r) => \A i \in 1..Len(a) : z[i] = a[i]
    BY JoinedFront
  <2>3. \A z : z = Joined(a, r) => \A i \in 1..Len(r) : z[Len(a) + 1 + i] = r[i]
    BY JoinedRest
  <2>4. \A z : z = Joined(b, s) => Len(z) = Len(b) + 1 + Len(s) /\ z[Len(b) + 1] = ":"
    BY JoinedParts
  <2>5. \A z : z = Joined(b, s) => \A i \in 1..Len(b) : z[i] = b[i]
    BY JoinedFront
  <2>6. \A z : z = Joined(b, s) => \A i \in 1..Len(s) : z[Len(b) + 1 + i] = s[i]
    BY JoinedRest
  <2> QED
    BY <2>1, <2>2, <2>3, <2>4, <2>5, <2>6, Zenon
<1>2. /\ m \in Nat /\ n \in Nat /\ Len(r) \in Nat /\ Len(s) \in Nat
  OBVIOUS
<1>3. SUFFICES ASSUME NEW z, z = Joined(a, r), z = Joined(b, s) PROVE a = b /\ r = s
  OBVIOUS
<1>4. (\A i \in 1..m : a[i] # ":") /\ (\A i \in 1..n : b[i] # ":")
  BY DEF Plain
<1>5. /\ Len(z) = m + 1 + Len(r) /\ z[m + 1] = ":"
      /\ \A i \in 1..m : z[i] = a[i]
      /\ \A i \in 1..Len(r) : z[m + 1 + i] = r[i]
  BY <1>1, <1>3, Zenon
<1>6. /\ Len(z) = n + 1 + Len(s) /\ z[n + 1] = ":"
      /\ \A i \in 1..n : z[i] = b[i]
      /\ \A i \in 1..Len(s) : z[n + 1 + i] = s[i]
  BY <1>1, <1>3, Zenon
<1> HIDE DEF m, n
<1>7. m = n
  <2>1. ~(m < n)
    <3>1. m < n => m + 1 \in 1..n
      BY <1>2
    <3> QED
      BY <1>4, <1>5, <1>6, <3>1
  <2>2. ~(n < m)
    <3>1. n < m => n + 1 \in 1..m
      BY <1>2
    <3> QED
      BY <1>4, <1>5, <1>6, <3>1
  <2> QED
    BY <1>2, <2>1, <2>2
<1>8. a = b
  <2>1. Len(a) = Len(b) /\ \A i \in 1..Len(a) : a[i] = b[i]
    BY <1>5, <1>6, <1>7 DEF m, n
  <2> QED
    BY <2>1, SeqEqual
<1>9. r = s
  <2>1. Len(r) = Len(s)
    BY <1>2, <1>5, <1>6, <1>7
  <2>2. \A i \in 1..Len(r) : r[i] = s[i]
    BY <1>5, <1>6, <1>7, <2>1
  <2> QED
    BY <2>1, <2>2, SeqEqual
<1> QED
  BY <1>8, <1>9

\* The same for two keys that are equal.
LEMMA SameJoinedApart ==
  ASSUME NEW a \in Seq(Letters), NEW b \in Seq(Letters),
         NEW r \in Seq(Letters), NEW s \in Seq(Letters),
         Plain(a), Plain(b), Joined(a, r) = Joined(b, s)
  PROVE  a = b /\ r = s
<1>1. PICK z : z = Joined(a, r)
  OBVIOUS
<1>2. z = Joined(b, s)
  BY <1>1
<1>3. \A y : y = Joined(a, r) /\ y = Joined(b, s) => a = b /\ r = s
  BY JoinedApart, Zenon
<1> QED
  BY <1>1, <1>2, <1>3, Zenon

\* So a key tells definitions apart if the names it joins, but the last, are plain.
LEMMA PlainNamesTellApart ==
  ASSUME NEW d \in Definable, NEW e \in Definable, Identity(d) = Identity(e),
         Plain(d.action), Plain(d.mimeType), Plain(d.scope), Plain(d.kernel),
         Plain(e.action), Plain(e.mimeType), Plain(e.scope), Plain(e.kernel)
  PROVE  SameFields(d, e)
<1>1. \A x \in Seq(Tokens) : x \in Seq(Letters)
  BY DEF Letters
<1>2. /\ d.action \in Seq(Letters) /\ d.mimeType \in Seq(Letters) /\ d.scope \in Seq(Letters)
      /\ d.kernel \in Seq(Letters) /\ d.vendor \in Seq(Letters)
      /\ e.action \in Seq(Letters) /\ e.mimeType \in Seq(Letters) /\ e.scope \in Seq(Letters)
      /\ e.kernel \in Seq(Letters) /\ e.vendor \in Seq(Letters)
  BY <1>1 DEF Definable, Names
<1>3. PICK x : x = Joined(d.kernel, d.vendor)
  OBVIOUS
<1>4. PICK x1 : x1 = Joined(e.kernel, e.vendor)
  OBVIOUS
<1>5. PICK y : y = Joined(d.scope, x)
  OBVIOUS
<1>6. PICK y1 : y1 = Joined(e.scope, x1)
  OBVIOUS
<1>7. PICK z : z = Joined(d.mimeType, y)
  OBVIOUS
<1>8. PICK z1 : z1 = Joined(e.mimeType, y1)
  OBVIOUS
<1>9. /\ x \in Seq(Letters) /\ x1 \in Seq(Letters) /\ y \in Seq(Letters) /\ y1 \in Seq(Letters)
      /\ z \in Seq(Letters) /\ z1 \in Seq(Letters)
  <2>1. \A r, t \in Seq(Letters) : Joined(r, t) \in Seq(Letters)
    BY JoinedParts
  <2>2. x \in Seq(Letters) /\ x1 \in Seq(Letters)
    BY <1>2, <1>3, <1>4, <2>1
  <2>3. y \in Seq(Letters) /\ y1 \in Seq(Letters)
    BY <1>2, <1>5, <1>6, <2>1, <2>2
  <2> QED
    BY <1>2, <1>7, <1>8, <2>1, <2>2, <2>3
<1>10. d.action = e.action /\ z = z1
  <2>1. Joined(d.action, z) = Joined(e.action, z1)
    BY <1>3, <1>4, <1>5, <1>6, <1>7, <1>8 DEF Identity
  <2>2. /\ d.action \in Seq(Letters) /\ e.action \in Seq(Letters)
        /\ z \in Seq(Letters) /\ z1 \in Seq(Letters)
    BY <1>2, <1>9
  <2> QED
    BY <2>1, <2>2, SameJoinedApart
<1>11. d.mimeType = e.mimeType /\ y = y1
  <2>1. Joined(d.mimeType, y) = Joined(e.mimeType, y1)
    BY <1>7, <1>8, <1>10
  <2>2. /\ d.mimeType \in Seq(Letters) /\ e.mimeType \in Seq(Letters)
        /\ y \in Seq(Letters) /\ y1 \in Seq(Letters)
    BY <1>2, <1>9
  <2> QED
    BY <2>1, <2>2, SameJoinedApart
<1>12. d.scope = e.scope /\ x = x1
  <2>1. Joined(d.scope, x) = Joined(e.scope, x1)
    BY <1>5, <1>6, <1>11
  <2>2. /\ d.scope \in Seq(Letters) /\ e.scope \in Seq(Letters)
        /\ x \in Seq(Letters) /\ x1 \in Seq(Letters)
    BY <1>2, <1>9
  <2> QED
    BY <2>1, <2>2, SameJoinedApart
<1>13. d.kernel = e.kernel /\ d.vendor = e.vendor
  <2>1. Joined(d.kernel, d.vendor) = Joined(e.kernel, e.vendor)
    BY <1>3, <1>4, <1>12
  <2>2. /\ d.kernel \in Seq(Letters) /\ e.kernel \in Seq(Letters)
        /\ d.vendor \in Seq(Letters) /\ e.vendor \in Seq(Letters)
    BY <1>2
  <2> QED
    BY <2>1, <2>2, SameJoinedApart
<1> QED
  BY <1>10, <1>11, <1>12, <1>13 DEF SameFields

\* Where the key tells the definitions apart, every one that was taken has one
\* intent with its five fields.
THEOREM DefinitionsHaveOneIntent ==
  ASSUME \A d, e \in Definitions : Identity(d) = Identity(e) => SameFields(d, e)
  PROVE  Spec => []EveryoneHasOne
<1>1. IInv /\ TypeOK => EveryoneHasOne
  <2> SUFFICES ASSUME IInv, TypeOK PROVE EveryoneHasOne
    OBVIOUS
  <2>1. ASSUME NEW d \in given
        PROVE  Cardinality({i \in DOMAIN intents : SameFields(intents[i], d)}) = 1
    <3>1. /\ \A i, j \in 1..Len(intents) : Identity(intents[i]) = Identity(intents[j]) => i = j
          /\ \A i \in 1..Len(intents) : \E e \in given : SameFields(intents[i], e)
          /\ \E i \in 1..Len(intents) : Identity(intents[i]) = Identity(d)
      BY DEF IInv, Kept
    <3>2. PICK i \in 1..Len(intents) : Identity(intents[i]) = Identity(d)
      BY <3>1
    <3>3. PICK e \in given : SameFields(intents[i], e)
      BY <3>1
    <3>4. SameFields(intents[i], d)
      <4>1. Identity(e) = Identity(d)
        BY <3>2, <3>3, SameKey
      <4>2. d \in Definitions /\ e \in Definitions
        BY DEF IInv, Typed
      <4>3. SameFields(e, d)
        BY <4>1, <4>2
      <4> QED
        BY <3>3, <4>3 DEF SameFields
    <3>5. \A j \in 1..Len(intents) : SameFields(intents[j], d) => j = i
      BY <3>1, <3>2, SameKey
    <3>6. DOMAIN intents = 1..Len(intents)
      BY DEF IInv, Typed
    <3>7. {j \in DOMAIN intents : SameFields(intents[j], d)} = {i}
      BY <3>4, <3>5, <3>6
    <3> QED
      BY <3>7, FS_Singleton
  <2> QED
    BY <2>1 DEF EveryoneHasOne
<1> QED
  BY <1>1, Inductive, TypeCorrect, PTL

\* In particular so it is if only the vendor of a definition may hold a colon.
THEOREM PlainNamesHaveOneIntent ==
  ASSUME \A d \in Definitions :
           Plain(d.action) /\ Plain(d.mimeType) /\ Plain(d.scope) /\ Plain(d.kernel)
  PROVE  Spec => []EveryoneHasOne
<1>1. Definitions \subseteq Definable
  BY RegistryAssumption
<1>2. \A d, e \in Definitions : Identity(d) = Identity(e) => SameFields(d, e)
  BY <1>1, PlainNamesTellApart
<1> QED
  BY <1>2, DefinitionsHaveOneIntent

\* An invoke() launches an intent it saw that no other equals or outranks, by the
\* priorities of the moment it decides, or that a hook named when there is none.
THEOREM TheRightOneWins == Spec => []WinnerIsRight
<1>1. IInv => WinnerIsRight
  <2> SUFFICES ASSUME IInv, NEW k \in Calls, call[k].op = "invoke",
                      NEW i \in ToSet(call[k].left \o call[k].launched)
               PROVE  \E n \in DOMAIN call[k].seen :
                        /\ call[k].seen[n] = i
                        /\ \/ Above(call[k].ranks, n) = {}
                           \/ /\ call[k].chosen = i
                              /\ \A m \in DOMAIN call[k].seen : Above(call[k].ranks, m) # {}
    BY DEF WinnerIsRight, Above
  <2>1. call[k] \in CallRecords /\ Progress(call[k])
    BY DEF IInv, Typed, Sound
  <2>2. PICK a \in Seq(Nat), b \in Seq(Nat) : a = call[k].left /\ b = call[k].launched
    BY <2>1 DEF CallRecords
  <2>3. i \in ToSet(a \o b)
    BY <2>2
  <2>4. (\E m \in 1..Len(a) : a[m] = i) \/ (\E m \in 1..Len(b) : b[m] = i)
    BY <2>3, InEither
  <2>5. Deserves(call[k], i)
    BY <2>1, <2>2, <2>4 DEF Progress
  <2>6. DOMAIN call[k].seen = 1..Len(call[k].seen)
    BY <2>1 DEF CallRecords
  <2> QED
    BY <2>5, <2>6 DEF Deserves
<1> QED
  BY <1>1, Inductive, PTL

\* What an invokeAll() launched is the head of its matches in the order of
\* registration, each once; when it is fulfilled all are launched, and when a
\* launch fails the rest are not (IntentRegistry.invokeAll).
THEOREM MatchesInTurn == Spec => []MatchesAreLaunchedInTurn
<1>1. IInv => MatchesAreLaunchedInTurn
  <2> SUFFICES ASSUME IInv, NEW k \in Calls, call[k].op = "invokeAll"
               PROVE  /\ \A m, n \in DOMAIN call[k].seen :
                           m < n => call[k].seen[m] < call[k].seen[n]
                      /\ IsPrefix(call[k].launched, call[k].seen)
                      /\ call[k].stage = "fulfilled" => call[k].launched = call[k].seen
    BY DEF MatchesAreLaunchedInTurn
  <2>1. call[k] \in CallRecords /\ Progress(call[k]) /\ Increasing(call[k].seen)
    BY DEF IInv, Typed, Sound
  <2>2. call[k].seen \in Seq(Nat) /\ call[k].launched \in Seq(Nat)
    BY <2>1 DEF CallRecords
  <2>3. \A m, n \in DOMAIN call[k].seen : m < n => call[k].seen[m] < call[k].seen[n]
    <3>1. PICK s \in Seq(Nat) : s = call[k].seen
      BY <2>2
    <3>2. Increasing(s) /\ DOMAIN s = 1..Len(s)
      BY <2>1, <3>1
    <3>3. \A m, n \in DOMAIN s : m < n => s[m] < s[n]
      BY <3>2 DEF Increasing
    <3> QED
      BY <3>1, <3>3
  <2>4. IsPrefix(call[k].launched, call[k].seen)
    BY <2>1 DEF Progress
  <2>5. ASSUME call[k].stage = "fulfilled" PROVE call[k].launched = call[k].seen
    <3>1. call[k].launched \o <<>> = call[k].seen
      BY <2>1, <2>5 DEF Progress
    <3>2. call[k].launched \o <<>> = call[k].launched
      BY <2>2
    <3> QED
      BY <3>1, <3>2
  <2> QED
    BY <2>3, <2>4, <2>5
<1> QED
  BY <1>1, Inductive, PTL
=============================================================================
