-------------------------- MODULE EventEmitterProofs --------------------------
(***************************************************************************)
(* Proofs about EventEmitter, for any emitters, listeners and patterns.    *)
(* What a dispatch collected stays in the order of registration whatever   *)
(* its listeners do, and a check before each link keeps the tree a tree.   *)
(***************************************************************************)
EXTENDS EventEmitter, FiniteSetTheorems, SequenceTheorems, WellFoundedInduction, TLAPS

\* No emitters have all their parents among them.
Rooted == \A S \in SUBSET Emitters : S # {} => \E x \in S : parent[x] \notin S

\* What is registered with an emitter is in the order of registration, which is counted.
Increasing(ds) == \A i, j \in 1..Len(ds) : i < j => ds[i].order < ds[j].order
Counted(ds, n) == \A i \in 1..Len(ds) : 1 <= ds[i].order /\ ds[i].order <= n
Registry == \A e \in Emitters : Increasing(registry[e]) /\ Counted(registry[e], order[e])

\* A dispatch meets no emitter twice, and has found definitions of the one it is
\* at: r and o are what that emitter has registered and counted.
Place(f) == f.path[f.at]
Distinct(path) == \A i, j \in 1..Len(path) : path[i] = path[j] => i = j
Found(f, r, o) ==
  /\ Increasing(f.found) /\ Counted(f.found, o)
  /\ \A i \in 1..Len(f.found), j \in 1..Len(r) :
       r[j].order = f.found[i].order => r[j] = f.found[i]

\* It has called the first ones of these, the others are to be called unless it
\* was stopped: h is what its emitter heard.
Called(f, h) ==
  /\ \E n \in 0..Len(f.found) :
       /\ Len(h) = n /\ \A i \in 1..n : h[i].order = f.found[i].order
       /\ \/ f.todo = SubSeq(f.found, n + 1, Len(f.found))
          \/ f.todo = <<>> /\ f.stop = "immediately"
  /\ f.stop = "immediately" /\ ~f.busy => f.todo = <<>>

\* Dispatches begin in listeners of those that began before.
Nested ==
  /\ \A i \in 1..Len(stack) :
       /\ 1 <= stack[i].event /\ stack[i].event <= emitted
       /\ i < Len(stack) => stack[i].busy
  /\ \A i, j \in 1..Len(stack) : i < j => stack[i].event < stack[j].event

\* The emitters ahead have not heard of an event.
HeardIn(h, v, e) == Keeping(h, {x \in Invocations : x.event = v /\ x.at = e})
Ahead(f, h) == \A k \in 1..Len(f.path) : k > f.at => HeardIn(h, f.event, f.path[k]) = <<>>

Sound(f, r, o, h) ==
  /\ Distinct(f.path) /\ Found(f, r[Place(f)], o[Place(f)])
  /\ Called(f, HeardIn(h, f.event, Place(f))) /\ Ahead(f, h)
Dispatching == \A k \in 1..Len(stack) : Sound(stack[k], registry, order, heard)

\* Of every event, an emitter's listeners heard in the order of registration.
Chronicle ==
  /\ \A i \in 1..Len(heard) :
       heard[i].event <= emitted /\ heard[i].order <= order[heard[i].at]
  /\ \A v \in 1..emitted, e \in Emitters : Increasing(HeardIn(heard, v, e))

\* Once it is heard, what once() registered is not registered, and to be called
\* only by dispatches around.
Spent(x, r) == \A j \in 1..Len(r) : r[j].order # x.order
Around(f, x) ==
  \A j \in 1..Len(f.todo) :
    Place(f) = x.at /\ f.todo[j].order = x.order => f.event < x.event
Expended ==
  \A i \in 1..Len(heard) : heard[i].once =>
    /\ Spent(heard[i], registry[heard[i].at])
    /\ \A k \in 1..Len(stack) : Around(stack[k], heard[i])

IInv == /\ TypeOK /\ Rooted /\ Registry /\ Nested /\ Dispatching /\ Chronicle /\ Expended
        /\ OnceAgainOnlyAround
-----------------------------------------------------------------------------
(* Lemmas on numbers and sequences. *)

\* A set of natural numbers has a least one.
LEMMA LeastNat ==
  ASSUME NEW T, T \subseteq Nat, T # {}
  PROVE  \E x \in T : \A y \in T : x <= y
<1> DEFINE R == {p \in Nat \X Nat : p[1] < p[2]}
<1>1. IsWellFoundedOn(R, Nat)
  BY NatLessThanWellFounded, Zenon DEF OpToRel
<1>2. PICK x \in T : \A y \in T : ~ (<<y, x>> \in R)
  BY <1>1, WFMin
<1>3. \A y \in T : x \in Nat /\ y \in Nat /\ ~(y < x)
  BY <1>2
<1> QED
  BY <1>3

\* Induction up to a bound.
LEMMA BoundedInduction ==
  ASSUME NEW m \in Nat, NEW P, 0 \in P, \A n \in 1..m : n - 1 \in P => n \in P
  PROVE  \A n \in 0..m : n \in P
<1> DEFINE T == {n \in 0..m : n \notin P}
<1> SUFFICES ASSUME T # {} PROVE FALSE
  OBVIOUS
<1>1. T \subseteq Nat
  OBVIOUS
<1>2. PICK x \in T : \A y \in T : x <= y
  BY <1>1, LeastNat
<1>3. x \in 0..m /\ x \notin P /\ x # 0
  BY <1>2
<1>4. x \in 1..m /\ x - 1 \in 0..m /\ ~(x <= x - 1)
  BY <1>3
<1>5. x - 1 \in P
  BY <1>2, <1>4
<1> QED
  BY <1>3, <1>4, <1>5

\* What keeping an element adds to what was kept before.
Keep(x, T, before) == IF x \in T THEN Append(before, x) ELSE before

\* f[n] is what is kept of the first n elements of s.
Goes(f, s, T) ==
  f[0] = <<>> /\ \A n \in 1..Len(s) : f[n] = Keep(s[n], T, f[n - 1])

\* Keeping goes through a sequence step by step.
LEMMA KeepingSteps ==
  ASSUME NEW S, NEW T, NEW s \in Seq(S)
  PROVE  \E f : Keeping(s, T) = f[Len(s)] /\ Goes(f, s, T)
<1> DEFINE Upto(n, f) == /\ f = [i \in 0..n |-> f[i]] /\ f[0] = <<>>
                         /\ \A i \in 1..n : f[i] = Keep(s[i], T, f[i - 1])
           D == {n \in Nat : \E f : Upto(n, f)}
<1>1. 0 \in D
  <2>1. Upto(0, [i \in 0..0 |-> <<>>])
    OBVIOUS
  <2> QED
    BY <2>1
<1>2. ASSUME NEW n \in Nat, n \in D PROVE n + 1 \in D
  <2>1. PICK f : Upto(n, f)
    BY <1>2
  <2> DEFINE g == [i \in 0..(n + 1) |-> IF i = n + 1 THEN Keep(s[n + 1], T, f[n]) ELSE f[i]]
  <2>2. \A i \in 0..n : g[i] = f[i]
    OBVIOUS
  <2>3. g[n + 1] = Keep(s[n + 1], T, f[n])
    OBVIOUS
  <2>4. g = [i \in 0..(n + 1) |-> g[i]]
    OBVIOUS
  <2> HIDE DEF g
  <2>5. \A i \in 1..n : g[i] = Keep(s[i], T, g[i - 1])
    <3> SUFFICES ASSUME NEW i \in 1..n PROVE g[i] = Keep(s[i], T, g[i - 1])
      OBVIOUS
    <3>1. i \in 0..n /\ i - 1 \in 0..n
      OBVIOUS
    <3>2. f[i] = Keep(s[i], T, f[i - 1])
      BY <2>1
    <3> QED
      BY <2>2, <3>1, <3>2
  <2>6. g[n] = f[n] /\ g[0] = f[0]
    BY <2>2
  <2>7. \A i \in 1..(n + 1) : g[i] = Keep(s[i], T, g[i - 1])
    <3> SUFFICES ASSUME NEW i \in 1..(n + 1) PROVE g[i] = Keep(s[i], T, g[i - 1])
      OBVIOUS
    <3>1. CASE i = n + 1
      BY <2>3, <2>6, <3>1
    <3>2. CASE i # n + 1
      BY <2>5, <3>2
    <3> QED
      BY <3>1, <3>2
  <2>8. Upto(n + 1, g)
    BY <2>1, <2>4, <2>6, <2>7
  <2>9. \E f1 : Upto(n + 1, f1)
    BY <2>8, Zenon
  <2> HIDE DEF Upto
  <2> QED
    BY <2>9
<1>3. Len(s) \in D
  <2> HIDE DEF D
  <2>1. \A n \in 1..Len(s) : n - 1 \in D => n \in D
    <3> SUFFICES ASSUME NEW n \in 1..Len(s), n - 1 \in D PROVE n \in D
      OBVIOUS
    <3>1. n - 1 \in Nat /\ (n - 1) + 1 = n
      OBVIOUS
    <3> QED
      BY <1>2, <3>1
  <2>2. Len(s) \in Nat
    OBVIOUS
  <2>3. \A n \in 0..Len(s) : n \in D
    BY <1>1, <2>1, <2>2, BoundedInduction
  <2> QED
    BY <2>2, <2>3
<1> DEFINE Body(f) == [n \in 0..Len(s) |->
                         IF n = 0 THEN <<>>
                         ELSE IF s[n] \in T THEN Append(f[n - 1], s[n])
                         ELSE f[n - 1]]
<1>4. PICK f : f = Body(f)
  <2>1. PICK f : Upto(Len(s), f)
    BY <1>3
  <2>2. \A n \in 0..Len(s) : f[n] = Body(f)[n]
    BY <2>1 DEF Keep
  <2>3. f = Body(f)
    BY <2>1, <2>2
  <2> QED
    BY <2>3
<1> DEFINE g == CHOOSE f1 : f1 = Body(f1)
<1>5. g = Body(g)
  BY <1>4
<1>6. Keeping(s, T) = g[Len(s)]
  BY DEF Keeping
<1> HIDE DEF g
<1>7. \A n \in 0..Len(s) : Body(g)[n] = IF n = 0 THEN <<>> ELSE Keep(s[n], T, g[n - 1])
  BY DEF Keep
<1> HIDE DEF Body
<1>8. \A n \in 0..Len(s) : g[n] = IF n = 0 THEN <<>> ELSE Keep(s[n], T, g[n - 1])
  BY <1>5, <1>7
<1>9. g[0] = <<>> /\ \A n \in 1..Len(s) : g[n] = Keep(s[n], T, g[n - 1])
  BY <1>8
<1>10. Goes(g, s, T)
  BY <1>9 DEF Goes
<1> QED
  BY <1>6, <1>10

\* The elements of a longer sequence.
LEMMA AppendElements ==
  ASSUME NEW S, NEW s \in Seq(S), NEW x
  PROVE  ToSet(Append(s, x)) = ToSet(s) \cup {x}
<1>1. /\ Len(Append(s, x)) = Len(s) + 1 /\ Append(s, x)[Len(s) + 1] = x
      /\ \A i \in 1..Len(s) : Append(s, x)[i] = s[i]
      /\ DOMAIN s = 1..Len(s) /\ DOMAIN Append(s, x) = 1..(Len(s) + 1)
  OBVIOUS
<1> QED
  BY <1>1 DEF ToSet

\* What is kept are the elements that are wanted.
LEMMA KeepingElements ==
  ASSUME NEW S, NEW T, NEW s \in Seq(S)
  PROVE  /\ Keeping(s, T) \in Seq(S)
         /\ ToSet(Keeping(s, T)) = ToSet(s) \cap T
<1>1. PICK f : Keeping(s, T) = f[Len(s)] /\ Goes(f, s, T)
  BY KeepingSteps, Zenon
<1> DEFINE P == {n \in 0..Len(s) : /\ f[n] \in Seq(S)
                                   /\ ToSet(f[n]) = {s[i] : i \in 1..n} \cap T}
<1>2. 0 \in P
  <2>1. ToSet(<<>>) = {}
    BY DEF ToSet
  <2>2. {s[i] : i \in 1..0} = {}
    OBVIOUS
  <2>3. f[0] \in Seq(S) /\ 0 \in 0..Len(s)
    BY <1>1 DEF Goes
  <2> QED
    BY <1>1, <2>1, <2>2, <2>3 DEF Goes
<1>3. ASSUME NEW n \in 1..Len(s), n - 1 \in P PROVE n \in P
  <2>1. f[n] = Keep(s[n], T, f[n - 1]) /\ s[n] \in S
    BY <1>1 DEF Goes
  <2>2. f[n - 1] \in Seq(S) /\ ToSet(f[n - 1]) = {s[i] : i \in 1..(n - 1)} \cap T
    BY <1>3
  <2>3. {s[i] : i \in 1..n} = {s[i] : i \in 1..(n - 1)} \cup {s[n]}
    OBVIOUS
  <2>4. CASE s[n] \in T
    <3>1. f[n] = Append(f[n - 1], s[n])
      BY <2>1, <2>4 DEF Keep
    <3>2. ToSet(f[n]) = ToSet(f[n - 1]) \cup {s[n]}
      BY <2>2, <3>1, AppendElements
    <3>3. f[n] \in Seq(S)
      BY <2>1, <2>2, <3>1
    <3>4. ToSet(f[n]) = {s[i] : i \in 1..n} \cap T
      BY <2>2, <2>3, <2>4, <3>2
    <3> QED
      BY <3>3, <3>4
  <2>5. CASE s[n] \notin T
    <3>1. f[n] = f[n - 1]
      BY <2>1, <2>5 DEF Keep
    <3>2. ToSet(f[n]) = {s[i] : i \in 1..n} \cap T
      BY <2>2, <2>3, <2>5, <3>1
    <3> QED
      BY <2>2, <3>1, <3>2
  <2> QED
    BY <2>4, <2>5
<1>4. Len(s) \in P
  <2>0. Len(s) \in Nat
    OBVIOUS
  <2> HIDE DEF P
  <2>1. \A n \in 0..Len(s) : n \in P
    BY <1>2, <1>3, <2>0, BoundedInduction
  <2> QED
    BY <2>0, <2>1
<1>5. ToSet(s) = {s[i] : i \in 1..Len(s)}
  BY DEF ToSet
<1> QED
  BY <1>1, <1>4, <1>5


\* What is kept, element by element.
LEMMA KeepingMembers ==
  ASSUME NEW S, NEW T, NEW s \in Seq(S)
  PROVE  /\ Keeping(s, T) \in Seq(S)
         /\ \A i \in 1..Len(Keeping(s, T)) :
              Keeping(s, T)[i] \in T /\ \E j \in 1..Len(s) : Keeping(s, T)[i] = s[j]
         /\ \A j \in 1..Len(s) :
              s[j] \in T => \E i \in 1..Len(Keeping(s, T)) : Keeping(s, T)[i] = s[j]
<1> DEFINE k == Keeping(s, T)
<1>1. k \in Seq(S) /\ ToSet(k) = ToSet(s) \cap T
  BY KeepingElements
<1> HIDE DEF k
<1>2. ToSet(k) = {k[i] : i \in 1..Len(k)} /\ ToSet(s) = {s[i] : i \in 1..Len(s)}
  BY <1>1 DEF ToSet
<1>3. \A i \in 1..Len(k) : k[i] \in T /\ \E j \in 1..Len(s) : k[i] = s[j]
  BY <1>1, <1>2
<1>4. \A j \in 1..Len(s) : s[j] \in T => \E i \in 1..Len(k) : k[i] = s[j]
  BY <1>1, <1>2
<1> QED
  BY <1>1, <1>3, <1>4 DEF k

\* An element more is kept or not.
LEMMA KeepingMore ==
  ASSUME NEW S, NEW T, NEW s \in Seq(S), NEW x \in S
  PROVE  Keeping(Append(s, x), T) = Keep(x, T, Keeping(s, T))
<1> DEFINE t == Append(s, x)
<1>1. /\ t \in Seq(S) /\ Len(t) = Len(s) + 1 /\ t[Len(s) + 1] = x /\ Len(s) \in Nat
      /\ \A i \in 1..Len(s) : t[i] = s[i]
  OBVIOUS
<1> HIDE DEF t
<1>2. PICK f : Keeping(s, T) = f[Len(s)] /\ Goes(f, s, T)
  BY KeepingSteps, Zenon
<1>3. PICK g : Keeping(t, T) = g[Len(t)] /\ Goes(g, t, T)
  BY <1>1, KeepingSteps, Zenon
<1> DEFINE P == {n \in 0..Len(s) : f[n] = g[n]}
<1>4. 0 \in P
  BY <1>1, <1>2, <1>3 DEF Goes
<1>5. ASSUME NEW n \in 1..Len(s), n - 1 \in P PROVE n \in P
  <2>1. f[n] = Keep(s[n], T, f[n - 1])
    BY <1>2 DEF Goes
  <2>2. g[n] = Keep(t[n], T, g[n - 1])
    BY <1>1, <1>3 DEF Goes
  <2> QED
    BY <1>1, <1>5, <2>1, <2>2
<1>6. Len(s) \in P
  <2> HIDE DEF P
  <2>1. \A n \in 0..Len(s) : n \in P
    BY <1>1, <1>4, <1>5, BoundedInduction
  <2> QED
    BY <1>1, <2>1
<1>7. g[Len(s) + 1] = Keep(t[Len(s) + 1], T, g[(Len(s) + 1) - 1])
  BY <1>1, <1>3 DEF Goes
<1>8. (Len(s) + 1) - 1 = Len(s) /\ f[Len(s)] = g[Len(s)]
  BY <1>1, <1>6
<1>9. Keeping(t, T) = Keep(x, T, Keeping(s, T))
  BY <1>1, <1>2, <1>3, <1>7, <1>8
<1> QED
  BY <1>9 DEF t

\* What is kept of definitions in order is in order.
LEMMA KeepingIncreasing ==
  ASSUME NEW T, NEW s \in Seq(Definitions), Increasing(s)
  PROVE  Increasing(Keeping(s, T))
<1>1. PICK f : Keeping(s, T) = f[Len(s)] /\ Goes(f, s, T)
  BY KeepingSteps, Zenon
<1>2. Len(s) \in Nat /\ \A i \in 1..Len(s) : s[i] \in Definitions /\ s[i].order \in Nat
  <2>1. \A i \in 1..Len(s) : s[i] \in Definitions
    OBVIOUS
  <2> QED
    BY <2>1 DEF Definitions
<1> DEFINE Good(n) == /\ f[n] \in Seq(Definitions) /\ Increasing(f[n])
                      /\ \A i \in 1..Len(f[n]), j \in 1..Len(s) :
                           j > n => f[n][i].order < s[j].order
           P == {n \in 0..Len(s) : Good(n)}
<1>3. 0 \in P
  <2>1. f[0] = <<>> /\ 0 \in 0..Len(s)
    BY <1>1, <1>2 DEF Goes
  <2>2. Good(0)
    BY <2>1 DEF Increasing
  <2> QED
    BY <2>1, <2>2
<1>4. ASSUME NEW n \in 1..Len(s), n - 1 \in P PROVE n \in P
  <2>1. f[n] = Keep(s[n], T, f[n - 1])
    BY <1>1 DEF Goes
  <2>2. Good(n - 1)
    BY <1>4
  <2>3. \A j \in 1..Len(s) : j > n => s[n].order < s[j].order /\ j > n - 1
    BY <1>2 DEF Increasing
  <2>4. CASE s[n] \in T
    <3> DEFINE b == f[n - 1]
    <3>1. f[n] = Append(b, s[n]) /\ s[n] \in Definitions
      BY <1>2, <2>1, <2>4 DEF Keep
    <3>2. b \in Seq(Definitions)
      BY <2>2
    <3>3. /\ f[n] \in Seq(Definitions) /\ Len(f[n]) = Len(b) + 1 /\ f[n][Len(b) + 1] = s[n]
          /\ \A i \in 1..Len(b) : f[n][i] = b[i]
          /\ Len(b) \in Nat
      BY <3>1, <3>2
    <3>4. \A i \in 1..Len(b) : b[i].order < s[n].order
      BY <1>2, <2>2
    <3>5. Increasing(b) /\ \A i \in 1..Len(b), j \in 1..Len(s) : j > n => b[i].order < s[j].order
      <4> HIDE DEF b
      <4>1. Increasing(b)
        BY <2>2 DEF b
      <4>2. \A i \in 1..Len(b), j \in 1..Len(s) : j > n => b[i].order < s[j].order
        BY <1>2, <2>2 DEF b
      <4> QED
        BY <4>1, <4>2
    <3> HIDE DEF b
    <3>6. Increasing(f[n])
      <4> SUFFICES ASSUME NEW i \in 1..Len(f[n]), NEW j \in 1..Len(f[n]), i < j
                   PROVE  f[n][i].order < f[n][j].order
        BY DEF Increasing
      <4>1. i \in 1..Len(b)
        BY <3>3
      <4>2. CASE j \in 1..Len(b)
        BY <3>3, <3>5, <4>1, <4>2 DEF Increasing
      <4>3. CASE j \notin 1..Len(b)
        <5>1. j = Len(b) + 1
          BY <3>3, <4>3
        <5> QED
          BY <3>3, <3>4, <4>1, <5>1
      <4> QED
        BY <4>2, <4>3
    <3>7. ASSUME NEW i \in 1..Len(f[n]), NEW j \in 1..Len(s), j > n
          PROVE  f[n][i].order < s[j].order
      <4>1. CASE i \in 1..Len(b)
        BY <3>3, <3>5, <3>7, <4>1
      <4>2. CASE i \notin 1..Len(b)
        <5>1. i = Len(b) + 1
          BY <3>3, <4>2
        <5> QED
          BY <2>3, <3>3, <3>7, <5>1
      <4> QED
        BY <4>1, <4>2
    <3> QED
      BY <3>3, <3>6, <3>7
  <2>5. CASE s[n] \notin T
    <3>1. f[n] = f[n - 1]
      BY <2>1, <2>5 DEF Keep
    <3>2. /\ f[n] \in Seq(Definitions) /\ Increasing(f[n])
          /\ \A i \in 1..Len(f[n]), j \in 1..Len(s) :
               j > n - 1 => f[n][i].order < s[j].order
      BY <2>2, <3>1
    <3>3. \A j \in 1..Len(s) : j > n => j > n - 1
      BY <1>2
    <3>4. Good(n)
      BY <3>2, <3>3
    <3> QED
      BY <3>4
  <2> QED
    BY <2>4, <2>5
<1>5. Len(s) \in P
  <2> HIDE DEF P
  <2>1. \A n \in 0..Len(s) : n \in P
    BY <1>2, <1>3, <1>4, BoundedInduction
  <2> QED
    BY <1>2, <2>1
<1> QED
  BY <1>1, <1>5

-----------------------------------------------------------------------------
(* The tree. *)

Size == Cardinality(Emitters)

\* There are finitely many emitters.
LEMMA SizeIsNat == IsFiniteSet(Emitters) /\ Size \in Nat
BY EmitterAssumption, FS_CardinalityType DEF Size

\* An emitter is one of at least one.
LEMMA SizeIsPositive == ASSUME NEW e \in Emitters PROVE Size >= 1
<1>1. Size # 0
  BY SizeIsNat, FS_EmptySet DEF Size
<1> QED
  BY <1>1, SizeIsNat

Typed == parent \in [Emitters -> Emitters \cup {NoOne}]

\* p[n] are n steps upwards, or as many as there are.
Climbs(p, e) == p[1] = <<e>> /\ \A n \in 2..Size : p[n] = Upwards(p[n - 1])

\* A path is built step by step.
LEMMA PathSteps ==
  ASSUME NEW e \in Emitters
  PROVE  \E p : PathFrom(e) = p[Size] /\ Climbs(p, e)
<1> DEFINE N == Size
           Up(w) == Upwards(w)
           Upto(k, f) == f[1] = <<e>> /\ \A i \in 2..k : f[i] = Up(f[i - 1])
           D == {k \in 0..N : \E f : Upto(k, f)}
           Body(f) == [n \in 1..N |-> IF n = 1 THEN <<e>> ELSE Up(f[n - 1])]
<1>1. N \in Nat /\ N >= 1
  BY SizeIsNat, SizeIsPositive
<1>2. PathFrom(e) = LET f == CHOOSE f1 : f1 = Body(f1) IN f[N]
  BY DEF PathFrom, Size
<1> HIDE DEF N, Up
<1>3. 0 \in D
  <2>1. Upto(0, [i \in 0..1 |-> <<e>>])
    OBVIOUS
  <2>2. \E f : Upto(0, f)
    BY <2>1
  <2>3. 0 \in 0..N
    BY <1>1
  <2> HIDE DEF Upto
  <2> QED
    BY <2>2, <2>3
<1>4. ASSUME NEW n \in 1..N, n - 1 \in D PROVE n \in D
  <2>1. PICK f : Upto(n - 1, f)
    BY <1>4
  <2> DEFINE g == [i \in 1..n |-> IF i = 1 THEN <<e>> ELSE IF i = n THEN Up(f[n - 1]) ELSE f[i]]
  <2>2. /\ g[1] = <<e>> /\ (n # 1 => g[n] = Up(f[n - 1]))
        /\ \A i \in 1..(n - 1) : g[i] = f[i]
    BY <1>1, <2>1
  <2> HIDE DEF g
  <2>3. ASSUME NEW i \in 2..n PROVE g[i] = Up(g[i - 1])
    <3>1. CASE i = n
      <4>1. n - 1 \in 1..(n - 1) /\ n # 1
        BY <1>1, <3>1
      <4> QED
        BY <2>2, <3>1, <4>1
    <3>2. CASE i # n
      <4>1. i \in 2..(n - 1) /\ i \in 1..(n - 1) /\ i - 1 \in 1..(n - 1)
        BY <1>1, <3>2
      <4> QED
        BY <2>1, <2>2, <4>1
    <3> QED
      BY <3>1, <3>2
  <2>5. \E f1 : Upto(n, f1)
    BY <2>2, <2>3, Zenon
  <2>6. n \in 0..N
    BY <1>1
  <2> QED
    BY <2>5, <2>6
<1>5. N \in D
  <2> HIDE DEF D
  <2>1. \A n \in 0..N : n \in D
    BY <1>1, <1>3, <1>4, BoundedInduction
  <2> QED
    BY <1>1, <2>1
<1>6. PICK f : f = Body(f)
  <2>1. PICK f : Upto(N, f)
    BY <1>5
  <2> DEFINE g == [i \in 1..N |-> f[i]]
  <2>2. g = [i \in 1..N |-> g[i]] /\ \A i \in 1..N : g[i] = f[i]
    OBVIOUS
  <2> HIDE DEF g
  <2>3. ASSUME NEW i \in 1..N PROVE g[i] = Body(g)[i]
    <3>1. CASE i = 1
      BY <2>1, <2>2, <3>1
    <3>2. CASE i # 1
      <4>1. i \in 2..N /\ i - 1 \in 1..N
        BY <1>1, <3>2
      <4> QED
        BY <2>1, <2>2, <4>1
    <3> QED
      BY <3>1, <3>2
  <2>4. g = Body(g)
    BY <2>2, <2>3
  <2> QED
    BY <2>4
<1> DEFINE p == CHOOSE f1 : f1 = Body(f1)
<1>7. p = Body(p)
  BY <1>6
<1>8. PathFrom(e) = p[N]
  BY <1>2
<1> HIDE DEF p
<1>9. p[1] = <<e>> /\ \A n \in 2..N : p[n] = Up(p[n - 1])
  <2>1. 1 \in 1..N /\ \A n \in 2..N : n \in 1..N /\ n # 1
    BY <1>1
  <2>2. \A n \in 1..N : Body(p)[n] = IF n = 1 THEN <<e>> ELSE Up(p[n - 1])
    OBVIOUS
  <2> HIDE DEF Body
  <2>3. \A n \in 1..N : p[n] = IF n = 1 THEN <<e>> ELSE Up(p[n - 1])
    BY <1>7, <2>2
  <2> QED
    BY <2>1, <2>3
<1>10. Climbs(p, e)
  BY <1>9 DEF Climbs, Up, N
<1> QED
  BY <1>8, <1>10 DEF N

\* A way from e upwards that meets nobody twice.
Way(w, e) ==
  /\ w \in Seq(Emitters) /\ Len(w) \in Nat /\ Len(w) >= 1 /\ w[1] = e
  /\ \A i \in 1..(Len(w) - 1) : parent[w[i]] = w[i + 1]
  /\ \A i, j \in 1..Len(w) : w[i] = w[j] => i = j

\* A tree has no way round.
LEMMA WayGoesOn ==
  ASSUME Rooted, NEW e, NEW w, Way(w, e)
  PROVE  \A i \in 1..Len(w) : parent[Last(w)] # w[i]
<1> SUFFICES ASSUME NEW i \in 1..Len(w), parent[Last(w)] = w[i] PROVE FALSE
  OBVIOUS
<1> DEFINE S == {w[k] : k \in 1..Len(w)}
<1>1. S \in SUBSET Emitters /\ w[1] \in S /\ Last(w) = w[Len(w)]
  BY DEF Way, Last
<1>2. PICK x \in S : parent[x] \notin S
  BY <1>1 DEF Rooted
<1>3. PICK k \in 1..Len(w) : x = w[k]
  OBVIOUS
<1>4. CASE k = Len(w)
  BY <1>1, <1>2, <1>3, <1>4
<1>5. CASE k # Len(w)
  <2>1. k \in 1..(Len(w) - 1) /\ k + 1 \in 1..Len(w)
    BY <1>3, <1>5 DEF Way
  <2> QED
    BY <1>2, <1>3, <2>1 DEF Way
<1> QED
  BY <1>4, <1>5

\* The next emitter continues a way.
LEMMA UpwardsIsWay ==
  ASSUME Typed, Rooted, NEW e, NEW w, Way(w, e)
  PROVE  /\ Way(Upwards(w), e)
         /\ parent[Last(Upwards(w))] # NoOne => Len(Upwards(w)) = Len(w) + 1
<1>0. Last(w) = w[Len(w)] /\ Last(w) \in Emitters
  BY DEF Way, Last
<1>1. CASE parent[Last(w)] = NoOne
  BY <1>1 DEF Upwards
<1>2. CASE parent[Last(w)] # NoOne
  <2> DEFINE x == parent[Last(w)]
             v == Append(w, x)
  <2>1. x \in Emitters /\ \A i \in 1..Len(w) : w[i] # x
    BY <1>0, <1>2, WayGoesOn DEF Typed
  <2>2. x = parent[w[Len(w)]]
    BY <1>0
  <2>3. Upwards(w) = v
    BY <1>2 DEF Upwards
  <2> HIDE DEF x
  <2>4. /\ v \in Seq(Emitters) /\ Len(v) = Len(w) + 1 /\ v[Len(w) + 1] = x
        /\ \A i \in 1..Len(w) : v[i] = w[i]
    BY <2>1 DEF Way
  <2> HIDE DEF v
  <2>5. ASSUME NEW i \in 1..(Len(v) - 1) PROVE parent[v[i]] = v[i + 1]
    <3>1. i \in 1..Len(w) /\ v[i] = w[i]
      BY <2>4 DEF Way
    <3>2. CASE i = Len(w)
      BY <2>2, <2>4, <3>1, <3>2
    <3>3. CASE i # Len(w)
      <4>1. i \in 1..(Len(w) - 1) /\ i + 1 \in 1..Len(w)
        BY <3>1, <3>3 DEF Way
      <4> QED
        BY <2>4, <3>1, <4>1 DEF Way
    <3> QED
      BY <3>2, <3>3
  <2>6. \A i, j \in 1..Len(v) : v[i] = v[j] => i = j
    <3>1. \A i \in 1..Len(v) : i \in 1..Len(w) \/ i = Len(w) + 1
      BY <2>4 DEF Way
    <3> QED
      BY <2>1, <2>4, <3>1 DEF Way
  <2>7. Len(v) \in Nat /\ Len(v) >= 1 /\ v[1] = e
    BY <2>4 DEF Way
  <2> QED
    BY <2>3, <2>4, <2>5, <2>6, <2>7 DEF Way
<1> QED
  BY <1>1, <1>2

\* The path of an event is the way to a root.
LEMMA PathIsWay ==
  ASSUME Typed, Rooted, NEW e \in Emitters
  PROVE  Way(PathFrom(e), e) /\ parent[Last(PathFrom(e))] = NoOne
<1>1. PICK p : PathFrom(e) = p[Size] /\ Climbs(p, e)
  BY PathSteps, Zenon
<1>2. Size \in Nat /\ Size >= 1
  BY SizeIsNat, SizeIsPositive
<1> DEFINE Good(n) == /\ Way(p[n], e)
                      /\ parent[Last(p[n])] # NoOne => Len(p[n]) = n
           P == {n \in 0..Size : n # 0 => Good(n)}
<1>3. 0 \in P
  BY <1>2
<1>4. ASSUME NEW n \in 1..Size, n - 1 \in P PROVE n \in P
  <2>1. CASE n = 1
    <3>1. p[1] = <<e>>
      BY <1>1 DEF Climbs
    <3>2. Way(<<e>>, e) /\ Len(<<e>>) = 1
      BY DEF Way
    <3> QED
      BY <1>2, <2>1, <3>1, <3>2
  <2>2. CASE n # 1
    <3>1. n \in 2..Size /\ n - 1 # 0 /\ n \in 0..Size
      BY <1>2, <2>2
    <3>2. p[n] = Upwards(p[n - 1])
      BY <1>1, <3>1 DEF Climbs
    <3>3. Way(p[n - 1], e) /\ (parent[Last(p[n - 1])] # NoOne => Len(p[n - 1]) = n - 1)
      <4> HIDE DEF Good
      <4>1. Good(n - 1)
        BY <1>4, <3>1
      <4> QED
        BY <4>1 DEF Good
    <3>4. /\ Way(p[n], e)
          /\ parent[Last(p[n])] # NoOne => Len(p[n]) = Len(p[n - 1]) + 1
      BY <3>2, <3>3, UpwardsIsWay
    <3>5. parent[Last(p[n])] # NoOne => parent[Last(p[n - 1])] # NoOne
      BY <3>2 DEF Upwards
    <3>6. parent[Last(p[n])] # NoOne => Len(p[n]) = n
      BY <3>1, <3>3, <3>4, <3>5
    <3> QED
      BY <3>1, <3>4, <3>6
  <2> QED
    BY <2>1, <2>2
<1>5. Size \in P
  <2> HIDE DEF P
  <2>1. \A n \in 0..Size : n \in P
    BY <1>2, <1>3, <1>4, BoundedInduction
  <2> QED
    BY <1>2, <2>1
<1> DEFINE w == p[Size]
<1>6. Way(w, e) /\ (parent[Last(w)] # NoOne => Len(w) = Size)
  <2> HIDE DEF Good
  <2>1. Size # 0 /\ Good(Size)
    BY <1>2, <1>5
  <2> QED
    BY <2>1 DEF Good
<1> HIDE DEF w
<1>7. ASSUME parent[Last(w)] # NoOne PROVE FALSE
  <2> DEFINE x == parent[Last(w)]
             f == [i \in 1..Size |-> w[i]]
  <2>1. Last(w) \in Emitters
    BY <1>6 DEF Way, Last
  <2>2. x \in Emitters /\ \A i \in 1..Len(w) : w[i] # x
    BY <1>6, <1>7, <2>1, WayGoesOn DEF Typed
  <2>3. Len(w) = Size
    BY <1>6, <1>7
  <2> HIDE DEF x
  <2>4. f \in Injection(1..Size, Emitters \ {x})
    <3>1. \A i \in 1..Size : w[i] \in Emitters \ {x}
      BY <1>6, <2>2, <2>3 DEF Way
    <3>2. \A i, j \in 1..Size : f[i] = f[j] => i = j
      BY <1>6, <2>3 DEF Way
    <3>3. f \in [1..Size -> Emitters \ {x}]
      BY <3>1
    <3> QED
      BY <3>2, <3>3 DEF Injection, IsInjective
  <2>5. IsFiniteSet(Emitters \ {x}) /\ Cardinality(Emitters \ {x}) = Size - 1
    BY <2>2, SizeIsNat, FS_RemoveElement DEF Size
  <2> HIDE DEF f
  <2>6. Cardinality(1..Size) <= Cardinality(Emitters \ {x})
    BY <2>4, <2>5, FS_Injection
  <2>7. Cardinality(1..Size) = Size
    <3>1. 1 \in Int /\ Size \in Int /\ (IF 1 > Size THEN 0 ELSE Size - 1 + 1) = Size
      BY <1>2
    <3> QED
      BY <3>1, FS_Interval
  <2> QED
    BY <1>2, <2>5, <2>6, <2>7
<1> QED
  BY <1>1, <1>6, <1>7 DEF w

\* Nothing that is not above an emitter becomes its child's way round.
LEMMA AddChildRooted ==
  ASSUME Typed, Rooted, NEW e \in Emitters, NEW child \in Emitters, AddChild(e, child)
  PROVE  Rooted'
<1>1. parent' = [parent EXCEPT ![child] = e] /\ child # e /\ ~CreatesCycle(e, child)
  BY DEF AddChild
<1> DEFINE q == PathFrom(parent[e])
           A == {e} \cup (IF parent[e] = NoOne THEN {} ELSE {q[k] : k \in 1..Len(q)})
<1>2. child \notin A /\ \A x \in A : x \in Emitters /\ (parent[x] = NoOne \/ parent[x] \in A)
  <2>1. CASE parent[e] = NoOne
    BY <1>1, <2>1
  <2>2. CASE parent[e] # NoOne
    <3>1. parent[e] \in Emitters
      BY <2>2 DEF Typed
    <3>2. Way(q, parent[e]) /\ parent[Last(q)] = NoOne
      BY <3>1, PathIsWay
    <3>3. child \notin ToSet(q)
      BY <1>1, <2>2 DEF CreatesCycle
    <3> HIDE DEF q
    <3>4. A = {e} \cup {q[k] : k \in 1..Len(q)} /\ Last(q) = q[Len(q)]
      BY <2>2 DEF Last
    <3>5. child \notin A
      BY <1>1, <3>2, <3>3, <3>4 DEF ToSet, Way
    <3>6. parent[e] \in A
      <4>1. q[1] = parent[e] /\ 1 \in 1..Len(q)
        BY <3>2 DEF Way
      <4> HIDE DEF A
      <4> QED
        BY <3>4, <4>1
    <3>7. ASSUME NEW k \in 1..Len(q)
          PROVE  q[k] \in Emitters /\ (parent[q[k]] = NoOne \/ parent[q[k]] \in A)
      <4>1. CASE k = Len(q)
        BY <3>2, <3>4, <4>1 DEF Way
      <4>2. CASE k # Len(q)
        <5>1. k \in 1..(Len(q) - 1) /\ k + 1 \in 1..Len(q)
          BY <3>2, <4>2 DEF Way
        <5>2. parent[q[k]] = q[k + 1] /\ q[k] \in Emitters
          BY <3>2, <5>1 DEF Way
        <5>3. q[k + 1] \in A
          <6> HIDE DEF A
          <6> QED
            BY <3>4, <5>1
        <5> QED
          BY <5>2, <5>3
      <4> QED
        BY <4>1, <4>2
    <3> HIDE DEF A
    <3>8. \A x \in A : x = e \/ \E k \in 1..Len(q) : x = q[k]
      BY <3>4
    <3> QED
      BY <3>5, <3>6, <3>7, <3>8
  <2> QED
    BY <2>1, <2>2
<1>3. e \in A
  OBVIOUS
<1> HIDE DEF A
<1> SUFFICES ASSUME NEW S \in SUBSET Emitters, S # {}, \A x \in S : parent'[x] \in S
             PROVE  FALSE
  BY DEF Rooted
<1>4. \A x \in Emitters \ {child} : parent'[x] = parent[x]
  BY <1>1 DEF Typed
<1>5. parent'[child] = e
  BY <1>1 DEF Typed
<1>6. CASE child \notin S
  <2>1. \A x \in S : parent[x] \in S
    BY <1>4, <1>6
  <2> QED
    BY <2>1 DEF Rooted
<1>7. CASE child \in S
  <2>1. e \in S \cap A
    BY <1>3, <1>5, <1>7
  <2>2. PICK x \in S \cap A : parent[x] \notin S \cap A
    BY <2>1 DEF Rooted
  <2>3. parent[x] \in S
    BY <1>2, <1>4, <2>2
  <2>4. parent[x] # NoOne
    BY <2>3, EmitterAssumption
  <2> QED
    BY <1>2, <2>2, <2>3, <2>4
<1> QED
  BY <1>6, <1>7

\* An emitter that leaves its parent is a root.
LEMMA RemoveChildRooted ==
  ASSUME Typed, Rooted, NEW e \in Emitters, NEW child \in Emitters, RemoveChild(e, child)
  PROVE  Rooted'
<1>1. parent' = [parent EXCEPT ![child] = NoOne]
  BY DEF RemoveChild
<1> SUFFICES ASSUME NEW S \in SUBSET Emitters, S # {}, \A x \in S : parent'[x] \in S
             PROVE  FALSE
  BY DEF Rooted
<1>2. child \notin S
  BY <1>1, EmitterAssumption DEF Typed
<1>3. \A x \in S : parent[x] \in S
  BY <1>1, <1>2 DEF Typed
<1> QED
  BY <1>3 DEF Rooted

-----------------------------------------------------------------------------
(* What the actions leave alone. *)

\* What is known of a dispatch.
LEMMA DispatchIs ==
  ASSUME NEW f \in Dispatches
  PROVE  /\ f.event \in Nat /\ f.type \in Types
         /\ f.path \in Seq(Emitters) /\ f.at \in Nat
         /\ f.found \in Seq(Definitions) /\ f.todo \in Seq(Definitions)
         /\ f.busy \in BOOLEAN /\ f.stop \in {"no", "after", "immediately"}
         /\ f.failed \in BOOLEAN
BY DEF Dispatches

\* A dispatch on the stack is at an emitter.
LEMMA PlaceIs ==
  ASSUME TypeOK, NEW k \in 1..Len(stack)
  PROVE  /\ stack[k] \in Dispatches /\ stack[k].at \in 1..Len(stack[k].path)
         /\ Place(stack[k]) \in Emitters
<1>1. stack[k] \in Dispatches /\ k \in DOMAIN stack
  BY DEF TypeOK
<1>2. stack[k].path \in Seq(Emitters)
  BY <1>1, DispatchIs
<1>3. stack[k].at \in DOMAIN stack[k].path
  BY <1>1 DEF TypeOK
<1>4. stack[k].at \in 1..Len(stack[k].path) /\ Place(stack[k]) \in Emitters
  BY <1>2, <1>3 DEF Place
<1> QED
  BY <1>1, <1>4

\* The innermost dispatch.
LEMMA TopIs ==
  ASSUME TypeOK, stack # <<>>
  PROVE  Len(stack) \in Nat /\ Len(stack) \in 1..Len(stack) /\ Top = stack[Len(stack)]
BY DEF TypeOK, Top, Last

\* A definition.
LEMMA DefinitionIs ==
  ASSUME NEW d \in Definitions
  PROVE  /\ d.pattern \in Patterns /\ d.listener \in Listeners
         /\ d.once \in BOOLEAN /\ d.order \in Nat
BY DEF Definitions

\* An invocation.
LEMMA InvocationIs ==
  ASSUME NEW h \in Invocations
  PROVE  h.event \in Nat /\ h.at \in Emitters /\ h.order \in Nat /\ h.once \in BOOLEAN
BY DEF Invocations

\* What is registered then was registered before or is new.
Follows(r2, r, o) ==
  \A j \in 1..Len(r2) : (\E k \in 1..Len(r) : r2[j] = r[k]) \/ r2[j].order > o
Registering ==
  \A e \in Emitters :
    order'[e] >= order[e] /\ Follows(registry'[e], registry[e], order[e])

\* What a dispatch found stays what it was.
LEMMA FoundStays ==
  ASSUME NEW f \in Dispatches, NEW o \in Nat, NEW o2 \in Nat, o2 >= o,
         NEW r \in Seq(Definitions), NEW r2 \in Seq(Definitions), Follows(r2, r, o),
         Found(f, r, o)
  PROVE  Found(f, r2, o2)
<1>1. f.found \in Seq(Definitions)
  BY DispatchIs
<1>2. \A i \in 1..Len(f.found) : f.found[i].order \in Nat
  <2>1. \A i \in 1..Len(f.found) : f.found[i] \in Definitions
    BY <1>1
  <2> QED
    BY <2>1, DefinitionIs
<1>3. Counted(f.found, o2)
  BY <1>2 DEF Found, Counted
<1>4. ASSUME NEW i \in 1..Len(f.found), NEW j \in 1..Len(r2), r2[j].order = f.found[i].order
      PROVE  r2[j] = f.found[i]
  <2>1. ~(r2[j].order > o)
    BY <1>2, <1>4 DEF Found, Counted
  <2>2. PICK k \in 1..Len(r) : r2[j] = r[k]
    BY <2>1 DEF Follows
  <2> QED
    BY <1>4, <2>2 DEF Found
<1> QED
  BY <1>3, <1>4 DEF Found

\* What was expended stays so.
LEMMA SpentStays ==
  ASSUME NEW x, NEW o \in Nat, x.order \in Nat, x.order <= o,
         NEW r \in Seq(Definitions), NEW r2 \in Seq(Definitions), Follows(r2, r, o),
         Spent(x, r)
  PROVE  Spent(x, r2)
<1> SUFFICES ASSUME NEW j \in 1..Len(r2), r2[j].order = x.order PROVE FALSE
  BY DEF Spent
<1>1. PICK k \in 1..Len(r) : r2[j] = r[k]
  BY DEF Follows
<1> QED
  BY <1>1 DEF Spent

\* A change of what is registered leaves the dispatches as they are.
LEMMA RegistryMoves ==
  ASSUME IInv, TypeOK', Registry', Registering, UNCHANGED <<parent, stack, heard, emitted>>
  PROVE  IInv'
<1> USE DEF IInv
<1>1. \A e \in Emitters : /\ registry[e] \in Seq(Definitions) /\ registry'[e] \in Seq(Definitions)
                          /\ order[e] \in Nat /\ order'[e] \in Nat
  BY DEF TypeOK
<1>2. ASSUME NEW k \in 1..Len(stack) PROVE Sound(stack[k], registry', order', heard)
  <2>1. stack[k] \in Dispatches /\ Place(stack[k]) \in Emitters
    BY PlaceIs
  <2> DEFINE e == Place(stack[k])
  <2>2. Found(stack[k], registry[e], order[e])
    BY DEF Dispatching, Sound
  <2>3. Found(stack[k], registry'[e], order'[e])
    BY <1>1, <2>1, <2>2, FoundStays DEF Registering
  <2> QED
    BY <2>3 DEF Dispatching, Sound
<1>3. ASSUME NEW i \in 1..Len(heard)
      PROVE  /\ heard[i].event <= emitted /\ heard[i].order <= order'[heard[i].at]
             /\ heard[i].once => Spent(heard[i], registry'[heard[i].at])
  <2>1. heard[i] \in Invocations
    BY DEF TypeOK
  <2>2. heard[i].at \in Emitters /\ heard[i].order \in Nat
    BY <2>1, InvocationIs
  <2>3. heard[i].event <= emitted /\ heard[i].order <= order[heard[i].at]
    BY DEF Chronicle
  <2>4. heard[i].order <= order'[heard[i].at]
    BY <1>1, <2>2, <2>3 DEF Registering
  <2>5. ASSUME heard[i].once PROVE Spent(heard[i], registry'[heard[i].at])
    <3>1. Spent(heard[i], registry[heard[i].at])
      BY <2>5 DEF Expended
    <3> QED
      BY <1>1, <2>2, <2>3, <3>1, SpentStays DEF Registering
  <2> QED
    BY <2>3, <2>4, <2>5
<1>4. Rooted' /\ Nested' /\ OnceAgainOnlyAround'
  BY DEF Rooted, Nested, OnceAgainOnlyAround
<1>5. Dispatching'
  BY <1>2 DEF Dispatching
<1>6. Chronicle'
  BY <1>3 DEF Chronicle
<1>7. Expended'
  BY <1>3 DEF Expended
<1> QED
  BY <1>4, <1>5, <1>6, <1>7

\* The record of an event that nobody heard of is empty.
LEMMA HeardNone ==
  ASSUME NEW h \in Seq(Invocations), NEW v, \A i \in 1..Len(h) : h[i].event # v, NEW e
  PROVE  HeardIn(h, v, e) = <<>>
<1> DEFINE T == {x \in Invocations : x.event = v /\ x.at = e}
           k == Keeping(h, T)
<1>1. /\ k \in Seq(Invocations)
      /\ \A i \in 1..Len(k) : k[i] \in T /\ \E j \in 1..Len(h) : k[i] = h[j]
  BY KeepingMembers
<1> HIDE DEF k
<1>2. Len(k) \in Nat /\ \A i \in 1..Len(k) : FALSE
  BY <1>1
<1>3. Len(k) = 0
  <2>1. ~(1 \in 1..Len(k))
    BY <1>2
  <2> QED
    BY <1>2, <2>1
<1>4. k = <<>>
  BY <1>1, <1>3
<1> QED
  BY <1>4 DEF HeardIn, k

\* A change of the stack leaves the registry and what was heard as they are.
LEMMA StackMoves ==
  ASSUME IInv, TypeOK', UNCHANGED <<registry, order, parent, heard>>,
         emitted' \in {emitted, emitted + 1}, Nested',
         \A k \in 1..Len(stack') :
           /\ Sound(stack'[k], registry, order, heard)
           /\ \A i \in 1..Len(heard) : heard[i].once => Around(stack'[k], heard[i])
  PROVE  IInv'
<1> USE DEF IInv
<1>1. Rooted' /\ Registry' /\ OnceAgainOnlyAround'
  BY DEF Rooted, Registry, OnceAgainOnlyAround
<1>2. Dispatching'
  BY DEF Dispatching
<1>3. Expended'
  BY DEF Expended
<1>4. Chronicle'
  <2>1. emitted \in Nat /\ heard \in Seq(Invocations)
    BY DEF TypeOK
  <2>2. ASSUME NEW i \in 1..Len(heard)
        PROVE  /\ heard[i].event <= emitted' /\ heard[i].order <= order[heard[i].at]
               /\ heard[i].event # emitted + 1
    <3>1. heard[i].event \in Nat
      BY <2>1, InvocationIs
    <3>2. heard[i].event <= emitted /\ heard[i].order <= order[heard[i].at]
      BY DEF Chronicle
    <3> QED
      BY <2>1, <3>1, <3>2
  <2>3. ASSUME NEW v \in 1..emitted', NEW e \in Emitters PROVE Increasing(HeardIn(heard, v, e))
    <3>1. CASE v \in 1..emitted
      BY <3>1 DEF Chronicle
    <3>2. CASE v \notin 1..emitted
      <4>1. v = emitted + 1
        BY <2>1, <3>2
      <4>2. HeardIn(heard, v, e) = <<>>
        BY <2>1, <2>2, <4>1, HeardNone
      <4> QED
        BY <4>2 DEF Increasing
    <3> QED
      BY <3>1, <3>2
  <2> QED
    BY <2>2, <2>3 DEF Chronicle
<1> QED
  BY <1>1, <1>2, <1>3, <1>4

-----------------------------------------------------------------------------
(* The actions keep the invariant. *)

\* A registration is the last one.
LEMMA RegisterKeeps ==
  ASSUME IInv, NEW e \in Emitters, NEW p \in Patterns, NEW l \in Listeners,
         NEW once \in BOOLEAN, Register(e, p, l, once)
  PROVE  IInv'
<1> USE DEF IInv
<1> DEFINE d == [pattern |-> p, listener |-> l, once |-> once, order |-> order[e] + 1]
<1>1. /\ registry' = [registry EXCEPT ![e] = Append(@, d)]
      /\ order' = [order EXCEPT ![e] = @ + 1]
      /\ UNCHANGED <<parent, stack, heard, emitted>>
  BY DEF Register
<1>2. registry[e] \in Seq(Definitions) /\ order[e] \in Nat
  BY DEF TypeOK
<1>3. d \in Definitions /\ d.order = order[e] + 1
  BY <1>2 DEF Definitions
<1> HIDE DEF d
<1> DEFINE t == Append(registry[e], d)
<1>4. /\ t \in Seq(Definitions) /\ Len(t) = Len(registry[e]) + 1 /\ t[Len(registry[e]) + 1] = d
      /\ \A i \in 1..Len(registry[e]) : t[i] = registry[e][i]
      /\ Len(registry[e]) \in Nat
  BY <1>2, <1>3
<1> HIDE DEF t
<1>5. /\ registry'[e] = t /\ order'[e] = order[e] + 1
      /\ \A x \in Emitters \ {e} : registry'[x] = registry[x] /\ order'[x] = order[x]
  BY <1>1 DEF TypeOK, t
<1>6. registry' \in [Emitters -> Seq(Definitions)] /\ order' \in [Emitters -> Nat]
  BY <1>1, <1>2, <1>4 DEF TypeOK, t
<1>7. TypeOK'
  BY <1>1, <1>6 DEF TypeOK
<1>8. Registry'
  <2>1. \A i \in 1..Len(t) : i \in 1..Len(registry[e]) \/ i = Len(registry[e]) + 1
    BY <1>4
  <2>2. ASSUME NEW i \in 1..Len(registry[e])
        PROVE  /\ registry[e][i].order \in Nat /\ 1 <= registry[e][i].order
               /\ registry[e][i].order <= order[e]
    <3>1. registry[e][i] \in Definitions
      BY <1>2
    <3> QED
      BY <3>1, DefinitionIs DEF Registry, Counted
  <2>3. Counted(t, order[e] + 1)
    <3> SUFFICES ASSUME NEW i \in 1..Len(t)
                 PROVE  1 <= t[i].order /\ t[i].order <= order[e] + 1
      BY DEF Counted
    <3>1. CASE i \in 1..Len(registry[e])
      BY <1>2, <1>4, <2>2, <3>1
    <3>2. CASE i = Len(registry[e]) + 1
      BY <1>2, <1>3, <1>4, <3>2
    <3> QED
      BY <2>1, <3>1, <3>2
  <2>4. Increasing(t)
    <3> SUFFICES ASSUME NEW i \in 1..Len(t), NEW j \in 1..Len(t), i < j
                 PROVE  t[i].order < t[j].order
      BY DEF Increasing
    <3>1. i \in 1..Len(registry[e])
      BY <1>4
    <3>2. CASE j \in 1..Len(registry[e])
      BY <1>4, <3>1, <3>2 DEF Registry, Increasing
    <3>3. CASE j = Len(registry[e]) + 1
      BY <1>2, <1>3, <1>4, <2>2, <3>1, <3>3
    <3> QED
      BY <2>1, <3>2, <3>3
  <2> QED
    BY <1>5, <2>3, <2>4 DEF Registry
<1>9. Registering
  <2>1. Follows(t, registry[e], order[e])
    <3> SUFFICES ASSUME NEW j \in 1..Len(t)
                 PROVE  (\E k \in 1..Len(registry[e]) : t[j] = registry[e][k]) \/ t[j].order > order[e]
      BY DEF Follows
    <3>1. j \in 1..Len(registry[e]) \/ t[j].order = order[e] + 1
      BY <1>3, <1>4
    <3> QED
      BY <1>2, <1>4, <3>1
  <2>2. \A x \in Emitters : order[x] \in Nat /\ Follows(registry[x], registry[x], order[x])
    BY DEF TypeOK, Follows
  <2> QED
    BY <1>2, <1>5, <2>1, <2>2 DEF Registering
<1> QED
  BY <1>1, <1>7, <1>8, <1>9, RegistryMoves

\* What is without some definitions is what there was, in order.
LEMMA WithoutIs ==
  ASSUME TypeOK, Registry, NEW e \in Emitters, NEW p, NEW l, registry' = Without(e, p, l),
         order' = order
  PROVE  /\ registry' \in [Emitters -> Seq(Definitions)]
         /\ Registry' /\ Registering
         /\ \A j \in 1..Len(registry'[e]) : ~Same(registry'[e][j], p, l)
         /\ \A x \in Emitters \ {e} : registry'[x] = registry[x]
<1> DEFINE T == {d \in Definitions : ~Same(d, p, l)}
           k == Keeping(registry[e], T)
<1>1. registry' = [registry EXCEPT ![e] = k]
  BY DEF Without
<1>2. registry \in [Emitters -> Seq(Definitions)] /\ registry[e] \in Seq(Definitions)
  BY DEF TypeOK
<1>3. /\ k \in Seq(Definitions)
      /\ \A i \in 1..Len(k) : k[i] \in T /\ \E j \in 1..Len(registry[e]) : k[i] = registry[e][j]
  <2> HIDE DEF T
  <2> QED
    BY <1>2, KeepingMembers
<1>4. Increasing(k)
  BY <1>2, KeepingIncreasing DEF Registry
<1> HIDE DEF k
<1>5. /\ registry'[e] = k /\ registry' \in [Emitters -> Seq(Definitions)]
      /\ \A x \in Emitters \ {e} : registry'[x] = registry[x]
  BY <1>1, <1>2, <1>3
<1>6. Counted(k, order[e])
  BY <1>3 DEF Registry, Counted
<1>7. Registry'
  BY <1>4, <1>5, <1>6 DEF Registry
<1>8. Registering
  <2>1. Follows(k, registry[e], order[e])
    BY <1>3 DEF Follows
  <2>2. \A x \in Emitters : order[x] >= order[x] /\ Follows(registry[x], registry[x], order[x])
    BY DEF TypeOK, Follows
  <2> QED
    BY <1>5, <2>1, <2>2 DEF Registering
<1> QED
  BY <1>3, <1>5, <1>7, <1>8

\* A removal leaves the others in their order.
LEMMA OffKeeps ==
  ASSUME IInv, NEW e \in Emitters, NEW p \in Patterns, NEW l \in Listeners, Off(e, p, l)
  PROVE  IInv'
<1> USE DEF IInv
<1>1. registry' = Without(e, p, l) /\ UNCHANGED <<order, parent, stack, heard, emitted>>
  BY DEF Off
<1>2. registry' \in [Emitters -> Seq(Definitions)] /\ Registry' /\ Registering
  BY <1>1, WithoutIs
<1>3. TypeOK'
  BY <1>1, <1>2 DEF TypeOK
<1> QED
  BY <1>1, <1>2, <1>3, RegistryMoves

\* A change of the tree is a change of nothing else.
LEMMA TreeKeeps ==
  ASSUME IInv, NEW e \in Emitters, NEW child \in Emitters,
         AddChild(e, child) \/ RemoveChild(e, child)
  PROVE  IInv'
<1> USE DEF IInv
<1>1. UNCHANGED <<registry, order, stack, heard, emitted>>
  BY DEF AddChild, RemoveChild
<1>2. Typed
  BY DEF TypeOK, Typed
<1>3. Rooted'
  BY <1>2, AddChildRooted, RemoveChildRooted
<1>4. parent' \in [Emitters -> Emitters \cup {NoOne}]
  BY <1>2 DEF AddChild, RemoveChild, Typed
<1>5. TypeOK'
  BY <1>1, <1>4 DEF TypeOK
<1>6. Registry' /\ Nested' /\ OnceAgainOnlyAround'
  BY <1>1 DEF Registry, Nested, OnceAgainOnlyAround
<1>7. Dispatching' /\ Chronicle' /\ Expended'
  BY <1>1 DEF Dispatching, Chronicle, Expended
<1> QED
  BY <1>3, <1>5, <1>6, <1>7

\* What an emitter's listeners are collected from.
LEMMA CollectIs ==
  ASSUME TypeOK, Registry, NEW e \in Emitters, NEW t
  PROVE  /\ Collect(e, t) \in Seq(Definitions)
         /\ Found([found |-> Collect(e, t)], registry[e], order[e])
         /\ \A i \in 1..Len(Collect(e, t)) :
              \E j \in 1..Len(registry[e]) : Collect(e, t)[i] = registry[e][j]
<1> DEFINE T == {d \in Definitions : t \in Covers[d.pattern]}
           k == Keeping(registry[e], T)
<1>1. Collect(e, t) = k
  BY DEF Collect
<1>2. registry[e] \in Seq(Definitions)
  BY DEF TypeOK
<1>3. /\ k \in Seq(Definitions)
      /\ \A i \in 1..Len(k) : \E j \in 1..Len(registry[e]) : k[i] = registry[e][j]
  <2> HIDE DEF T
  <2> QED
    BY <1>2, KeepingMembers
<1>4. Increasing(k)
  BY <1>2, KeepingIncreasing DEF Registry
<1> HIDE DEF k
<1>5. Counted(k, order[e])
  BY <1>3 DEF Registry, Counted
<1>6. ASSUME NEW i \in 1..Len(k), NEW j \in 1..Len(registry[e]),
             registry[e][j].order = k[i].order
      PROVE  registry[e][j] = k[i]
  <2>1. PICK m \in 1..Len(registry[e]) : k[i] = registry[e][m]
    BY <1>3
  <2>2. registry[e][j].order \in Nat /\ registry[e][m].order \in Nat
    <3>1. registry[e][j] \in Definitions /\ registry[e][m] \in Definitions
      BY <1>2
    <3> QED
      BY <3>1, DefinitionIs
  <2>3. j \in Nat /\ m \in Nat
    BY <1>2
  <2>4. ~(j < m) /\ ~(m < j)
    BY <1>6, <2>1, <2>2 DEF Registry, Increasing
  <2>5. j = m
    BY <2>3, <2>4
  <2> QED
    BY <2>1, <2>5
<1>7. Found([found |-> k], registry[e], order[e])
  BY <1>4, <1>5, <1>6 DEF Found
<1> QED
  BY <1>1, <1>3, <1>7

\* What is known of an invocation that is over.
HeardBefore(x) == x.once => Spent(x, registry[x.at])

\* A dispatch that comes to an emitter that has not heard of it.
LEMMA ArrivedIs ==
  ASSUME IInv, NEW f \in Dispatches, NEW i \in 1..Len(f.path), Distinct(f.path),
         \A k \in 1..Len(f.path) : k >= i => HeardIn(heard, f.event, f.path[k]) = <<>>,
         f.stop = "no"
  PROVE  /\ Arrived(f, i) \in Dispatches /\ Arrived(f, i).at = i
         /\ Arrived(f, i).path = f.path /\ Arrived(f, i).event = f.event
         /\ Sound(Arrived(f, i), registry, order, heard)
         /\ \A j \in 1..Len(heard) : heard[j].once => Around(Arrived(f, i), heard[j])
<1> USE DEF IInv
<1> DEFINE e == f.path[i]
           c == Collect(e, f.type)
           g == Arrived(f, i)
<1>1. /\ f.event \in Nat /\ f.type \in Types /\ f.path \in Seq(Emitters)
      /\ e \in Emitters /\ i \in Nat
  BY DispatchIs
<1>2. /\ c \in Seq(Definitions)
      /\ Found([found |-> c], registry[e], order[e])
      /\ \A k \in 1..Len(c) : \E j \in 1..Len(registry[e]) : c[k] = registry[e][j]
  BY <1>1, CollectIs
<1>3. g = [f EXCEPT !.at = i, !.todo = c, !.found = c]
  BY DEF Arrived
<1> HIDE DEF c, g
<1>4. /\ g.at = i /\ g.todo = c /\ g.found = c /\ g.path = f.path /\ g.event = f.event
      /\ g.stop = "no" /\ g \in Dispatches
  BY <1>1, <1>2, <1>3 DEF Dispatches
<1>5. Place(g) = e
  BY <1>4 DEF Place
<1>6. Found(g, registry[e], order[e])
  BY <1>2, <1>4 DEF Found
<1>7. HeardIn(heard, g.event, e) = <<>>
  BY <1>1, <1>4
<1>8. Called(g, <<>>)
  <2>1. c = SubSeq(c, 1, Len(c)) /\ Len(c) \in Nat
    BY <1>2
  <2>2. 0 \in 0..Len(c) /\ Len(<<>>) = 0 /\ c = SubSeq(c, 0 + 1, Len(c))
    BY <2>1
  <2> HIDE DEF e
  <2> QED
    BY <1>4, <2>2 DEF Called
<1>9. Ahead(g, heard)
  <2> SUFFICES ASSUME NEW k \in 1..Len(f.path), k > i
               PROVE  HeardIn(heard, f.event, f.path[k]) = <<>>
    BY <1>4 DEF Ahead
  <2>1. k >= i
    BY <1>1
  <2> QED
    BY <2>1
<1>10. Sound(g, registry, order, heard)
  BY <1>4, <1>5, <1>6, <1>7, <1>8, <1>9 DEF Sound
<1>11. ASSUME NEW j \in 1..Len(heard), heard[j].once PROVE Around(g, heard[j])
  <2>1. Spent(heard[j], registry[heard[j].at])
    BY <1>11 DEF Expended
  <2> SUFFICES ASSUME NEW k \in 1..Len(c), e = heard[j].at, c[k].order = heard[j].order
               PROVE  FALSE
    BY <1>4, <1>5 DEF Around
  <2>2. PICK m \in 1..Len(registry[e]) : c[k] = registry[e][m]
    BY <1>2
  <2> HIDE DEF e
  <2> QED
    BY <2>1, <2>2 DEF Spent
<1> QED
  BY <1>4, <1>10, <1>11 DEF g

\* A dispatch of which only the progress has changed.
LEMMA SoundAgain ==
  ASSUME NEW f, NEW g, NEW r, NEW o, NEW h, Sound(f, r, o, h),
         g.path = f.path, g.at = f.at, g.found = f.found, g.event = f.event,
         Called(g, HeardIn(h, g.event, Place(g)))
  PROVE  Sound(g, r, o, h)
<1>1. Place(g) = Place(f)
  BY DEF Place
<1>2. Found(g, r[Place(g)], o[Place(g)])
  BY <1>1 DEF Sound, Found
<1>3. Ahead(g, h)
  BY DEF Sound, Ahead
<1> QED
  BY <1>2, <1>3 DEF Sound

\* A dispatch that is as far as it was.
LEMMA FrameKeeps ==
  ASSUME IInv, NEW i \in 1..Len(stack), NEW g \in Dispatches,
         stack' = [stack EXCEPT ![i] = g], i < Len(stack) => g.busy,
         g.event = stack[i].event, g.at \in 1..Len(g.path),
         Sound(g, registry, order, heard),
         \A j \in 1..Len(heard) : heard[j].once => Around(g, heard[j]),
         UNCHANGED <<registry, order, parent, heard, emitted>>
  PROVE  IInv'
<1> USE DEF IInv
<1>1. stack \in Seq(Dispatches) /\ Len(stack) \in Nat
  BY DEF TypeOK
<1>2. /\ stack' \in Seq(Dispatches) /\ Len(stack') = Len(stack) /\ stack'[i] = g
      /\ \A k \in 1..Len(stack) : k # i => stack'[k] = stack[k]
  BY <1>1
<1>3. \A k \in 1..Len(stack') : stack'[k].at \in 1..Len(stack'[k].path)
  BY <1>2, PlaceIs
<1>4. \A k \in DOMAIN stack' : stack'[k].at \in DOMAIN stack'[k].path
  <2>1. DOMAIN stack' = 1..Len(stack')
    BY <1>2
  <2>2. ASSUME NEW k \in DOMAIN stack' PROVE stack'[k].path \in Seq(Emitters)
    <3>1. stack'[k] \in Dispatches
      BY <1>2
    <3> QED
      BY <3>1, DispatchIs
  <2> QED
    BY <1>3, <2>1, <2>2
<1>5. TypeOK'
  BY <1>2, <1>4 DEF TypeOK
<1>6. \A k \in 1..Len(stack) : stack'[k].event = stack[k].event
  BY <1>2
<1>7. Nested'
  <2>1. \A k \in 1..Len(stack) : 1 <= stack'[k].event /\ stack'[k].event <= emitted
    BY <1>6 DEF Nested
  <2>2. \A k \in 1..Len(stack) : k < Len(stack) => stack'[k].busy
    BY <1>2 DEF Nested
  <2>3. \A j, k \in 1..Len(stack) : j < k => stack'[j].event < stack'[k].event
    BY <1>6 DEF Nested
  <2> QED
    BY <1>2, <2>1, <2>2, <2>3 DEF Nested
<1>8. ASSUME NEW k \in 1..Len(stack')
      PROVE  /\ Sound(stack'[k], registry, order, heard)
             /\ \A j \in 1..Len(heard) : heard[j].once => Around(stack'[k], heard[j])
  <2>1. CASE k = i
    BY <1>2, <2>1
  <2>2. CASE k # i
    BY <1>2, <2>2 DEF Dispatching, Expended
  <2> QED
    BY <2>1, <2>2
<1> QED
  BY <1>5, <1>7, <1>8, StackMoves

\* Who stops an event stops what comes after its listener.
LEMMA StopKeeps ==
  ASSUME IInv, NEW i \in Nat, NEW how \in {"after", "immediately"}, Stop(i, how)
  PROVE  IInv'
<1> USE DEF IInv
<1> DEFINE f == stack[i]
           g == [f EXCEPT !.stop = how]
<1>1. /\ stack # <<>> /\ Top.busy /\ i \in DOMAIN stack /\ f.stop # "immediately"
      /\ stack' = [stack EXCEPT ![i].stop = how]
      /\ UNCHANGED <<registry, order, parent, heard, emitted>>
  BY DEF Stop
<1>2. i \in 1..Len(stack) /\ stack' = [stack EXCEPT ![i] = g] /\ Len(stack) \in Nat
  BY <1>1 DEF TypeOK
<1>3. f \in Dispatches /\ f.at \in 1..Len(f.path)
  BY <1>2, PlaceIs
<1>4. f.busy
  <2>1. CASE i = Len(stack)
    BY <1>1, <2>1, TopIs
  <2>2. CASE i # Len(stack)
    BY <1>2, <2>2 DEF Nested
  <2> QED
    BY <2>1, <2>2
<1>5. Sound(f, registry, order, heard)
  BY <1>2 DEF Dispatching
<1>6. \A j \in 1..Len(heard) : heard[j].once => Around(f, heard[j])
  BY <1>2 DEF Expended
<1> HIDE DEF f
<1>7. /\ g \in Dispatches /\ g.path = f.path /\ g.at = f.at /\ g.found = f.found
      /\ g.event = f.event /\ g.todo = f.todo /\ g.busy = f.busy /\ g.stop = how
  BY <1>3 DEF Dispatches
<1> HIDE DEF g
<1>8. Place(g) = Place(f)
  BY <1>7 DEF Place
<1>9. Called(g, HeardIn(heard, g.event, Place(g)))
  BY <1>1, <1>4, <1>5, <1>7, <1>8 DEF Sound, Called
<1>10. Sound(g, registry, order, heard)
  BY <1>5, <1>7, <1>9, SoundAgain
<1>11. \A j \in 1..Len(heard) : heard[j].once => Around(g, heard[j])
  BY <1>6, <1>7, <1>8 DEF Around
<1> QED
  BY <1>1, <1>2, <1>3, <1>4, <1>7, <1>10, <1>11, FrameKeeps DEF f

\* A listener that returns leaves the others to be called, unless it stopped its event.
LEMMA ReturnKeeps ==
  ASSUME IInv, NEW throws \in BOOLEAN, Return(throws)
  PROVE  IInv'
<1> USE DEF IInv
<1> DEFINE i == Len(stack)
           f == stack[i]
           g == [f EXCEPT !.busy = FALSE, !.failed = @ \/ throws,
                          !.todo = IF f.stop = "immediately" THEN <<>> ELSE @]
<1>1. stack # <<>> /\ UNCHANGED <<registry, order, parent, heard, emitted>>
  BY DEF Return
<1>2. i \in Nat /\ i \in 1..Len(stack) /\ Top = f
  BY <1>1, TopIs
<1>3. stack' = [stack EXCEPT ![i] = g]
  BY <1>2 DEF Return, Replace
<1>4. f \in Dispatches /\ f.at \in 1..Len(f.path)
  BY <1>2, PlaceIs
<1>5. Sound(f, registry, order, heard)
  BY <1>2 DEF Dispatching
<1>6. \A j \in 1..Len(heard) : heard[j].once => Around(f, heard[j])
  BY <1>2 DEF Expended
<1> HIDE DEF f
<1>7. /\ g \in Dispatches /\ g.path = f.path /\ g.at = f.at /\ g.found = f.found
      /\ g.event = f.event /\ g.stop = f.stop
      /\ g.todo = IF f.stop = "immediately" THEN <<>> ELSE f.todo
  <2> DEFINE t == IF f.stop = "immediately" THEN <<>> ELSE f.todo
             b == f.failed \/ throws
  <2>1. t \in Seq(Definitions) /\ b \in BOOLEAN
    BY <1>4, DispatchIs
  <2>2. g = [f EXCEPT !.busy = FALSE, !.failed = b, !.todo = t]
    OBVIOUS
  <2> HIDE DEF t, b, g
  <2>3. /\ g \in Dispatches /\ g.path = f.path /\ g.at = f.at /\ g.found = f.found
        /\ g.event = f.event /\ g.stop = f.stop /\ g.todo = t
    BY <1>4, <2>1, <2>2 DEF Dispatches
  <2> QED
    BY <2>3 DEF t
<1> HIDE DEF g
<1>8. Place(g) = Place(f)
  BY <1>7 DEF Place
<1>9. Called(g, HeardIn(heard, g.event, Place(g)))
  <2> DEFINE h == HeardIn(heard, f.event, Place(f))
  <2>1. Called(f, h)
    BY <1>5 DEF Sound
  <2> HIDE DEF h
  <2>2. Called(g, h)
    <3>1. CASE f.stop = "immediately"
      BY <1>7, <2>1, <3>1 DEF Called
    <3>2. CASE f.stop # "immediately"
      BY <1>7, <2>1, <3>2 DEF Called
    <3> QED
      BY <3>1, <3>2
  <2> QED
    BY <1>7, <1>8, <2>2 DEF h
<1>10. Sound(g, registry, order, heard)
  BY <1>5, <1>7, <1>9, SoundAgain
<1>11. \A j \in 1..Len(heard) : heard[j].once => Around(g, heard[j])
  <2>1. f.stop = "immediately" => Len(g.todo) = 0
    BY <1>7
  <2>2. \A k \in 1..Len(g.todo) : g.todo = f.todo
    BY <1>7, <2>1
  <2> QED
    BY <1>6, <1>7, <1>8, <2>2 DEF Around
<1>12. ~(i < Len(stack)) /\ g.event = stack[i].event /\ g.at \in 1..Len(g.path)
  BY <1>2, <1>4, <1>7 DEF f
<1> HIDE DEF i
<1> QED
  BY <1>1, <1>2, <1>3, <1>7, <1>10, <1>11, <1>12, FrameKeeps

\* An event that goes on comes to an emitter that has not heard of it.
LEMMA BubbleKeeps == IInv /\ Bubble => IInv'
<1> SUFFICES ASSUME IInv, Bubble PROVE IInv'
  OBVIOUS
<1> USE DEF IInv
<1> DEFINE i == Len(stack)
           f == stack[i]
           g == Arrived(f, f.at + 1)
<1>1. stack # <<>> /\ ~Done /\ UNCHANGED <<registry, order, parent, heard, emitted>>
  BY DEF Bubble
<1>2. i \in Nat /\ i \in 1..Len(stack) /\ Top = f
  BY <1>1, TopIs
<1>3. stack' = [stack EXCEPT ![i] = g]
  BY <1>2 DEF Bubble, Replace
<1>4. f \in Dispatches /\ f.at \in 1..Len(f.path)
  BY <1>2, PlaceIs
<1>5. Sound(f, registry, order, heard)
  BY <1>2 DEF Dispatching
<1>6. f.stop = "no" /\ f.at # Len(f.path)
  BY <1>1, <1>2 DEF Done
<1> HIDE DEF f
<1>7. f.at + 1 \in 1..Len(f.path) /\ f.at \in Nat /\ f.path \in Seq(Emitters)
  <2>1. f.path \in Seq(Emitters)
    BY <1>4, DispatchIs
  <2> QED
    BY <1>4, <1>6, <2>1
<1>8. \A k \in 1..Len(f.path) : k >= f.at + 1 => HeardIn(heard, f.event, f.path[k]) = <<>>
  <2>1. \A k \in 1..Len(f.path) : k >= f.at + 1 => k > f.at
    BY <1>7
  <2> QED
    BY <1>5, <2>1 DEF Sound, Ahead
<1>9. /\ g \in Dispatches /\ g.at = f.at + 1 /\ g.path = f.path /\ g.event = f.event
      /\ Sound(g, registry, order, heard)
      /\ \A j \in 1..Len(heard) : heard[j].once => Around(g, heard[j])
  BY <1>4, <1>5, <1>6, <1>7, <1>8, ArrivedIs DEF Sound
<1> HIDE DEF g
<1>10. ~(i < Len(stack)) /\ g.event = stack[i].event /\ g.at \in 1..Len(g.path)
  BY <1>2, <1>7, <1>9 DEF f
<1> HIDE DEF i
<1> QED
  BY <1>1, <1>2, <1>3, <1>9, <1>10, FrameKeeps

\* A stack without its last element.
LEMMA FrontElements ==
  ASSUME NEW S, NEW s \in Seq(S), s # <<>>
  PROVE  /\ Front(s) \in Seq(S) /\ Len(Front(s)) = Len(s) - 1
         /\ \A i \in 1..(Len(s) - 1) : Front(s)[i] = s[i]
<1> DEFINE m == Len(s) - 1
<1>1. m \in Nat /\ \A i \in 1..m : s[i] \in S
  OBVIOUS
<1> HIDE DEF m
<1>2. /\ SubSeq(s, 1, m) \in Seq(S)
      /\ Len(SubSeq(s, 1, m)) = IF 1 <= m THEN m - 1 + 1 ELSE 0
      /\ \A i \in 1..(m - 1 + 1) : SubSeq(s, 1, m)[i] = s[1 + i - 1]
  <2>1. 1 \in Int /\ m \in Int
    BY <1>1
  <2> QED
    BY <1>1, <2>1, SubSeqProperties
<1>3. /\ Len(SubSeq(s, 1, m)) = m
      /\ \A i \in 1..m : SubSeq(s, 1, m)[i] = s[i]
  BY <1>1, <1>2
<1> QED
  BY <1>2, <1>3 DEF Front, m

\* A dispatch that is over leaves those around it as they are.
LEMMA FinishKeeps == IInv /\ Finish => IInv'
<1> SUFFICES ASSUME IInv, Finish PROVE IInv'
  OBVIOUS
<1> USE DEF IInv
<1>1. /\ stack # <<>> /\ stack' = Front(stack)
      /\ UNCHANGED <<registry, order, parent, heard, emitted>>
  BY DEF Finish
<1>2. stack \in Seq(Dispatches) /\ Len(stack) \in Nat /\ Len(stack) >= 1
  BY <1>1 DEF TypeOK
<1>3. /\ stack' \in Seq(Dispatches) /\ Len(stack') = Len(stack) - 1
      /\ \A k \in 1..Len(stack') : k \in 1..Len(stack) /\ k < Len(stack) /\ stack'[k] = stack[k]
      /\ DOMAIN stack' = 1..Len(stack') /\ DOMAIN stack = 1..Len(stack)
  <2>1. /\ stack' \in Seq(Dispatches) /\ Len(stack') = Len(stack) - 1
        /\ \A k \in 1..(Len(stack) - 1) : stack'[k] = stack[k]
    BY <1>1, <1>2, FrontElements
  <2>2. DOMAIN stack' = 1..Len(stack') /\ DOMAIN stack = 1..Len(stack)
    BY <1>2, <2>1
  <2>3. \A k \in 1..Len(stack') : k \in 1..Len(stack) /\ k < Len(stack) /\ stack'[k] = stack[k]
    BY <1>2, <2>1
  <2> QED
    BY <2>1, <2>2, <2>3
<1>4. TypeOK'
  BY <1>1, <1>3 DEF TypeOK
<1>5. Nested'
  BY <1>1, <1>3 DEF Nested
<1>6. ASSUME NEW k \in 1..Len(stack')
      PROVE  /\ Sound(stack'[k], registry, order, heard)
             /\ \A j \in 1..Len(heard) : heard[j].once => Around(stack'[k], heard[j])
  BY <1>3 DEF Dispatching, Expended
<1> QED
  BY <1>1, <1>4, <1>5, <1>6, StackMoves

\* An event that begins is nobody's yet.
LEMMA EmitKeeps ==
  ASSUME IInv, NEW e \in Emitters, NEW t \in Types, NEW bubbles \in BOOLEAN,
         Emit(e, t, bubbles)
  PROVE  IInv'
<1> USE DEF IInv
<1> DEFINE path == IF bubbles THEN PathFrom(e) ELSE <<e>>
           f == [event |-> emitted + 1, type |-> t, at |-> 0, todo |-> <<>>, found |-> <<>>,
                 path |-> path, busy |-> FALSE, stop |-> "no", failed |-> FALSE]
           g == Arrived(f, 1)
           N == Len(stack)
<1>1. /\ CodeRuns /\ emitted < MaxEvents
      /\ stack' = Append(stack, g) /\ emitted' = emitted + 1
      /\ UNCHANGED <<registry, order, parent, heard>>
  BY DEF Emit
<1>2. path \in Seq(Emitters) /\ 1 \in 1..Len(path) /\ Distinct(path)
  <2>1. CASE bubbles
    <3>1. Typed
      BY DEF TypeOK, Typed
    <3>2. Way(PathFrom(e), e)
      BY <3>1, PathIsWay
    <3> QED
      BY <2>1, <3>2 DEF Way, Distinct
  <2>2. CASE ~bubbles
    <3>1. path = <<e>>
      BY <2>2
    <3>2. <<e>> \in Seq(Emitters) /\ Len(<<e>>) = 1 /\ 1 \in 1..Len(<<e>>)
      OBVIOUS
    <3>3. Distinct(<<e>>)
      BY DEF Distinct
    <3> HIDE DEF path
    <3> QED
      BY <3>1, <3>2, <3>3
  <2> QED
    BY <2>1, <2>2
<1>3. emitted \in Nat /\ heard \in Seq(Invocations) /\ stack \in Seq(Dispatches) /\ N \in Nat
  BY DEF TypeOK
<1> HIDE DEF path
<1>4. f \in Dispatches
  BY <1>2, <1>3 DEF Dispatches
<1>5. f.path = path /\ f.event = emitted + 1 /\ f.stop = "no"
  OBVIOUS
<1> HIDE DEF f
<1>6. \A i \in 1..Len(heard) : heard[i].event # emitted + 1
  <2> SUFFICES ASSUME NEW i \in 1..Len(heard) PROVE heard[i].event # emitted + 1
    OBVIOUS
  <2>1. heard[i].event \in Nat
    BY <1>3, InvocationIs
  <2>2. heard[i].event <= emitted
    BY DEF Chronicle
  <2> QED
    BY <1>3, <2>1, <2>2
<1>7. \A k \in 1..Len(f.path) : k >= 1 => HeardIn(heard, f.event, f.path[k]) = <<>>
  BY <1>3, <1>5, <1>6, HeardNone
<1>8. /\ g \in Dispatches /\ g.at = 1 /\ g.path = path /\ g.event = emitted + 1
      /\ Sound(g, registry, order, heard)
      /\ \A j \in 1..Len(heard) : heard[j].once => Around(g, heard[j])
  BY <1>2, <1>4, <1>5, <1>7, ArrivedIs
<1> HIDE DEF g
<1>9. /\ stack' \in Seq(Dispatches) /\ Len(stack') = N + 1 /\ stack'[N + 1] = g
      /\ \A k \in 1..N : stack'[k] = stack[k]
      /\ DOMAIN stack' = 1..(N + 1) /\ DOMAIN stack = 1..N
  BY <1>1, <1>3, <1>8
<1>10. \A k \in 1..Len(stack') : k \in 1..N \/ k = N + 1
  BY <1>3, <1>9
<1>11. \A k \in 1..N : /\ stack[k].event \in Nat /\ 1 <= stack[k].event
                       /\ stack[k].event <= emitted /\ stack[k].busy
  <2> SUFFICES ASSUME NEW k \in 1..N
               PROVE  /\ stack[k].event \in Nat /\ 1 <= stack[k].event
                      /\ stack[k].event <= emitted /\ stack[k].busy
    OBVIOUS
  <2>1. stack[k] \in Dispatches
    BY <1>3
  <2>2. stack # <<>>
    BY <1>3
  <2>3. Top.busy /\ Top = stack[N]
    BY <1>1, <2>2, TopIs DEF CodeRuns, Top
  <2>4. stack[k].busy
    BY <1>3, <2>3 DEF Nested
  <2> QED
    BY <2>1, <2>4, DispatchIs DEF Nested
<1>12. TypeOK'
  <2>1. emitted' \in 0..MaxEvents
    BY <1>1, <1>3, EmitterAssumption
  <2>2. 1 \in DOMAIN path
    BY <1>2
  <2>3. \A k \in 1..(N + 1) : stack'[k].at \in DOMAIN stack'[k].path
    <3> SUFFICES ASSUME NEW k \in 1..(N + 1) PROVE stack'[k].at \in DOMAIN stack'[k].path
      OBVIOUS
    <3>1. CASE k \in 1..N
      BY <1>9, <3>1 DEF TypeOK
    <3>2. CASE k = N + 1
      BY <1>8, <1>9, <2>2, <3>2
    <3> QED
      BY <1>3, <3>1, <3>2
  <2> QED
    BY <1>1, <1>9, <2>1, <2>3 DEF TypeOK
<1>13. Nested'
  <2>1. ASSUME NEW k \in 1..Len(stack')
        PROVE  /\ 1 <= stack'[k].event /\ stack'[k].event <= emitted'
               /\ k < Len(stack') => stack'[k].busy
    <3>1. CASE k \in 1..N
      BY <1>1, <1>3, <1>9, <1>11, <3>1
    <3>2. CASE k = N + 1
      BY <1>1, <1>3, <1>8, <1>9, <3>2
    <3> QED
      BY <1>10, <3>1, <3>2
  <2>2. ASSUME NEW j \in 1..Len(stack'), NEW k \in 1..Len(stack'), j < k
        PROVE  stack'[j].event < stack'[k].event
    <3>1. j \in 1..N
      BY <1>3, <1>9, <2>2
    <3>2. CASE k \in 1..N
      BY <1>9, <2>2, <3>1, <3>2 DEF Nested
    <3>3. CASE k = N + 1
      BY <1>3, <1>8, <1>9, <1>11, <3>1, <3>3
    <3> QED
      BY <1>10, <3>2, <3>3
  <2> QED
    BY <2>1, <2>2 DEF Nested
<1>14. ASSUME NEW k \in 1..Len(stack')
       PROVE  /\ Sound(stack'[k], registry, order, heard)
              /\ \A j \in 1..Len(heard) : heard[j].once => Around(stack'[k], heard[j])
  <2>1. CASE k \in 1..N
    BY <1>9, <2>1 DEF Dispatching, Expended
  <2>2. CASE k = N + 1
    BY <1>8, <1>9, <2>2
  <2> QED
    BY <1>10, <2>1, <2>2
<1> QED
  BY <1>1, <1>12, <1>13, <1>14, StackMoves

\* What one more invocation adds to the records.
LEMMA HeardMore ==
  ASSUME NEW h \in Seq(Invocations), NEW x \in Invocations, NEW v, NEW e
  PROVE  HeardIn(Append(h, x), v, e) =
           IF x.event = v /\ x.at = e THEN Append(HeardIn(h, v, e), x) ELSE HeardIn(h, v, e)
<1> DEFINE T == {y \in Invocations : y.event = v /\ y.at = e}
<1>1. Keeping(Append(h, x), T) = Keep(x, T, Keeping(h, T))
  <2> HIDE DEF T
  <2> QED
    BY KeepingMore
<1>2. x \in T <=> x.event = v /\ x.at = e
  OBVIOUS
<1> HIDE DEF T
<1>3. Keeping(Append(h, x), T) =
        IF x.event = v /\ x.at = e THEN Append(Keeping(h, T), x) ELSE Keeping(h, T)
  BY <1>1, <1>2 DEF Keep
<1> QED
  BY <1>3 DEF HeardIn, T

\* The first listener that is to be called is the next one that was found.
LEMMA NextIs ==
  ASSUME NEW f \in Dispatches, NEW h, NEW r, NEW o \in Nat, Found(f, r, o), Called(f, h),
         ~f.busy, f.todo # <<>>
  PROVE  LET d == Head(f.todo)
         IN  /\ d \in Definitions /\ d.order <= o /\ 1 <= Len(f.todo) /\ f.todo[1] = d
             /\ Len(h) + 1 \in 1..Len(f.found) /\ f.found[Len(h) + 1] = d
             /\ Tail(f.todo) \in Seq(Definitions)
             /\ Tail(f.todo) = SubSeq(f.found, Len(h) + 2, Len(f.found))
             /\ Len(h) \in Nat /\ \A i \in 1..Len(h) : h[i].order = f.found[i].order
             /\ \A i \in 1..Len(f.found) : f.found[i].order \in Nat
             /\ \A i \in 1..Len(Tail(f.todo)) :
                  /\ i + 1 \in 1..Len(f.todo) /\ Tail(f.todo)[i] = f.todo[i + 1]
                  /\ Tail(f.todo)[i].order > d.order
<1> DEFINE c == f.found
           u == f.todo
<1>1. c \in Seq(Definitions) /\ u \in Seq(Definitions) /\ Len(c) \in Nat /\ Len(u) \in Nat
  BY DispatchIs
<1>2. PICK n \in 0..Len(c) : /\ Len(h) = n /\ \A i \in 1..n : h[i].order = c[i].order
                             /\ u = SubSeq(c, n + 1, Len(c))
  BY DEF Called
<1>3. \A i \in 1..Len(c) : c[i] \in Definitions /\ c[i].order \in Nat /\ c[i].order <= o
  <2> SUFFICES ASSUME NEW i \in 1..Len(c)
               PROVE  c[i] \in Definitions /\ c[i].order \in Nat /\ c[i].order <= o
    OBVIOUS
  <2>1. c[i] \in Definitions
    BY <1>1
  <2> QED
    BY <2>1, DefinitionIs DEF Found, Counted
<1>4. Increasing(c) /\ u # <<>>
  BY DEF Found
<1> HIDE DEF c, u
<1>5. n \in Nat /\ n <= Len(c) /\ Len(u) = Len(c) - n /\ \A i \in 1..Len(u) : u[i] = c[n + i]
  BY <1>1, <1>2
<1>6. Len(u) >= 1 /\ n + 1 \in 1..Len(c)
  <2>1. Len(u) # 0
    BY <1>1, <1>4
  <2> QED
    BY <1>1, <1>5, <2>1
<1>7. Head(u) = u[1] /\ u[1] = c[n + 1]
  BY <1>1, <1>4, <1>5, <1>6
<1>8. /\ Tail(u) \in Seq(Definitions) /\ Len(Tail(u)) = Len(u) - 1
      /\ \A i \in 1..(Len(u) - 1) : Tail(u)[i] = u[i + 1]
  BY <1>1, <1>4
<1>9. Tail(u) = SubSeq(c, n + 2, Len(c))
  <2> DEFINE s == SubSeq(c, n + 2, Len(c))
  <2>1. s \in Seq(Definitions) /\ Len(s) = Len(c) - (n + 1)
        /\ \A i \in 1..(Len(c) - (n + 1)) : s[i] = c[(n + 1) + i]
    <3>1. Len(s) = Len(c) - (n + 1)
      BY <1>1, <1>5, <1>6
    <3>2. \A i \in 1..(Len(c) - (n + 1)) : s[i] = c[(n + 1) + i]
      BY <1>1, <1>5, <1>6
    <3>3. s \in Seq(Definitions)
      BY <1>1, <1>5, <1>6
    <3> QED
      BY <3>1, <3>2, <3>3
  <2> HIDE DEF s
  <2>2. Len(Tail(u)) = Len(s)
    BY <1>1, <1>5, <1>8, <2>1
  <2>3. ASSUME NEW i \in 1..Len(s) PROVE Tail(u)[i] = s[i]
    <3>1. i \in 1..(Len(u) - 1) /\ i + 1 \in 1..Len(u) /\ n + (i + 1) = (n + 1) + i
      BY <1>1, <1>5, <1>6, <2>1
    <3>2. Tail(u)[i] = c[n + (i + 1)]
      BY <1>5, <1>8, <3>1
    <3>3. s[i] = c[(n + 1) + i]
      BY <2>1
    <3> QED
      BY <3>1, <3>2, <3>3
  <2>4. Tail(u) = s
    BY <1>8, <2>1, <2>2, <2>3, SeqEqual
  <2> QED
    BY <2>4 DEF s
<1>10. ASSUME NEW i \in 1..Len(Tail(u))
       PROVE  /\ i + 1 \in 1..Len(u) /\ Tail(u)[i] = u[i + 1]
              /\ Tail(u)[i].order > c[n + 1].order
  <2>1. i \in 1..(Len(u) - 1) /\ i + 1 \in 1..Len(u) /\ n + (i + 1) \in 1..Len(c)
        /\ n + 1 < n + (i + 1)
    BY <1>1, <1>5, <1>6, <1>8
  <2>2. Tail(u)[i] = u[i + 1] /\ u[i + 1] = c[n + (i + 1)]
    BY <1>5, <1>8, <2>1
  <2>3. c[n + 1].order < c[n + (i + 1)].order
    BY <1>4, <1>6, <2>1 DEF Increasing
  <2>4. c[n + 1].order \in Nat /\ c[n + (i + 1)].order \in Nat
    BY <1>3, <1>6, <2>1
  <2> QED
    BY <2>1, <2>2, <2>3, <2>4
<1> QED
  BY <1>2, <1>3, <1>5, <1>6, <1>7, <1>8, <1>9, <1>10 DEF c, u

\* The dispatch that calls a listener is one further.
LEMMA CalledMore ==
  ASSUME NEW f \in Dispatches, NEW h, NEW r, NEW o \in Nat, Found(f, r, o), Called(f, h),
         ~f.busy, f.todo # <<>>, NEW x, x.order = Head(f.todo).order,
         NEW k, Len(k) = Len(h) + 1, k[Len(h) + 1] = x, \A i \in 1..Len(h) : k[i] = h[i],
         NEW g, g.found = f.found, g.todo = Tail(f.todo), g.busy
  PROVE  Called(g, k) /\ Increasing(k)
<1> DEFINE d == Head(f.todo)
<1>1. /\ f.found[Len(h) + 1] = d
      /\ Tail(f.todo) = SubSeq(f.found, Len(h) + 2, Len(f.found))
      /\ Len(h) \in Nat /\ Len(h) + 1 \in 1..Len(f.found)
      /\ \A i \in 1..Len(h) : h[i].order = f.found[i].order
  BY NextIs
<1>2. f.found \in Seq(Definitions) /\ Len(f.found) \in Nat
  BY DispatchIs
<1>3. \A i \in 1..Len(k) : k[i].order = f.found[i].order
  <2> SUFFICES ASSUME NEW i \in 1..Len(k) PROVE k[i].order = f.found[i].order
    OBVIOUS
  <2>1. i \in 1..Len(h) \/ i = Len(h) + 1
    BY <1>1
  <2> QED
    BY <1>1, <2>1
<1>4. Len(k) \in 0..Len(f.found) /\ Len(k) + 1 = Len(h) + 2
  BY <1>1, <1>2
<1>5. g.todo = SubSeq(g.found, Len(k) + 1, Len(g.found))
  BY <1>1, <1>4
<1>6. Called(g, k)
  BY <1>3, <1>4, <1>5 DEF Called
<1>7. Increasing(f.found)
  BY DEF Found
<1>8. \A i \in 1..Len(k) : i \in 1..Len(f.found)
  BY <1>2, <1>4
<1>9. Increasing(k)
  BY <1>3, <1>7, <1>8 DEF Increasing
<1> QED
  BY <1>6, <1>9

\* A call goes to the next listener that was found, which is not registered any
\* more if it was to be called once.
LEMMA InvokeKeeps == IInv /\ Invoke => IInv'
<1> SUFFICES ASSUME IInv, Invoke PROVE IInv'
  OBVIOUS
<1> USE DEF IInv
<1> DEFINE N == Len(stack)
           f == stack[N]
           d == Head(f.todo)
           e == Place(f)
           g == [f EXCEPT !.busy = TRUE, !.todo = Tail(@)]
           x == [event |-> f.event, at |-> e, order |-> d.order, once |-> d.once]
           h == HeardIn(heard, f.event, e)
           M == Len(heard)
<1>1. stack # <<>> /\ UNCHANGED <<order, parent, emitted>>
  BY DEF Invoke
<1>2. N \in Nat /\ N \in 1..N /\ Top = f
  BY <1>1, TopIs
<1>3. /\ ~f.busy /\ f.todo # <<>> /\ stack' = [stack EXCEPT ![N] = g]
      /\ heard' = Append(heard, x)
      /\ registry' = IF d.once THEN Without(e, d.pattern, d.listener) ELSE registry
  BY <1>2 DEF Invoke, Replace, Heard, Place
<1>4. f \in Dispatches /\ f.at \in 1..Len(f.path) /\ e \in Emitters
  BY <1>2, PlaceIs
<1>5. Sound(f, registry, order, heard)
  BY <1>2 DEF Dispatching
<1>6. /\ Distinct(f.path) /\ Found(f, registry[e], order[e]) /\ Called(f, h)
      /\ Ahead(f, heard)
  BY <1>5 DEF Sound
<1>7. /\ registry \in [Emitters -> Seq(Definitions)] /\ order \in [Emitters -> Nat]
      /\ stack \in Seq(Dispatches) /\ heard \in Seq(Invocations) /\ M \in Nat
      /\ registry[e] \in Seq(Definitions) /\ order[e] \in Nat /\ emitted \in Nat
  BY <1>4 DEF TypeOK
<1>8. /\ d \in Definitions /\ d.order <= order[e] /\ 1 <= Len(f.todo) /\ f.todo[1] = d
      /\ Len(h) + 1 \in 1..Len(f.found) /\ f.found[Len(h) + 1] = d
      /\ Tail(f.todo) \in Seq(Definitions)
      /\ \A i \in 1..Len(Tail(f.todo)) :
           /\ i + 1 \in 1..Len(f.todo) /\ Tail(f.todo)[i] = f.todo[i + 1]
           /\ Tail(f.todo)[i].order > d.order
  <2> HIDE DEF h, e, f
  <2> QED
    BY <1>3, <1>4, <1>6, <1>7, NextIs
<1>9. f.event \in Nat /\ 1 <= f.event /\ f.event <= emitted /\ d.order \in Nat /\ d.once \in BOOLEAN
  <2>1. 1 <= f.event /\ f.event <= emitted
    BY <1>2 DEF Nested
  <2> HIDE DEF d, f
  <2> QED
    BY <1>4, <1>8, <2>1, DispatchIs, DefinitionIs
<1> HIDE DEF N, f, d, e, h, M
<1>10. /\ x \in Invocations /\ x.event = f.event /\ x.at = e /\ x.order = d.order
       /\ x.once = d.once
  BY <1>4, <1>9 DEF Invocations
<1> HIDE DEF x
<1>11. /\ g \in Dispatches /\ g.event = f.event /\ g.path = f.path /\ g.at = f.at
       /\ g.found = f.found /\ g.todo = Tail(f.todo) /\ g.busy = TRUE
  BY <1>4, <1>8 DEF Dispatches
<1> HIDE DEF g
<1>12. Place(g) = e
  BY <1>11 DEF Place, e
<1>13. /\ heard' \in Seq(Invocations) /\ Len(heard') = M + 1 /\ heard'[M + 1] = x
       /\ \A i \in 1..M : heard'[i] = heard[i]
       /\ \A i \in 1..(M + 1) : i \in 1..M \/ i = M + 1
  BY <1>3, <1>7, <1>10 DEF M
<1>14. /\ stack' \in Seq(Dispatches) /\ Len(stack') = N /\ stack'[N] = g
       /\ \A k \in 1..N : k # N => stack'[k] = stack[k]
       /\ DOMAIN stack' = 1..N /\ DOMAIN stack = 1..N
  BY <1>2, <1>3, <1>7, <1>11 DEF N
<1>15. /\ registry' \in [Emitters -> Seq(Definitions)] /\ Registry' /\ Registering
       /\ d.once => \A j \in 1..Len(registry'[e]) :
                      ~Same(registry'[e][j], d.pattern, d.listener)
  <2>1. CASE d.once
    BY <1>1, <1>3, <1>4, <2>1, WithoutIs
  <2>2. CASE ~d.once
    <3>1. registry' = registry
      BY <1>3, <2>2
    <3> QED
      BY <1>1, <1>7, <2>2, <3>1 DEF Registry, Registering, Follows
  <2> QED
    BY <2>1, <2>2
<1>16. TypeOK'
  <2>1. \A k \in DOMAIN stack' : stack'[k].at \in DOMAIN stack'[k].path
    <3> SUFFICES ASSUME NEW k \in 1..N PROVE stack'[k].at \in DOMAIN stack'[k].path
      BY <1>14
    <3>1. CASE k = N
      BY <1>2, <1>11, <1>14, <3>1 DEF TypeOK, f
    <3>2. CASE k # N
      BY <1>14, <3>2 DEF TypeOK
    <3> QED
      BY <3>1, <3>2
  <2> QED
    BY <1>1, <1>13, <1>14, <1>15, <2>1 DEF TypeOK
<1>17. Rooted'
  BY <1>1 DEF Rooted
<1>18. \A k \in 1..N : stack'[k].event = stack[k].event
  BY <1>11, <1>14 DEF f
<1>19. Nested'
  <2>1. \A k \in 1..N : 1 <= stack'[k].event /\ stack'[k].event <= emitted
    BY <1>18 DEF Nested, N
  <2>2. \A k \in 1..N : k < N => stack'[k].busy
    <3>1. \A k \in 1..N : k < N => k # N /\ stack[k].busy
      BY <1>2 DEF Nested, N
    <3> QED
      BY <1>14, <3>1
  <2>3. \A j, k \in 1..N : j < k => stack'[j].event < stack'[k].event
    BY <1>18 DEF Nested, N
  <2> QED
    BY <1>1, <1>14, <2>1, <2>2, <2>3 DEF Nested
<1>20. \A v, y : HeardIn(heard', v, y) =
                   IF f.event = v /\ e = y THEN Append(HeardIn(heard, v, y), x)
                   ELSE HeardIn(heard, v, y)
  BY <1>3, <1>7, <1>10, HeardMore
<1> DEFINE k1 == Append(h, x)
<1>21. h \in Seq(Invocations)
  <2> DEFINE T == {y \in Invocations : y.event = f.event /\ y.at = e}
  <2>1. h = Keeping(heard, T)
    BY DEF h, HeardIn
  <2> HIDE DEF T
  <2> QED
    BY <1>7, <2>1, KeepingMembers
<1>22. /\ Len(k1) = Len(h) + 1 /\ k1[Len(h) + 1] = x
       /\ \A i \in 1..Len(h) : k1[i] = h[i]
  BY <1>10, <1>21
<1>23. HeardIn(heard', f.event, e) = k1
  BY <1>20 DEF h
<1> HIDE DEF k1
<1>24. Called(g, k1) /\ Increasing(k1)
  BY <1>3, <1>4, <1>6, <1>7, <1>10, <1>11, <1>22, CalledMore DEF d
<1>25. Chronicle'
  <2>1. ASSUME NEW i \in 1..Len(heard')
        PROVE  heard'[i].event <= emitted /\ heard'[i].order <= order[heard'[i].at]
    <3>1. CASE i \in 1..M
      BY <1>13, <3>1 DEF Chronicle, M
    <3>2. CASE i = M + 1
      BY <1>8, <1>9, <1>10, <1>13, <3>2
    <3> QED
      BY <1>13, <3>1, <3>2
  <2>2. ASSUME NEW v \in 1..emitted, NEW y \in Emitters
        PROVE  Increasing(HeardIn(heard', v, y))
    <3>1. CASE f.event = v /\ e = y
      BY <1>23, <1>24, <3>1
    <3>2. CASE ~(f.event = v /\ e = y)
      <4>1. HeardIn(heard', v, y) = HeardIn(heard, v, y)
        BY <1>20, <3>2
      <4> QED
        BY <4>1 DEF Chronicle
    <3> QED
      BY <3>1, <3>2
  <2> QED
    BY <1>1, <2>1, <2>2 DEF Chronicle
<1>26. ASSUME NEW k \in 1..N, k # N
       PROVE  /\ stack[k] \in Dispatches /\ Place(stack[k]) \in Emitters
              /\ stack[k].event \in Nat /\ stack[k].event < f.event
  <2>1. stack[k] \in Dispatches /\ Place(stack[k]) \in Emitters
    BY PlaceIs DEF N
  <2>2. k < N
    BY <1>2, <1>26
  <2>3. stack[k].event < stack[N].event
    BY <1>2, <2>2 DEF Nested, N
  <2> QED
    BY <2>1, <2>3, DispatchIs DEF f
<1>27. ASSUME NEW k \in 1..N PROVE Sound(stack'[k], registry', order, heard')
  <2>1. CASE k = N
    <3>1. Found(g, registry'[e], order[e])
      <4>1. Found(f, registry'[e], order[e])
        BY <1>1, <1>4, <1>6, <1>7, <1>15, FoundStays DEF Registering
      <4> QED
        BY <1>11, <4>1 DEF Found
    <3>2. Called(g, HeardIn(heard', g.event, Place(g)))
      BY <1>11, <1>12, <1>23, <1>24
    <3>3. Ahead(g, heard')
      <4> SUFFICES ASSUME NEW m \in 1..Len(f.path), m > f.at
                   PROVE  HeardIn(heard', f.event, f.path[m]) = <<>>
        BY <1>11 DEF Ahead
      <4>1. f.path[m] # e
        BY <1>4, <1>6 DEF Distinct, e, Place
      <4>2. HeardIn(heard', f.event, f.path[m]) = HeardIn(heard, f.event, f.path[m])
        BY <1>20, <4>1
      <4> QED
        BY <1>6, <4>2 DEF Ahead
    <3>4. Sound(g, registry', order, heard')
      BY <1>6, <1>11, <1>12, <3>1, <3>2, <3>3 DEF Sound
    <3> QED
      BY <1>14, <2>1, <3>4
  <2>2. CASE k # N
    <3> DEFINE s == stack[k]
               p == Place(s)
    <3>1. s \in Dispatches /\ p \in Emitters /\ f.event # s.event
      BY <1>9, <1>26, <2>2
    <3>2. Sound(s, registry, order, heard)
      BY DEF Dispatching, N
    <3> HIDE DEF s
    <3>3. \A y : HeardIn(heard', s.event, y) = HeardIn(heard, s.event, y)
      BY <1>20, <3>1
    <3>4. Found(s, registry'[p], order[p])
      <4>1. /\ Found(s, registry[p], order[p]) /\ order[p] \in Nat
            /\ registry[p] \in Seq(Definitions) /\ registry'[p] \in Seq(Definitions)
            /\ Follows(registry'[p], registry[p], order[p]) /\ order[p] >= order[p]
        BY <1>7, <1>15, <3>1, <3>2 DEF Sound, Registering
      <4> HIDE DEF p
      <4> QED
        BY <3>1, <4>1, FoundStays
    <3>5. Ahead(s, heard')
      BY <3>2, <3>3 DEF Sound, Ahead
    <3>6. Called(s, HeardIn(heard', s.event, p))
      BY <3>2, <3>3 DEF Sound
    <3>7. Sound(s, registry', order, heard')
      BY <3>2, <3>4, <3>5, <3>6 DEF Sound
    <3> QED
      BY <1>14, <2>2, <3>7 DEF s
  <2> QED
    BY <2>1, <2>2
<1>28. Dispatching'
  BY <1>1, <1>14, <1>27 DEF Dispatching
<1>29. ASSUME NEW i \in 1..M, heard[i].once
       PROVE  /\ Spent(heard[i], registry'[heard[i].at])
              /\ \A k \in 1..N : Around(stack'[k], heard[i])
  <2>1. heard[i] \in Invocations
    BY <1>7 DEF M
  <2>2. heard[i].at \in Emitters /\ heard[i].order \in Nat
    BY <2>1, InvocationIs
  <2>3. Spent(heard[i], registry[heard[i].at]) /\ \A k \in 1..N : Around(stack[k], heard[i])
    BY <1>29 DEF Expended, M, N
  <2>4. heard[i].order <= order[heard[i].at]
    BY DEF Chronicle, M
  <2>5. Spent(heard[i], registry'[heard[i].at])
    <3>1. /\ order[heard[i].at] \in Nat
          /\ registry[heard[i].at] \in Seq(Definitions)
          /\ registry'[heard[i].at] \in Seq(Definitions)
          /\ Follows(registry'[heard[i].at], registry[heard[i].at], order[heard[i].at])
      BY <1>7, <1>15, <2>2 DEF Registering
    <3> QED
      BY <2>2, <2>3, <2>4, <3>1, SpentStays
  <2>6. Around(f, heard[i])
    BY <1>2, <2>3 DEF f
  <2>7. Around(g, heard[i])
    BY <1>8, <1>11, <1>12, <2>6 DEF Around, e
  <2>8. ASSUME NEW k \in 1..N PROVE Around(stack'[k], heard[i])
    <3>1. CASE k = N
      BY <1>14, <2>7, <3>1
    <3>2. CASE k # N
      BY <1>14, <2>3, <3>2
    <3> QED
      BY <3>1, <3>2
  <2> QED
    BY <2>5, <2>8
<1>30. ASSUME d.once
       PROVE  /\ Spent(x, registry'[e])
              /\ \A k \in 1..N : Around(stack'[k], x)
  <2>1. ASSUME NEW j \in 1..Len(registry'[e]), registry'[e][j].order = d.order PROVE FALSE
    <3>1. Follows(registry'[e], registry[e], order[e])
      BY <1>4, <1>15 DEF Registering
    <3>2. PICK k \in 1..Len(registry[e]) : registry'[e][j] = registry[e][k]
      <4>1. ~(registry'[e][j].order > order[e])
        BY <1>7, <1>8, <1>9, <2>1
      <4> QED
        BY <3>1, <4>1 DEF Follows
    <3>3. registry[e][k] = d
      BY <1>6, <1>8, <2>1, <3>2 DEF Found
    <3>4. Same(d, d.pattern, d.listener)
      BY DEF Same
    <3> QED
      BY <1>15, <1>30, <3>2, <3>3, <3>4
  <2>2. Spent(x, registry'[e])
    BY <1>10, <2>1 DEF Spent
  <2>3. ASSUME NEW k \in 1..N PROVE Around(stack'[k], x)
    <3>1. CASE k = N
      <4>1. \A i \in 1..Len(g.todo) : g.todo[i].order # d.order
        <5> SUFFICES ASSUME NEW i \in 1..Len(g.todo) PROVE g.todo[i].order # d.order
          OBVIOUS
        <5>1. g.todo[i].order > d.order
          BY <1>8, <1>11
        <5> QED
          BY <1>9, <5>1
      <4>2. Around(g, x)
        BY <1>10, <4>1 DEF Around
      <4> QED
        BY <1>14, <3>1, <4>2
    <3>2. CASE k # N
      <4>1. stack[k].event < x.event
        BY <1>10, <1>26, <3>2
      <4>2. Around(stack[k], x)
        BY <4>1 DEF Around
      <4> QED
        BY <1>14, <3>2, <4>2
    <3> QED
      BY <3>1, <3>2
  <2> QED
    BY <2>2, <2>3
<1>31. Expended'
  <2> SUFFICES ASSUME NEW i \in 1..(M + 1), heard'[i].once
               PROVE  /\ Spent(heard'[i], registry'[heard'[i].at])
                      /\ \A k \in 1..N : Around(stack'[k], heard'[i])
    BY <1>13, <1>14 DEF Expended
  <2>1. CASE i \in 1..M
    BY <1>13, <1>29, <2>1
  <2>2. CASE i = M + 1
    BY <1>10, <1>13, <1>30, <2>2
  <2> QED
    BY <1>13, <2>1, <2>2
<1>32. OnceAgainOnlyAround'
  <2>1. DOMAIN heard' = 1..(M + 1) /\ DOMAIN heard = 1..M
    BY <1>7, <1>13 DEF M
  <2> SUFFICES ASSUME NEW i \in 1..(M + 1), NEW j \in 1..(M + 1),
                      i < j, heard'[i].once, heard'[i].at = heard'[j].at,
                      heard'[i].order = heard'[j].order
               PROVE  heard'[j].event < heard'[i].event
    BY <2>1 DEF OnceAgainOnlyAround
  <2>2. i \in 1..M
    BY <1>7
  <2>3. CASE j \in 1..M
    BY <1>13, <2>1, <2>2, <2>3 DEF OnceAgainOnlyAround
  <2>4. CASE j = M + 1
    <3>1. heard[i].once /\ heard[i].at = e /\ heard[i].order = d.order
      BY <1>10, <1>13, <2>2, <2>4
    <3>2. Around(f, heard[i])
      BY <1>2, <2>2, <3>1 DEF Expended, f, M, N
    <3>3. 1 \in 1..Len(f.todo)
      <4>1. Len(f.todo) \in Nat
        BY <1>4, DispatchIs
      <4> QED
        BY <1>8, <4>1
    <3>4. f.event < heard[i].event
      BY <1>8, <3>1, <3>2, <3>3 DEF Around, e
    <3> QED
      BY <1>10, <1>13, <2>2, <2>4, <3>4
  <2> QED
    BY <1>13, <2>3, <2>4
<1> QED
  BY <1>15, <1>16, <1>17, <1>19, <1>25, <1>28, <1>31, <1>32

\* In the beginning there is nothing.
LEMMA InitHolds == Init => IInv
<1> SUFFICES ASSUME Init PROVE IInv
  OBVIOUS
<1> USE DEF Init
<1>1. Len(<<>>) = 0 /\ stack = <<>> /\ heard = <<>> /\ \A e \in Emitters : registry[e] = <<>>
  OBVIOUS
<1>2. TypeOK
  <2>1. /\ registry \in [Emitters -> Seq(Definitions)] /\ order \in [Emitters -> Nat]
        /\ parent \in [Emitters -> Emitters \cup {NoOne}]
    OBVIOUS
  <2>2. stack \in Seq(Dispatches) /\ heard \in Seq(Invocations) /\ DOMAIN stack = {}
    OBVIOUS
  <2>3. emitted \in 0..MaxEvents
    BY EmitterAssumption
  <2> QED
    BY <2>1, <2>2, <2>3 DEF TypeOK
<1>3. Rooted
  <2> SUFFICES ASSUME NEW S \in SUBSET Emitters, S # {} PROVE \E x \in S : parent[x] \notin S
    BY DEF Rooted
  <2>1. PICK x \in S : TRUE
    OBVIOUS
  <2>2. parent[x] = NoOne /\ NoOne \notin S
    BY EmitterAssumption
  <2> QED
    BY <2>2
<1>4. Registry
  BY <1>1 DEF Registry, Increasing, Counted
<1>5. Nested /\ Dispatching
  BY <1>1 DEF Nested, Dispatching
<1>6. Chronicle /\ Expended /\ OnceAgainOnlyAround
  BY <1>1 DEF Chronicle, Expended, OnceAgainOnlyAround
<1> QED
  BY <1>2, <1>3, <1>4, <1>5, <1>6 DEF IInv

\* Nothing happens.
LEMMA StutterKeeps == IInv /\ UNCHANGED vars => IInv'
<1> SUFFICES ASSUME IInv, UNCHANGED vars PROVE IInv'
  OBVIOUS
<1> USE DEF IInv, vars
<1>1. TypeOK' /\ Rooted' /\ Registry' /\ Nested' /\ OnceAgainOnlyAround'
  BY DEF TypeOK, Rooted, Registry, Nested, OnceAgainOnlyAround
<1>2. Dispatching' /\ Chronicle' /\ Expended'
  BY DEF Dispatching, Chronicle, Expended
<1> QED
  BY <1>1, <1>2

\* Every step keeps the invariant.
LEMMA StepKeeps == IInv /\ [Next]_vars => IInv'
<1> SUFFICES ASSUME IInv, [Next]_vars PROVE IInv'
  OBVIOUS
<1>1. ASSUME NEW e \in Emitters, NEW p \in Patterns, NEW l \in Listeners,
             Off(e, p, l) \/ \E once \in BOOLEAN : Register(e, p, l, once)
      PROVE  IInv'
  BY <1>1, OffKeeps, RegisterKeeps
<1>2. ASSUME NEW e \in Emitters, NEW child \in Emitters,
             AddChild(e, child) \/ RemoveChild(e, child)
      PROVE  IInv'
  BY <1>2, TreeKeeps
<1>3. ASSUME NEW e \in Emitters, NEW t \in Types, NEW bubbles \in BOOLEAN, Emit(e, t, bubbles)
      PROVE  IInv'
  BY <1>3, EmitKeeps
<1>4. CASE Dispatch
  BY <1>4, InvokeKeeps, BubbleKeeps, FinishKeeps DEF Dispatch
<1>5. ASSUME NEW i \in 1..MaxEvents, NEW how \in {"after", "immediately"}, Stop(i, how)
      PROVE  IInv'
  <2>1. i \in Nat
    BY EmitterAssumption
  <2> QED
    BY <1>5, <2>1, StopKeeps
<1>6. ASSUME NEW throws \in BOOLEAN, Return(throws) PROVE IInv'
  BY <1>6, ReturnKeeps
<1>7. CASE UNCHANGED vars
  BY <1>7, StutterKeeps
<1> QED
  BY <1>1, <1>2, <1>3, <1>4, <1>5, <1>6, <1>7 DEF Next

\* The tree of emitters, the dispatches under way and the record of invocations
\* stay as described, whatever listeners do.
THEOREM Inductive == Spec => []IInv
<1>1. Init => IInv
  BY InitHolds
<1>2. IInv /\ [Next]_vars => IInv'
  BY StepKeeps
<1> QED
  BY <1>1, <1>2, PTL DEF Spec

\* The path of every event has an end (addChild() and createsCycle()).
THEOREM PathsEnd == Spec => []TreeHasRoots
<1>1. IInv => TreeHasRoots
  BY PathIsWay DEF IInv, TypeOK, Typed, TreeHasRoots
<1> QED
  BY <1>1, Inductive, PTL

\* What once() registered is heard again only by dispatches around the first one.
THEOREM OnceAround == Spec => []OnceAgainOnlyAround
<1>1. IInv => OnceAgainOnlyAround
  BY DEF IInv
<1> QED
  BY <1>1, Inductive, PTL

\* An event calls what it found, each once and in order, unless it is stopped.
THEOREM HearingInTurn == Spec => []EverybodyHearsInTurn
<1>1. IInv => EverybodyHearsInTurn
  <2> SUFFICES ASSUME IInv PROVE EverybodyHearsInTurn
    OBVIOUS
  <2> USE DEF IInv
  <2>1. \A v, e : HeardOf(v, e) = HeardIn(heard, v, e)
    BY DEF HeardOf, HeardIn
  <2>2. ASSUME NEW v, NEW e PROVE HeardIn(heard, v, e) \in Seq(Invocations)
    <3> DEFINE T == {x \in Invocations : x.event = v /\ x.at = e}
    <3>1. HeardIn(heard, v, e) = Keeping(heard, T) /\ heard \in Seq(Invocations)
      BY DEF HeardIn, TypeOK
    <3> HIDE DEF T
    <3> QED
      BY <3>1, KeepingMembers
  <2>3. ASSUME NEW v \in 1..emitted, NEW e \in Emitters,
               NEW i \in 1..(Len(HeardOf(v, e)) - 1)
        PROVE  HeardOf(v, e)[i].order < HeardOf(v, e)[i + 1].order
    <3> DEFINE hs == HeardOf(v, e)
    <3>1. hs \in Seq(Invocations) /\ Increasing(hs)
      BY <2>1, <2>2 DEF Chronicle
    <3> HIDE DEF hs
    <3>2. ASSUME NEW m \in 1..(Len(hs) - 1) PROVE hs[m].order < hs[m + 1].order
      <4>1. m \in 1..Len(hs) /\ m + 1 \in 1..Len(hs) /\ m < m + 1
        BY <3>1
      <4> QED
        BY <3>1, <4>1 DEF Increasing
    <3> QED
      BY <3>2 DEF hs
  <2>4. ASSUME stack # <<>>, ~Top.busy, Top.todo = <<>>
        PROVE  LET hs == HeardOf(Top.event, Top.path[Top.at])
                   called == [i \in DOMAIN hs |-> hs[i].order]
                   found == [i \in DOMAIN Top.found |-> Top.found[i].order]
               IN IF Top.stop = "immediately" THEN IsPrefix(called, found) ELSE called = found
    <3> DEFINE f == Top
               hs == HeardIn(heard, f.event, Place(f))
               c == f.found
               called == [i \in DOMAIN hs |-> hs[i].order]
               found == [i \in DOMAIN c |-> c[i].order]
    <3>1. f = stack[Len(stack)] /\ Len(stack) \in 1..Len(stack)
      BY <2>4, TopIs
    <3>2. f \in Dispatches /\ Called(f, hs)
      BY <3>1, PlaceIs DEF Dispatching, Sound
    <3>3. c \in Seq(Definitions) /\ hs \in Seq(Invocations)
      BY <2>2, <3>2, DispatchIs
    <3>4. f.todo = <<>>
      BY <2>4
    <3>5. HeardOf(f.event, f.path[f.at]) = hs
      BY <2>1 DEF Place
    <3> HIDE DEF hs, f
    <3>6. PICK n \in 0..Len(c) : /\ Len(hs) = n /\ \A i \in 1..n : hs[i].order = c[i].order
                                 /\ \/ f.todo = SubSeq(c, n + 1, Len(c))
                                    \/ f.stop = "immediately"
      BY <3>2 DEF Called
    <3> HIDE DEF c
    <3>7. /\ Len(c) \in Nat /\ n \in Nat /\ n <= Len(c) /\ DOMAIN hs = 1..n /\ DOMAIN c = 1..Len(c)
          /\ \A i \in 1..n : hs[i].order \in Nat
          /\ \A i \in 1..Len(c) : c[i].order \in Nat
      <4>1. /\ Len(c) \in Nat /\ n \in Nat /\ n <= Len(c)
            /\ DOMAIN hs = 1..n /\ DOMAIN c = 1..Len(c)
        BY <3>3, <3>6
      <4>2. \A i \in 1..n : hs[i] \in Invocations
        BY <3>3, <3>6
      <4>3. \A i \in 1..Len(c) : c[i] \in Definitions
        BY <3>3
      <4> QED
        BY <4>1, <4>2, <4>3, InvocationIs, DefinitionIs
    <3>8. /\ called \in Seq(Nat) /\ Len(called) = n /\ found \in Seq(Nat) /\ Len(found) = Len(c)
          /\ \A i \in 1..n : called[i] = found[i]
      BY <3>6, <3>7
    <3> HIDE DEF called, found
    <3>9. CASE f.stop = "immediately"
      <4>1. SubSeq(called, 1, Len(called)) = SubSeq(found, 1, Len(called))
        <5> DEFINE a == SubSeq(called, 1, n)
                   b == SubSeq(found, 1, n)
        <5>1. a \in Seq(Nat) /\ Len(a) = n /\ \A i \in 1..n : a[i] = called[i]
          BY <3>7, <3>8
        <5>2. b \in Seq(Nat) /\ Len(b) = n /\ \A i \in 1..n : b[i] = found[i]
          BY <3>7, <3>8
        <5> HIDE DEF a, b
        <5>3. a = b
          BY <3>8, <5>1, <5>2, SeqEqual
        <5> QED
          BY <3>8, <5>3 DEF a, b
      <4>2. IsPrefix(called, found)
        BY <3>7, <3>8, <4>1 DEF IsPrefix
      <4> QED
        BY <3>5, <3>9, <4>2 DEF called, found, c, f
    <3>10. CASE f.stop # "immediately"
      <4>1. n = Len(c)
        <5>1. SubSeq(c, n + 1, Len(c)) = <<>>
          BY <3>4, <3>6, <3>10
        <5>2. n < Len(c) => Len(SubSeq(c, n + 1, Len(c))) = Len(c) - n
          <6>1. /\ n + 1 \in Int /\ Len(c) \in Int
                /\ \A i \in (n + 1)..Len(c) : c[i] \in Definitions
            BY <3>3, <3>7
          <6>2. Len(SubSeq(c, n + 1, Len(c))) =
                  IF n + 1 <= Len(c) THEN Len(c) - (n + 1) + 1 ELSE 0
            BY <6>1, SubSeqProperties
          <6> DEFINE m == Len(c)
          <6>3. m \in Nat /\ n \in Nat
            BY <3>7
          <6>4. Len(SubSeq(c, n + 1, m)) = IF n + 1 <= m THEN m - (n + 1) + 1 ELSE 0
            BY <6>2
          <6> HIDE DEF m
          <6>5. n < m => n + 1 <= m /\ m - (n + 1) + 1 = m - n
            BY <6>3
          <6>6. n < m => Len(SubSeq(c, n + 1, m)) = m - n
            BY <6>4, <6>5
          <6> QED
            BY <6>6 DEF m
        <5> QED
          BY <3>7, <5>1, <5>2
      <4>2. called = found
        BY <3>8, <4>1, SeqEqual
      <4> QED
        BY <3>5, <3>10, <4>2 DEF called, found, c, f
    <3> QED
      BY <3>9, <3>10
  <2> QED
    BY <2>3, <2>4 DEF EverybodyHearsInTurn
<1> QED
  BY <1>1, Inductive, PTL
=============================================================================
