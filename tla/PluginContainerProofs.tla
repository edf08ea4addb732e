------------------------ MODULE PluginContainerProofs ------------------------
(***************************************************************************)
(* Proofs about PluginContainer, for any plugins, any calls and scopes and *)
(* any faults.  The memo is the order of what is registered, or empty;     *)
(* what left is put off by the scopes that are open and disposed           *)
(* otherwise.  A call runs what it was given in turn, or in batches, and   *)
(* ends with what that adds up to.                                         *)
(***************************************************************************)
EXTENDS PluginContainer, FiniteSetTheorems, SequenceTheorems, WellFoundedInduction, TLAPS

\* A set of natural numbers has a least one.
LEMMA LeastNat ==
  ASSUME NEW T, T \subseteq Nat, T # {}
  PROVE  \E x \in T : \A y \in T : x <= y
<1> DEFINE R == {p \in Nat \X Nat : p[1] < p[2]}
<1>1. IsWellFoundedOn(R, Nat)
  BY NatLessThanWellFounded, Zenon DEF OpToRel
<1>2. PICK x \in T : \A y \in T : ~ (<<y, x>> \in R)
  BY <1>1, WFMin
<1>3. \A y \in T : x \in Nat /\ y \in Nat /\ ~(y < x)
  BY <1>2
<1> QED
  BY <1>3

\* Induction over the natural numbers.
LEMMA SetInduction ==
  ASSUME NEW S, 0 \in S, \A n \in Nat : n \in S => n + 1 \in S
  PROVE  Nat \subseteq S
<1> DEFINE T == Nat \ S
<1> SUFFICES ASSUME T # {} PROVE FALSE
  OBVIOUS
<1>1. PICK x \in T : \A y \in T : x <= y
  <2>1. T \subseteq Nat
    OBVIOUS
  <2> QED
    BY <2>1, LeastNat
<1>2. x - 1 \in Nat /\ ~(x <= x - 1)
  BY <1>1
<1>3. x - 1 \in S
  BY <1>1, <1>2
<1>4. (x - 1) + 1 \in S
  BY <1>2, <1>3
<1> QED
  BY <1>2, <1>4

\* What keeping an element adds to what was kept before.
Keep(x, T, before) == IF x \in T THEN Append(before, x) ELSE before

\* f[n] is what is kept of the first n elements of s.
Goes(f, s, T) ==
  f[0] = <<>> /\ \A n \in 1..Len(s) : f[n] = Keep(s[n], T, f[n - 1])

\* Keeping goes through a sequence step by step.
LEMMA KeepingSteps ==
  ASSUME NEW S, NEW T, NEW s \in Seq(S)
  PROVE  \E f : Keeping(s, T) = f[Len(s)] /\ Goes(f, s, T)
<1> DEFINE Upto(n, f) == /\ f = [i \in 0..n |-> f[i]] /\ f[0] = <<>>
                         /\ \A i \in 1..n : f[i] = Keep(s[i], T, f[i - 1])
           D == {n \in Nat : \E f : Upto(n, f)}
<1>1. 0 \in D
  <2>1. Upto(0, [i \in 0..0 |-> <<>>])
    OBVIOUS
  <2> QED
    BY <2>1
<1>2. ASSUME NEW n \in Nat, n \in D PROVE n + 1 \in D
  <2>1. PICK f : Upto(n, f)
    BY <1>2
  <2> DEFINE g == [i \in 0..(n + 1) |-> IF i = n + 1 THEN Keep(s[n + 1], T, f[n]) ELSE f[i]]
  <2>2. \A i \in 0..n : g[i] = f[i]
    OBVIOUS
  <2>3. g[n + 1] = Keep(s[n + 1], T, f[n])
    OBVIOUS
  <2>4. g = [i \in 0..(n + 1) |-> g[i]]
    OBVIOUS
  <2> HIDE DEF g
  <2>5. \A i \in 1..n : g[i] = Keep(s[i], T, g[i - 1])
    <3> SUFFICES ASSUME NEW i \in 1..n PROVE g[i] = Keep(s[i], T, g[i - 1])
      OBVIOUS
    <3>1. i \in 0..n /\ i - 1 \in 0..n
      OBVIOUS
    <3>2. f[i] = Keep(s[i], T, f[i - 1])
      BY <2>1
    <3> QED
      BY <2>2, <3>1, <3>2
  <2>6. g[n] = f[n] /\ g[0] = f[0]
    BY <2>2
  <2>7. \A i \in 1..(n + 1) : g[i] = Keep(s[i], T, g[i - 1])
    <3> SUFFICES ASSUME NEW i \in 1..(n + 1) PROVE g[i] = Keep(s[i], T, g[i - 1])
      OBVIOUS
    <3>1. CASE i = n + 1
      BY <2>3, <2>6, <3>1
    <3>2. CASE i # n + 1
      BY <2>5, <3>2
    <3> QED
      BY <3>1, <3>2
  <2>8. Upto(n + 1, g)
    BY <2>1, <2>4, <2>6, <2>7
  <2>9. \E f1 : Upto(n + 1, f1)
    BY <2>8, Zenon
  <2> HIDE DEF Upto
  <2> QED
    BY <2>9
<1>3. Len(s) \in D
  <2> HIDE DEF D
  <2> QED
    BY <1>1, <1>2, SetInduction
<1> DEFINE Body(f) == [n \in 0..Len(s) |->
                         IF n = 0 THEN <<>>
                         ELSE IF s[n] \in T THEN Append(f[n - 1], s[n])
                         ELSE f[n - 1]]
<1>4. PICK f : f = Body(f)
  <2>1. PICK f : Upto(Len(s), f)
    BY <1>3
  <2>2. \A n \in 0..Len(s) : f[n] = Body(f)[n]
    BY <2>1 DEF Keep
  <2>3. f = Body(f)
    BY <2>1, <2>2
  <2> QED
    BY <2>3
<1> DEFINE g == CHOOSE f1 : f1 = Body(f1)
<1>5. g = Body(g)
  BY <1>4
<1>6. Keeping(s, T) = g[Len(s)]
  BY DEF Keeping
<1> HIDE DEF g
<1>7. \A n \in 0..Len(s) : Body(g)[n] = IF n = 0 THEN <<>> ELSE Keep(s[n], T, g[n - 1])
  BY DEF Keep
<1> HIDE DEF Body
<1>8. \A n \in 0..Len(s) : g[n] = IF n = 0 THEN <<>> ELSE Keep(s[n], T, g[n - 1])
  BY <1>5, <1>7
<1>9. g[0] = <<>> /\ \A n \in 1..Len(s) : g[n] = Keep(s[n], T, g[n - 1])
  BY <1>8
<1>10. Goes(g, s, T)
  BY <1>9 DEF Goes
<1> QED
  BY <1>6, <1>10

\* Induction up to a bound.
LEMMA BoundedInduction ==
  ASSUME NEW m \in Nat, NEW P, 0 \in P, \A n \in 1..m : n - 1 \in P => n \in P
  PROVE  \A n \in 0..m : n \in P
<1> DEFINE Q == {n \in Nat : n <= m => n \in P}
<1>1. 0 \in Q
  OBVIOUS
<1>2. ASSUME NEW n \in Nat, n \in Q PROVE n + 1 \in Q
  <2>1. CASE n + 1 <= m
    <3>1. n \in P /\ n + 1 \in 1..m /\ (n + 1) - 1 = n
      BY <1>2, <2>1
    <3> QED
      BY <3>1
  <2>2. CASE ~(n + 1 <= m)
    BY <2>2
  <2> QED
    BY <2>1, <2>2
<1> HIDE DEF Q
<1>3. Nat \subseteq Q
  BY <1>1, <1>2, SetInduction
<1> USE DEF Q
<1> QED
  BY <1>3

\* The elements of a longer sequence.
LEMMA AppendElements ==
  ASSUME NEW S, NEW s \in Seq(S), NEW x
  PROVE  ToSet(Append(s, x)) = ToSet(s) \cup {x}
<1>1. /\ Len(Append(s, x)) = Len(s) + 1 /\ Append(s, x)[Len(s) + 1] = x
      /\ \A i \in 1..Len(s) : Append(s, x)[i] = s[i]
      /\ DOMAIN s = 1..Len(s) /\ DOMAIN Append(s, x) = 1..(Len(s) + 1)
  OBVIOUS
<1> QED
  BY <1>1 DEF ToSet

\* What is kept are the elements that are wanted.
LEMMA KeepingElements ==
  ASSUME NEW S, NEW T, NEW s \in Seq(S)
  PROVE  /\ Keeping(s, T) \in Seq(S)
         /\ ToSet(Keeping(s, T)) = ToSet(s) \cap T
<1>1. PICK f : Keeping(s, T) = f[Len(s)] /\ Goes(f, s, T)
  BY KeepingSteps, Zenon
<1> DEFINE P == {n \in 0..Len(s) : /\ f[n] \in Seq(S)
                                   /\ ToSet(f[n]) = {s[i] : i \in 1..n} \cap T}
<1>2. 0 \in P
  <2>1. ToSet(<<>>) = {}
    BY DEF ToSet
  <2>2. {s[i] : i \in 1..0} = {}
    OBVIOUS
  <2>3. f[0] \in Seq(S) /\ 0 \in 0..Len(s)
    BY <1>1 DEF Goes
  <2> QED
    BY <1>1, <2>1, <2>2, <2>3 DEF Goes
<1>3. ASSUME NEW n \in 1..Len(s), n - 1 \in P PROVE n \in P
  <2>1. f[n] = Keep(s[n], T, f[n - 1]) /\ s[n] \in S
    BY <1>1 DEF Goes
  <2>2. f[n - 1] \in Seq(S) /\ ToSet(f[n - 1]) = {s[i] : i \in 1..(n - 1)} \cap T
    BY <1>3
  <2>3. {s[i] : i \in 1..n} = {s[i] : i \in 1..(n - 1)} \cup {s[n]}
    OBVIOUS
  <2>4. CASE s[n] \in T
    <3>1. f[n] = Append(f[n - 1], s[n])
      BY <2>1, <2>4 DEF Keep
    <3>2. ToSet(f[n]) = ToSet(f[n - 1]) \cup {s[n]}
      BY <2>2, <3>1, AppendElements
    <3>3. f[n] \in Seq(S)
      BY <2>1, <2>2, <3>1
    <3>4. ToSet(f[n]) = {s[i] : i \in 1..n} \cap T
      BY <2>2, <2>3, <2>4, <3>2
    <3> QED
      BY <3>3, <3>4
  <2>5. CASE s[n] \notin T
    <3>1. f[n] = f[n - 1]
      BY <2>1, <2>5 DEF Keep
    <3>2. ToSet(f[n]) = {s[i] : i \in 1..n} \cap T
      BY <2>2, <2>3, <2>5, <3>1
    <3> QED
      BY <2>2, <3>1, <3>2
  <2> QED
    BY <2>4, <2>5
<1>4. Len(s) \in P
  <2>0. Len(s) \in Nat
    OBVIOUS
  <2> HIDE DEF P
  <2>1. \A n \in 0..Len(s) : n \in P
    BY <1>2, <1>3, <2>0, BoundedInduction
  <2> QED
    BY <2>0, <2>1
<1>5. ToSet(s) = {s[i] : i \in 1..Len(s)}
  BY DEF ToSet
<1> QED
  BY <1>1, <1>4, <1>5

\* Only what is in the sequence matters to what is kept.
LEMMA KeepingSame ==
  ASSUME NEW S, NEW T, NEW U, NEW s \in Seq(S),
         \A i \in 1..Len(s) : s[i] \in T <=> s[i] \in U
  PROVE  Keeping(s, T) = Keeping(s, U)
<1>1. PICK f : Keeping(s, T) = f[Len(s)] /\ Goes(f, s, T)
  BY KeepingSteps, Zenon
<1>2. PICK g : Keeping(s, U) = g[Len(s)] /\ Goes(g, s, U)
  BY KeepingSteps, Zenon
<1> DEFINE P == {n \in 0..Len(s) : f[n] = g[n]}
<1>3. 0 \in P
  BY <1>1, <1>2 DEF Goes
<1>4. ASSUME NEW n \in 1..Len(s), n - 1 \in P PROVE n \in P
  <2>1. f[n] = Keep(s[n], T, f[n - 1]) /\ g[n] = Keep(s[n], U, g[n - 1])
    BY <1>1, <1>2 DEF Goes
  <2>2. f[n - 1] = g[n - 1]
    BY <1>4
  <2>3. f[n] = g[n]
    BY <2>1, <2>2 DEF Keep
  <2> QED
    BY <2>3
<1>5. Len(s) \in P
  <2>0. Len(s) \in Nat
    OBVIOUS
  <2> HIDE DEF P
  <2>1. \A n \in 0..Len(s) : n \in P
    BY <1>3, <1>4, <2>0, BoundedInduction
  <2> QED
    BY <2>0, <2>1
<1> QED
  BY <1>1, <1>2, <1>5
-----------------------------------------------------------------------------
Open(s) == scope[s].state = "open"
Used(s) == scope[s].state # Idle
Kept(b) == ToSet(runners[b]) \cup deferred[b]

\* What an idle record holds, and how far a call has come.
Proper(c) ==
  /\ c \in CallRecords
  /\ c.at \in 0..Len(c.entries)
  /\ c.kind = Idle => c.pending = {} /\ Finished(c)
ProperCalls == \A k \in Calls : Proper(call[k])

\* Nothing belongs to a container that is not there yet.
Unborn ==
  /\ "root" \in born
  /\ \A b \in Containers \ born :
       runners[b] = <<>> /\ memo[b] = NoMemo /\ deferred[b] = {} /\ secured[b] = {}

\* A runner has one place: one container, where it is listed once or put off.
OnePlace ==
  /\ \A b \in Containers : \A i, j \in 1..Len(runners[b]) :
       runners[b][i] = runners[b][j] => i = j
  /\ \A b \in Containers : ToSet(runners[b]) \cap deferred[b] = {}
  /\ \A b, c \in Containers : b # c => Kept(b) \cap Kept(c) = {}

\* A runner is disposed or has a place, not both.
Accounted ==
  /\ \A b \in Containers : Kept(b) \cap disposed = {}
  /\ \A r \in Runners : r \in disposed \/ \E b \in Containers : r \in Kept(b)

Remembered ==
  \A b \in born \ closed : memo[b] = NoMemo \/ memo[b] = Sorted(runners[b])

\* The scopes in use are the first ones, and lie on the stack in their order.
Nested ==
  /\ \A i \in 1..Len(stack) : stack[i] \in Scopes => Used(stack[i])
  /\ \A i, j \in 1..Len(stack) :
       stack[i] \in Scopes /\ stack[j] \in Scopes /\ i < j => stack[i] < stack[j]
  /\ \A s \in Scopes : Used(s) =>
       /\ scope[s].box \in born
       /\ \E i \in 1..Len(stack) : stack[i] = s
       /\ \A q \in 1..s : Used(q)

\* What was put off waits for a scope; what a scope began with has its place or
\* is disposed.
PutOff == \A b \in Containers : deferred[b] # {} /\ b \notin closed => InScope(b)
Snapshots ==
  \A s \in Scopes : Used(s) /\ scope[s].box \notin closed =>
    ToSet(scope[s].entries) \subseteq Kept(scope[s].box) \cup disposed

IInv == /\ TypeOK /\ ProperCalls
        /\ Unborn /\ OnePlace /\ Accounted /\ Remembered
        /\ Nested /\ PutOff /\ Snapshots
-----------------------------------------------------------------------------
\* What is concatenated has the elements of both.
LEMMA ConcatElements ==
  ASSUME NEW S, NEW s \in Seq(S), NEW t \in Seq(S)
  PROVE  s \o t \in Seq(S) /\ ToSet(s \o t) = ToSet(s) \cup ToSet(t)
<1>1. /\ s \o t \in Seq(S) /\ Len(s \o t) = Len(s) + Len(t)
      /\ \A i \in 1..(Len(s) + Len(t)) :
           (s \o t)[i] = IF i <= Len(s) THEN s[i] ELSE t[i - Len(s)]
  OBVIOUS
<1>2. /\ DOMAIN s = 1..Len(s) /\ DOMAIN t = 1..Len(t)
      /\ DOMAIN (s \o t) = 1..(Len(s) + Len(t))
      /\ Len(s) \in Nat /\ Len(t) \in Nat
  BY <1>1
<1>3. ToSet(s \o t) \subseteq ToSet(s) \cup ToSet(t)
  BY <1>1, <1>2 DEF ToSet
<1>4. ASSUME NEW i \in 1..Len(s) PROVE s[i] \in ToSet(s \o t)
  <2>1. i \in 1..(Len(s) + Len(t)) /\ (s \o t)[i] = s[i]
    BY <1>1, <1>2
  <2> QED
    BY <1>2, <2>1 DEF ToSet
<1>5. ASSUME NEW i \in 1..Len(t) PROVE t[i] \in ToSet(s \o t)
  <2>1. i + Len(s) \in 1..(Len(s) + Len(t)) /\ (s \o t)[i + Len(s)] = t[i]
    BY <1>1, <1>2
  <2> QED
    BY <1>2, <2>1 DEF ToSet
<1> QED
  BY <1>1, <1>2, <1>3, <1>4, <1>5 DEF ToSet

\* The order that a list of plugins p asks of the runners rs.
Asking(p, place) == {r \in 1..Len(p) : Order[p[r]] = place}
SortedBy(p, rs) ==
  Keeping(rs, Asking(p, "pre")) \o Keeping(rs, Asking(p, "default"))
    \o Keeping(rs, Asking(p, "post"))

\* That is how the container sorts, whenever it looks.
LEMMA SortedIs ==
  /\ \A rs : Sorted(rs) = SortedBy(plugin, rs)
  /\ \A rs : Sorted(rs)' = SortedBy(plugin', rs)
BY DEF Sorted, SortedBy, At, Asking, Runners

\* Sorting keeps to what is sorted.
LEMMA SortedElements ==
  ASSUME NEW p, NEW S, NEW rs \in Seq(S)
  PROVE  SortedBy(p, rs) \in Seq(S) /\ ToSet(SortedBy(p, rs)) \subseteq ToSet(rs)
<1> DEFINE a == Keeping(rs, Asking(p, "pre"))
           b == Keeping(rs, Asking(p, "default"))
           c == Keeping(rs, Asking(p, "post"))
<1>1. /\ a \in Seq(S) /\ ToSet(a) \subseteq ToSet(rs)
      /\ b \in Seq(S) /\ ToSet(b) \subseteq ToSet(rs)
      /\ c \in Seq(S) /\ ToSet(c) \subseteq ToSet(rs)
  BY KeepingElements
<1>2. SortedBy(p, rs) = (a \o b) \o c
  BY DEF SortedBy
<1> HIDE DEF a, b, c
<1>3. a \o b \in Seq(S) /\ ToSet(a \o b) \subseteq ToSet(rs)
  BY <1>1, ConcatElements
<1>4. (a \o b) \o c \in Seq(S) /\ ToSet((a \o b) \o c) \subseteq ToSet(rs)
  <2> DEFINE ab == a \o b
  <2>1. ab \in Seq(S) /\ ToSet(ab) \subseteq ToSet(rs)
    BY <1>3
  <2> HIDE DEF ab
  <2>2. ab \o c \in Seq(S) /\ ToSet(ab \o c) \subseteq ToSet(rs)
    BY <1>1, <2>1, ConcatElements
  <2> QED
    BY <2>2 DEF ab
<1> QED
  BY <1>2, <1>4

\* Plugins that come later change nothing about those that are there.
LEMMA SortedSame ==
  ASSUME NEW p, NEW q, Len(p) \in Nat, Len(q) \in Nat, Len(p) <= Len(q),
         \A r \in 1..Len(p) : p[r] = q[r],
         NEW rs \in Seq(1..Len(p))
  PROVE  SortedBy(p, rs) = SortedBy(q, rs)
<1>1. \A place : \A i \in 1..Len(rs) :
        rs[i] \in Asking(p, place) <=> rs[i] \in Asking(q, place)
  BY DEF Asking
<1>2. \A place : Keeping(rs, Asking(p, place)) = Keeping(rs, Asking(q, place))
  BY <1>1, KeepingSame
<1>3. /\ Keeping(rs, Asking(p, "pre")) = Keeping(rs, Asking(q, "pre"))
      /\ Keeping(rs, Asking(p, "default")) = Keeping(rs, Asking(q, "default"))
      /\ Keeping(rs, Asking(p, "post")) = Keeping(rs, Asking(q, "post"))
  BY <1>2
<1> QED
  BY <1>3 DEF SortedBy
-----------------------------------------------------------------------------
\* A call that is under way or over.
Live(c) == c \in CallRecords /\ c.kind \in Kinds /\ c.at \in 0..Len(c.entries)

\* However a call ends, it stays a call.
LEMMA EndingLive ==
  ASSUME NEW c, Live(c)
  PROVE  /\ Live(Fulfil(c)) /\ Live(Reject(c))
         /\ \A d \in MayThrow(c) : Live(d)
<1>1. Live([c EXCEPT !.state = "fulfilled"]) /\ Live([c EXCEPT !.state = "rejected"])
  BY DEF Live, CallRecords
<1>2. Live(Fulfil(c)) /\ Live(Reject(c))
  BY <1>1 DEF Fulfil, Reject
<1> QED
  BY <1>2 DEF MayThrow

\* A record that goes on is still a record.
LEMMA GoingOn ==
  ASSUME NEW c \in CallRecords, NEW p \in SUBSET Nat, NEW n \in Nat
  PROVE  /\ [c EXCEPT !.pending = p, !.alone = TRUE, !.at = n] \in CallRecords
         /\ [c EXCEPT !.pending = p, !.at = n] \in CallRecords
         /\ [c EXCEPT !.fatal = TRUE, !.at = n] \in CallRecords
BY DEF CallRecords

\* So does one that triggers its next handler.
LEMMA TriggerLive ==
  ASSUME NEW c, Live(c), ~Finished(c)
  PROVE  Live(Trigger(c)) /\ Live(Launched(c))
<1>1. /\ c \in CallRecords /\ c.at \in Nat /\ c.entries \in Seq(Nat)
      /\ c.at + 1 \in 1..Len(c.entries) /\ c.pending \subseteq Nat
  BY DEF Live, CallRecords, Finished
<1>2. Following(c) \in Nat
  BY <1>1 DEF Following
<1>3. Live([c EXCEPT !.pending = {Following(c)}, !.alone = TRUE, !.at = @ + 1])
  <2> DEFINE d == [c EXCEPT !.pending = {Following(c)}, !.alone = TRUE, !.at = @ + 1]
  <2>1. d \in CallRecords
    <3> DEFINE n == c.at + 1
               p == {Following(c)}
    <3>1. p \in SUBSET Nat /\ n \in Nat
      BY <1>1, <1>2
    <3> HIDE DEF n, p
    <3>2. [c EXCEPT !.pending = p, !.alone = TRUE, !.at = n] \in CallRecords
      BY <1>1, <3>1, GoingOn
    <3> QED
      BY <3>2 DEF n, p
  <2>2. d.at = c.at + 1 /\ d.kind = c.kind /\ d.entries = c.entries
    BY <1>1 DEF CallRecords
  <2>3. c.kind \in Kinds
    BY DEF Live
  <2> HIDE DEF d
  <2>4. Live(d)
    BY <1>1, <2>1, <2>2, <2>3 DEF Live
  <2> QED
    BY <2>4 DEF d
<1>4. Live([c EXCEPT !.pending = @ \cup {Following(c)}, !.at = @ + 1])
  <2> DEFINE d == [c EXCEPT !.pending = @ \cup {Following(c)}, !.at = @ + 1]
  <2>1. d \in CallRecords
    <3> DEFINE n == c.at + 1
               p == c.pending \cup {Following(c)}
    <3>1. p \in SUBSET Nat /\ n \in Nat
      BY <1>1, <1>2
    <3> HIDE DEF n, p
    <3>2. [c EXCEPT !.pending = p, !.at = n] \in CallRecords
      BY <1>1, <3>1, GoingOn
    <3> QED
      BY <3>2 DEF n, p
  <2>2. d.at = c.at + 1 /\ d.kind = c.kind /\ d.entries = c.entries
    BY <1>1 DEF CallRecords
  <2>3. c.kind \in Kinds
    BY DEF Live
  <2> HIDE DEF d
  <2>4. Live(d)
    BY <1>1, <2>1, <2>2, <2>3 DEF Live
  <2> QED
    BY <2>4 DEF d
<1>5. Live([c EXCEPT !.fatal = TRUE, !.at = @ + 1])
  <2> DEFINE d == [c EXCEPT !.fatal = TRUE, !.at = @ + 1]
  <2>1. d \in CallRecords
    <3> DEFINE n == c.at + 1
    <3>1. n \in Nat
      BY <1>1
    <3> HIDE DEF n
    <3>2. [c EXCEPT !.fatal = TRUE, !.at = n] \in CallRecords
      BY <1>1, <3>1, GoingOn
    <3> QED
      BY <3>2 DEF n
  <2>2. d.at = c.at + 1 /\ d.kind = c.kind /\ d.entries = c.entries
    BY <1>1 DEF CallRecords
  <2>3. c.kind \in Kinds
    BY DEF Live
  <2> HIDE DEF d
  <2>4. Live(d)
    BY <1>1, <2>1, <2>2, <2>3 DEF Live
  <2> QED
    BY <2>4 DEF d
<1> QED
  BY <1>3, <1>4, <1>5, EndingLive DEF Trigger, Launched

\* So does one that goes on, with or without a batch to wait for.
LEMMA ProceedLive ==
  ASSUME NEW c, Live(c)
  PROVE  Live(Proceed(c)) /\ Live(Drained(c))
BY EndingLive, TriggerLive DEF Proceed, Drained

\* So does one whose handler is done.
LEMMA FollowLive ==
  ASSUME NEW c, Live(c), NEW r \in Nat, NEW o \in AllOutcomes
  PROVE  \A d \in Follow(c, r, o) : Live(d)
<1> DEFINE e == Settled(c, r, o)
<1>1. c \in CallRecords /\ c.answer \in Seq(Nat) /\ c.ran \in Seq(Nat \X AllOutcomes)
  BY DEF Live, CallRecords
<1>2. Folded(c, r, o) \in Seq(Nat) /\ Append(c.ran, <<r, o>>) \in Seq(Nat \X AllOutcomes)
  BY <1>1 DEF Folded
<1>3. Live(e)
  BY <1>1, <1>2 DEF Settled, Live, CallRecords
<1>4. Live([c EXCEPT !.pending = @ \ {r}])
  BY DEF Live, CallRecords
<1> HIDE DEF e
<1>5. \A x \in BOOLEAN : Live([e EXCEPT !.fatal = x])
  BY <1>3 DEF Live, CallRecords
<1>6. Live([e EXCEPT !.fatal = @ \/ o = "fatal"])
  <2>1. e.fatal \in BOOLEAN
    BY <1>3 DEF Live, CallRecords
  <2> DEFINE x == e.fatal \/ o = "fatal"
  <2>2. x \in BOOLEAN /\ [e EXCEPT !.fatal = @ \/ o = "fatal"] = [e EXCEPT !.fatal = x]
    BY <2>1
  <2> QED
    BY <1>5, <2>2
<1>7. Live([e EXCEPT !.alone = FALSE])
  BY <1>3 DEF Live, CallRecords
<1>8. Live(Drained([e EXCEPT !.fatal = @ \/ o = "fatal"]))
  BY <1>6, ProceedLive
<1>9. /\ Live(Reject(e)) /\ Live(Fulfil(e)) /\ Live(Proceed(e))
  BY <1>3, ProceedLive, EndingLive
<1>10. \A d \in MayLose(c, r, o) : Live(d)
  <2> DEFINE f == [e EXCEPT !.answer = c.answer]
  <2>1. Live(f)
    BY <1>1, <1>3 DEF Live, CallRecords
  <2> HIDE DEF f
  <2>2. Live(Reject(f))
    BY <2>1, EndingLive
  <2> QED
    BY <2>2 DEF MayLose, f, e
<1> QED
  BY <1>4, <1>7, <1>8, <1>9, <1>10 DEF Follow, e
-----------------------------------------------------------------------------
\* The stacks s and t differ in calls at their ends, t is the later one.
Alike(s, t) ==
  /\ t \in Seq(Calls \cup Scopes)
  /\ \E n \in 0..Len(s) :
       /\ n <= Len(t)
       /\ \A i \in 1..n : t[i] = s[i]
       /\ \A i \in (n + 1)..Len(s) : s[i] \in Calls
       /\ \A i \in (n + 1)..Len(t) : t[i] \in Calls

\* A stack without its last element.
LEMMA FrontElements ==
  ASSUME NEW S, NEW s \in Seq(S), s # <<>>
  PROVE  /\ Front(s) \in Seq(S) /\ Len(Front(s)) = Len(s) - 1
         /\ \A i \in 1..(Len(s) - 1) : Front(s)[i] = s[i]
<1> DEFINE m == Len(s) - 1
<1>1. m \in Nat /\ \A i \in 1..m : s[i] \in S
  OBVIOUS
<1> HIDE DEF m
<1>2. /\ SubSeq(s, 1, m) \in Seq(S)
      /\ Len(SubSeq(s, 1, m)) = IF 1 <= m THEN m - 1 + 1 ELSE 0
      /\ \A i \in 1..(m - 1 + 1) : SubSeq(s, 1, m)[i] = s[1 + i - 1]
  <2>1. 1 \in Int /\ m \in Int
    BY <1>1
  <2> QED
    BY <1>1, <2>1, SubSeqProperties
<1>3. /\ Len(SubSeq(s, 1, m)) = m
      /\ \A i \in 1..m : SubSeq(s, 1, m)[i] = s[i]
  BY <1>1, <1>2
<1> QED
  BY <1>2, <1>3 DEF Front, m

\* What becomes of a call changes nothing but calls on the stack.
LEMMA BecomeAlike ==
  ASSUME NEW s \in Seq(Calls \cup Scopes), NEW k \in Calls, NEW t,
         \/ t = s
         \/ t = Append(s, k)
         \/ s # <<>> /\ Last(s) \in Calls /\ t = Front(s)
         \/ s # <<>> /\ Last(s) \in Calls /\ t = Append(Front(s), k)
  PROVE  Alike(s, t)
<1>1. Len(s) \in Nat
  OBVIOUS
<1>2. CASE t = s
  BY <1>1, <1>2 DEF Alike
<1>3. CASE t = Append(s, k)
  <2>1. /\ t \in Seq(Calls \cup Scopes) /\ Len(t) = Len(s) + 1 /\ t[Len(s) + 1] = k
        /\ \A i \in 1..Len(s) : t[i] = s[i]
    BY <1>3
  <2> QED
    BY <1>1, <2>1 DEF Alike
<1>4. ASSUME s # <<>>, Last(s) \in Calls, t = Front(s) \/ t = Append(Front(s), k)
      PROVE  Alike(s, t)
  <2> DEFINE m == Len(s) - 1
             f == Front(s)
  <2>1. m \in Nat /\ m + 1 = Len(s) /\ s[m + 1] \in Calls
    BY <1>1, <1>4 DEF Last
  <2>2. f \in Seq(Calls \cup Scopes) /\ Len(f) = m /\ \A i \in 1..m : f[i] = s[i]
    BY <1>4, FrontElements
  <2> HIDE DEF m, f
  <2>3. CASE t = f
    BY <2>1, <2>2, <2>3 DEF Alike
  <2>4. CASE t = Append(f, k)
    <3>1. /\ t \in Seq(Calls \cup Scopes) /\ Len(t) = m + 1 /\ t[m + 1] = k
          /\ \A i \in 1..m : t[i] = s[i]
      BY <2>2, <2>4
    <3>2. /\ m \in 0..Len(s) /\ m <= Len(t) /\ \A i \in 1..m : t[i] = s[i]
          /\ \A i \in (m + 1)..Len(s) : s[i] \in Calls
          /\ \A i \in (m + 1)..Len(t) : t[i] \in Calls
      BY <2>1, <3>1
    <3> QED
      BY <3>1, <3>2 DEF Alike
  <2> QED
    BY <1>4, <2>3, <2>4 DEF f
<1> QED
  BY <1>2, <1>3, <1>4

\* Calls that come and go leave the scopes on the stack as they are.
LEMMA AlikeScopes ==
  ASSUME TypeOK, Nested, Alike(stack, stack'), scope' = scope, born \subseteq born'
  PROVE  Nested' /\ \A b \in Containers : InScope(b) => InScope(b)'
<1>1. stack \in Seq(Calls \cup Scopes) /\ Calls \cap Scopes = {}
  BY ContainerAssumption DEF TypeOK, Scopes
<1>2. PICK n \in 0..Len(stack) :
        /\ n <= Len(stack') /\ \A i \in 1..n : stack'[i] = stack[i]
        /\ \A i \in (n + 1)..Len(stack) : stack[i] \in Calls
        /\ \A i \in (n + 1)..Len(stack') : stack'[i] \in Calls
  BY DEF Alike
<1>3. stack' \in Seq(Calls \cup Scopes) /\ Len(stack') \in Nat /\ Len(stack) \in Nat
  BY <1>1 DEF Alike
<1>4. ASSUME NEW i \in 1..Len(stack'), stack'[i] \in Scopes
      PROVE  i \in 1..Len(stack) /\ stack[i] = stack'[i]
  BY <1>1, <1>2, <1>3, <1>4
<1>5. ASSUME NEW i \in 1..Len(stack), stack[i] \in Scopes
      PROVE  i \in 1..Len(stack') /\ stack[i] = stack'[i]
  BY <1>1, <1>2, <1>3, <1>5
<1>6. Scopes' = Scopes /\ \A s : Used(s)' <=> Used(s)
  BY DEF Used, Scopes, Idle
<1>7. Nested'
  BY <1>4, <1>5, <1>6 DEF Nested
<1>8. DOMAIN stack = 1..Len(stack) /\ DOMAIN stack' = 1..Len(stack')
  BY <1>1, <1>3
<1>9. \A b \in Containers : InScope(b) => InScope(b)'
  BY <1>5, <1>6, <1>8 DEF InScope, Counts
<1> QED
  BY <1>7, <1>9

\* What is kept and disposed.
Membership == Unborn /\ OnePlace /\ Accounted /\ Remembered

\* It is a matter of these variables alone.
LEMMA MembersAlone == Membership /\ UNCHANGED members => Membership'
<1> SUFFICES ASSUME Membership, UNCHANGED members PROVE Membership'
  OBVIOUS
<1>1. /\ plugin' = plugin /\ runners' = runners /\ memo' = memo /\ secured' = secured
      /\ deferred' = deferred /\ disposed' = disposed /\ born' = born /\ closed' = closed
  BY DEF members
<1>2. Unborn'
  BY <1>1 DEF Membership, Unborn
<1>3. OnePlace' /\ Accounted'
  BY <1>1 DEF Membership, OnePlace, Accounted, Kept, Runners
<1>4. Remembered'
  BY <1>1, SortedIs DEF Membership, Remembered
<1> QED
  BY <1>2, <1>3, <1>4 DEF Membership
\* Nobody calls a strategy by the name of none.
LEMMA LiveIsProper ==
  /\ \A c : Live(c) => Proper(c)
  /\ \A c : Proper(c) /\ c.kind # Idle => Live(c)
<1>1. Idle \notin Kinds
  BY ContainerAssumption DEF Idle, AsyncKinds, SyncKinds
<1> QED
  BY <1>1 DEF Live, Proper, CallRecords

\* One call becomes something, the others stay as they are.
LEMMA BecomeProper ==
  ASSUME TypeOK, ProperCalls, NEW k \in Calls, NEW c, Live(c),
         call' = [call EXCEPT ![k] = c]
  PROVE  ProperCalls' /\ call' \in [Calls -> CallRecords]
<1>1. call \in [Calls -> CallRecords] /\ c \in CallRecords
  BY DEF TypeOK, Live
<1>2. \A j \in Calls : call'[j] = IF j = k THEN c ELSE call[j]
  BY <1>1
<1>3. \A j \in Calls : Proper(call'[j])
  BY <1>2, LiveIsProper DEF ProperCalls
<1> QED
  BY <1>1, <1>3 DEF ProperCalls

\* What the strategies do to calls and stack keeps everything in its place.
LEMMA CallingIInv ==
  ASSUME IInv, ProperCalls', call' \in [Calls -> CallRecords],
         Alike(stack, stack'), scope' = scope, Membership',
         UNCHANGED <<plugin, runners, secured, deferred, disposed, born, frozen, closed>>,
         memo' \in [Containers -> Seq(Runners \cup {0})]
  PROVE  IInv'
<1>1. TypeOK /\ Nested /\ PutOff /\ Snapshots
  BY DEF IInv
<1>2. /\ plugin' = plugin /\ runners' = runners /\ secured' = secured
      /\ deferred' = deferred /\ disposed' = disposed /\ born' = born
      /\ frozen' = frozen /\ closed' = closed
  OBVIOUS
<1>3. TypeOK'
  <2>1. Runners' = Runners /\ ScopeRecords' = ScopeRecords /\ CallRecords' = CallRecords
    BY <1>2 DEF Runners, ScopeRecords, CallRecords
  <2>2. stack' \in Seq(Calls \cup Scopes) /\ Scopes' = Scopes
    BY DEF Alike, Scopes
  <2> QED
    BY <1>1, <1>2, <2>1, <2>2 DEF TypeOK
<1>4. Nested' /\ \A b \in Containers : InScope(b) => InScope(b)'
  BY <1>1, <1>2, AlikeScopes
<1>5. PutOff'
  BY <1>1, <1>2, <1>4 DEF PutOff
<1>6. Snapshots'
  BY <1>1, <1>2 DEF Snapshots, Used, Kept, Scopes, Idle
<1> QED
  BY <1>3, <1>4, <1>5, <1>6 DEF IInv, Membership

\* What a strategy or a scope gets to work through.
LEMMA EntriesAreSorted ==
  ASSUME IInv, NEW b \in Containers, Usable(b)
  PROVE  /\ Entries(b) = Sorted(runners[b])
         /\ Entries(b) \in Seq(Runners) /\ ToSet(Entries(b)) \subseteq ToSet(runners[b])
         /\ Entries(b) \in Seq(Nat)
<1>1. b \in born \ closed
  BY DEF Usable
<1>2. Entries(b) = Sorted(runners[b])
  BY <1>1 DEF IInv, Remembered, Entries
<1>3. runners[b] \in Seq(Runners)
  BY DEF IInv, TypeOK
<1>4. Entries(b) \in Seq(Runners) /\ ToSet(Entries(b)) \subseteq ToSet(runners[b])
  BY <1>2, <1>3, SortedElements, SortedIs
<1>5. Runners \subseteq Nat
  BY DEF IInv, TypeOK, Runners
<1> QED
  BY <1>2, <1>4, <1>5, SeqMonotonic

\* Filling the memo changes nothing but the memo.
LEMMA MemoizeMembership ==
  ASSUME IInv, NEW b \in Containers, Usable(b), Memoize(b),
         UNCHANGED <<plugin, runners, secured, deferred, disposed, born, frozen, closed>>
  PROVE  Membership' /\ memo' \in [Containers -> Seq(Runners \cup {0})]
<1>1. /\ plugin' = plugin /\ runners' = runners /\ secured' = secured
      /\ deferred' = deferred /\ disposed' = disposed /\ born' = born
      /\ frozen' = frozen /\ closed' = closed
  OBVIOUS
<1>2. memo \in [Containers -> Seq(Runners \cup {0})] /\ memo' = [memo EXCEPT ![b] = Entries(b)]
  BY DEF IInv, TypeOK, Memoize
<1>3. Entries(b) \in Seq(Runners \cup {0})
  BY EntriesAreSorted, SeqMonotonic
<1>4. memo' \in [Containers -> Seq(Runners \cup {0})]
  BY <1>2, <1>3
<1>5. \A c \in Containers : memo'[c] = IF c = b THEN Sorted(runners[b]) ELSE memo[c]
  BY <1>2, EntriesAreSorted
<1>6. Unborn'
  BY <1>1, <1>5 DEF IInv, Unborn, Usable
<1>7. OnePlace' /\ Accounted'
  BY <1>1 DEF IInv, OnePlace, Accounted, Kept, Runners
<1>8. Remembered'
  BY <1>1, <1>5, SortedIs DEF IInv, TypeOK, Remembered
<1> QED
  BY <1>4, <1>6, <1>7, <1>8 DEF Membership
\* A call begins as one.
LEMMA BegunLive ==
  ASSUME NEW kind \in Kinds, NEW es \in Seq(Nat), NEW x \in BOOLEAN
  PROVE  Live(Begun(kind, es, x))
<1>1. NoCall \in CallRecords /\ NoCall.at = 0
  BY DEF NoCall, CallRecords
<1>2. ASSUME NEW c \in CallRecords, c.at = 0
      PROVE  Live([c EXCEPT !.kind = kind, !.entries = es, !.prepared = x, !.state = "running"])
  <2> DEFINE d == [c EXCEPT !.kind = kind, !.entries = es, !.prepared = x, !.state = "running"]
  <2>1. d \in CallRecords
    BY <1>2 DEF CallRecords
  <2>2. d.kind = kind /\ d.entries = es /\ d.at = 0
    BY <1>2 DEF CallRecords
  <2> HIDE DEF d
  <2>3. Live(d)
    BY <2>1, <2>2 DEF Live
  <2> QED
    BY <2>3 DEF d
<1> QED
  BY <1>1, <1>2 DEF Begun

\* A call of a strategy.
LEMMA CallIInv ==
  ASSUME IInv, NEW k \in Calls, NEW b \in Containers, NEW kind \in Kinds, Call(k, b, kind)
  PROVE  IInv'
<1> DEFINE d == Proceed(Begun(kind, Entries(b), FALSE))
<1>1. Usable(b) /\ Memoize(b) /\ scope' = scope /\ Become(k, stack, d)
  BY DEF Call
<1>2. /\ plugin' = plugin /\ runners' = runners /\ secured' = secured
      /\ deferred' = deferred /\ disposed' = disposed /\ born' = born
      /\ frozen' = frozen /\ closed' = closed
  BY DEF Call
<1>3. Membership' /\ memo' \in [Containers -> Seq(Runners \cup {0})]
  BY <1>1, <1>2, MemoizeMembership
<1>4. Live(d)
  <2>1. Live(Begun(kind, Entries(b), FALSE))
    BY <1>1, EntriesAreSorted, BegunLive
  <2> QED
    BY <2>1, ProceedLive
<1> HIDE DEF d
<1>5. ProperCalls' /\ call' \in [Calls -> CallRecords]
  BY <1>1, <1>4, BecomeProper DEF IInv, Become
<1>6. stack' = stack \/ stack' = Append(stack, k)
  BY <1>1 DEF Become
<1>7. Alike(stack, stack')
  BY <1>6, BecomeAlike DEF IInv, TypeOK
<1> QED
  BY <1>1, <1>2, <1>3, <1>5, <1>7, CallingIInv

\* A call comes to its next entry.
LEMMA AdvanceIInv ==
  ASSUME IInv, NEW k \in Calls, Advance(k)
  PROVE  IInv'
<1> DEFINE c == call[k]
<1>1. Top(k) /\ UNCHANGED members /\ scope' = scope
  BY DEF Advance
<1>2. ~Finished(c) /\ \E d \in {Trigger(c)} \cup MayThrow(c) : Become(k, Front(stack), d)
  BY DEF Advance
<1> HIDE DEF c
<1>3. PICK d \in {Trigger(c)} \cup MayThrow(c) : Become(k, Front(stack), d)
  BY <1>2
<1>4. Live(c)
  <2>1. Proper(c)
    BY DEF IInv, ProperCalls, c
  <2> QED
    BY <1>2, <2>1, LiveIsProper DEF Proper
<1>5. Live(d)
  BY <1>2, <1>3, <1>4, TriggerLive, EndingLive
<1>6. ProperCalls' /\ call' \in [Calls -> CallRecords]
  BY <1>3, <1>5, BecomeProper DEF IInv, Become
<1>7. Alike(stack, stack')
  BY <1>1, <1>3, BecomeAlike DEF IInv, TypeOK, Top, Become
<1>8. Membership'
  BY <1>1, MembersAlone DEF IInv, Membership
<1>9. memo' \in [Containers -> Seq(Runners \cup {0})]
  BY <1>1 DEF members, IInv, TypeOK
<1> QED
  BY <1>1, <1>6, <1>7, <1>8, <1>9, CallingIInv DEF members

\* parallel() launches.
LEMMA LaunchIInv ==
  ASSUME IInv, NEW k \in Calls, Launch(k)
  PROVE  IInv'
<1> DEFINE c == call[k]
<1>1. Top(k) /\ c.kind = "parallel" /\ UNCHANGED members /\ scope' = scope
  BY DEF Launch
<1>2. Live(c)
  <2>1. Proper(c) /\ c.kind # Idle
    BY <1>1 DEF IInv, ProperCalls, Idle
  <2> QED
    BY <2>1, LiveIsProper
<1> HIDE DEF c
<1>3. PICK d : /\ call' = [call EXCEPT ![k] = d]
               /\ \/ stack' = stack \/ stack' = Front(stack)
                  \/ stack' = Append(Front(stack), k)
               /\ \/ d \in {Drained(c)} \cup MayThrow(c)
                  \/ ~Finished(c) /\ d = Launched(c)
  <2>1. CASE \E d \in {Drained(c)} \cup MayThrow(c) : Become(k, Front(stack), d)
    <3>1. PICK d \in {Drained(c)} \cup MayThrow(c) : Become(k, Front(stack), d)
      BY <2>1
    <3>2. /\ call' = [call EXCEPT ![k] = d]
          /\ stack' = Front(stack) \/ stack' = Append(Front(stack), k)
      BY <3>1 DEF Become
    <3> QED
      BY <3>1, <3>2
  <2>2. CASE ~Finished(c) /\ call' = [call EXCEPT ![k] = Launched(c)] /\ stack' = stack
    BY <2>2
  <2> QED
    BY <2>1, <2>2 DEF Launch, c
<1>4. Live(d)
  BY <1>2, <1>3, ProceedLive, TriggerLive, EndingLive
<1>5. ProperCalls' /\ call' \in [Calls -> CallRecords]
  BY <1>3, <1>4, BecomeProper DEF IInv
<1>6. Alike(stack, stack')
  BY <1>1, <1>3, BecomeAlike DEF IInv, TypeOK, Top
<1>7. Membership'
  BY <1>1, MembersAlone DEF IInv, Membership
<1>8. memo' \in [Containers -> Seq(Runners \cup {0})]
  BY <1>1 DEF members, IInv, TypeOK
<1> QED
  BY <1>1, <1>5, <1>6, <1>7, <1>8, CallingIInv DEF members

\* A handler is done.
LEMMA HandlerIInv ==
  ASSUME IInv, NEW k \in Calls, NEW r \in call[k].pending,
         NEW o \in Outcomes[call[k].kind], Handler(k, r, o)
  PROVE  IInv'
<1> DEFINE c == call[k]
<1>1. UNCHANGED members /\ scope' = scope
  BY DEF Handler
<1>2. Live(c)
  <2>1. Proper(c) /\ c.kind # Idle
    BY DEF IInv, ProperCalls, Proper
  <2> QED
    BY <2>1, LiveIsProper
<1>3. r \in Nat /\ o \in AllOutcomes
  BY <1>2, ContainerAssumption DEF Live, CallRecords
<1>4. PICK d \in Follow(c, r, o) : Become(k, IF stack = <<>> THEN stack ELSE Front(stack), d)
  BY DEF Handler
<1>5. Live(d)
  BY <1>2, <1>3, <1>4, FollowLive
<1>6. ProperCalls' /\ call' \in [Calls -> CallRecords]
  BY <1>4, <1>5, BecomeProper DEF IInv, Become
<1>7. stack = <<>> \/ Top(k)
  BY DEF Handler
<1>8. Alike(stack, stack')
  BY <1>4, <1>7, BecomeAlike DEF IInv, TypeOK, Top, Become
<1>9. Membership'
  BY <1>1, MembersAlone DEF IInv, Membership
<1>10. memo' \in [Containers -> Seq(Runners \cup {0})]
  BY <1>1 DEF members, IInv, TypeOK
<1> QED
  BY <1>1, <1>6, <1>8, <1>9, <1>10, CallingIInv DEF members

\* A strategy runs inside a scope.
LEMMA DirectRunIInv ==
  ASSUME IInv, NEW k \in Calls, NEW s \in Scopes, NEW kind \in Kinds, DirectRun(k, s, kind)
  PROVE  IInv'
<1> DEFINE c == Begun(kind, scope[s].entries, TRUE)
           d == IF Finished(c) THEN Fulfil(c) ELSE Trigger(c)
<1>1. UNCHANGED members /\ scope' = scope /\ Become(k, stack, d)
  BY DEF DirectRun
<1>2. Live(c)
  <2>1. scope[s].entries \in Seq(Nat)
    BY DEF IInv, TypeOK, ScopeRecords
  <2> QED
    BY <2>1, BegunLive
<1> HIDE DEF c
<1>3. Live(d)
  BY <1>2, TriggerLive, EndingLive
<1> HIDE DEF d
<1>4. ProperCalls' /\ call' \in [Calls -> CallRecords]
  BY <1>1, <1>3, BecomeProper DEF IInv, Become
<1>5. Alike(stack, stack')
  BY <1>1, BecomeAlike DEF IInv, TypeOK, Become
<1>6. Membership'
  BY <1>1, MembersAlone DEF IInv, Membership
<1>7. memo' \in [Containers -> Seq(Runners \cup {0})]
  BY <1>1 DEF members, IInv, TypeOK
<1> QED
  BY <1>1, <1>4, <1>5, <1>6, <1>7, CallingIInv DEF members
-----------------------------------------------------------------------------
\* The scopes in use are the first ones, and the next is the one after them.
LEMMA FirstScopes ==
  ASSUME Nested
  PROVE  \E m \in 0..MaxScopes : /\ {s \in Scopes : Used(s)} = 1..m
                                  /\ Cardinality({s \in Scopes : Used(s)}) = m
<1> DEFINE D == {s \in Scopes : Used(s)}
           T == {x \in 1..(MaxScopes + 1) : x \notin D}
<1>1. MaxScopes \in Nat /\ D \subseteq 1..MaxScopes
  BY ContainerAssumption DEF Scopes
<1>2. \A s \in D : \A q \in 1..s : q \in D
  BY <1>1 DEF Nested, Scopes
<1> HIDE DEF D
<1>3. MaxScopes + 1 \in T /\ T \subseteq Nat
  BY <1>1
<1>4. PICK x \in T : \A y \in T : x <= y
  BY <1>3, LeastNat
<1>5. x - 1 \in 0..MaxScopes
  BY <1>1, <1>4
<1>6. \A y \in 1..(x - 1) : y \in D
  <2> SUFFICES ASSUME NEW y \in 1..(x - 1), y \notin D PROVE FALSE
    OBVIOUS
  <2>1. y \in T /\ ~(x <= y)
    BY <1>1, <1>4
  <2> QED
    BY <1>4, <2>1
<1>7. \A y \in D : y \in 1..(x - 1)
  <2> SUFFICES ASSUME NEW y \in D, y \notin 1..(x - 1) PROVE FALSE
    OBVIOUS
  <2>1. x \in 1..y
    BY <1>1, <1>4
  <2> QED
    BY <1>2, <1>4, <2>1
<1>8. D = 1..(x - 1)
  BY <1>6, <1>7
<1>9. Cardinality(D) = x - 1
  <2>1. Cardinality(1..(x - 1)) = IF 1 > x - 1 THEN 0 ELSE (x - 1) - 1 + 1
    BY <1>5, FS_Interval
  <2> QED
    BY <1>5, <1>8, <2>1
<1> QED
  BY <1>5, <1>8, <1>9 DEF D

\* A direct scope opens.
LEMMA OpenScopeIInv ==
  ASSUME IInv, NEW b \in Containers, OpenScope(b)
  PROVE  IInv'
<1>1. PICK m \in 0..MaxScopes : /\ {s \in Scopes : Used(s)} = 1..m
                                /\ Cardinality({s \in Scopes : Used(s)}) = m
  BY FirstScopes DEF IInv
<1> DEFINE s == m + 1
           d == [box |-> b, entries |-> Entries(b), prepared |-> 0,
                 state |-> IF Entries(b) = <<>> THEN "open" ELSE "preparing"]
<1>2. /\ Usable(b) /\ Memoize(b) /\ s \in Scopes
      /\ scope' = [scope EXCEPT ![s] = d]
      /\ stack' = Append(stack, s)
  BY <1>1 DEF OpenScope, Used
<1>3. /\ plugin' = plugin /\ runners' = runners /\ secured' = secured
      /\ deferred' = deferred /\ disposed' = disposed /\ born' = born
      /\ frozen' = frozen /\ closed' = closed /\ call' = call
  BY DEF OpenScope
<1>4. Membership' /\ memo' \in [Containers -> Seq(Runners \cup {0})]
  BY <1>2, <1>3, MemoizeMembership
<1>5. s \in Nat /\ s > m /\ \A q \in Scopes : Used(q) => q < s
  BY <1>1
<1> HIDE DEF s
<1>6. TypeOK /\ Nested /\ PutOff /\ Snapshots /\ ProperCalls
  BY DEF IInv
<1>7. /\ Entries(b) \in Seq(Nat) /\ ToSet(Entries(b)) \subseteq ToSet(runners[b])
      /\ b \in born
  BY <1>2, EntriesAreSorted DEF Usable
<1>8. /\ stack \in Seq(Calls \cup Scopes) /\ stack' \in Seq(Calls \cup Scopes)
      /\ Len(stack) \in Nat /\ Len(stack') = Len(stack) + 1
      /\ stack'[Len(stack) + 1] = s /\ \A i \in 1..Len(stack) : stack'[i] = stack[i]
  BY <1>2, <1>6 DEF TypeOK
<1>9. d \in ScopeRecords /\ d.box = b /\ d.entries = Entries(b) /\ d.state # Idle
  BY <1>7 DEF ScopeRecords, Idle
<1> HIDE DEF d
<1>10. /\ scope' \in [Scopes -> ScopeRecords]
       /\ scope'[s].box = b /\ scope'[s].entries = Entries(b) /\ scope'[s].state # Idle
       /\ \A q \in Scopes \ {s} : scope'[q] = scope[q]
  BY <1>2, <1>6, <1>9 DEF TypeOK
<1>11. TypeOK'
  <2>1. Runners' = Runners /\ ScopeRecords' = ScopeRecords /\ CallRecords' = CallRecords
        /\ Scopes' = Scopes
    BY <1>3 DEF Runners, ScopeRecords, CallRecords, Scopes
  <2> QED
    BY <1>3, <1>4, <1>6, <1>8, <1>10, <2>1 DEF TypeOK
<1>12. /\ Used(s)' /\ ~Used(s) /\ \A q \in Scopes \ {s} : Used(q)' <=> Used(q)
       /\ Scopes' = Scopes
  BY <1>2, <1>5, <1>10 DEF Used, Scopes
<1>13. Nested'
  <2>1. ASSUME NEW i \in 1..Len(stack'), stack'[i] \in Scopes
        PROVE  Used(stack[i])'
    <3>1. CASE i = Len(stack) + 1
      BY <1>8, <1>10, <3>1 DEF Used
    <3>2. CASE i # Len(stack) + 1
      <4>1. i \in 1..Len(stack) /\ stack[i] = stack'[i]
        BY <1>8, <3>2
      <4>2. Used(stack[i])
        BY <1>6, <2>1, <4>1 DEF Nested
      <4>3. stack[i] # s
        BY <1>12, <4>2
      <4> QED
        BY <1>10, <2>1, <4>1, <4>2, <4>3 DEF Used
    <3> QED
      BY <3>1, <3>2
  <2>2. ASSUME NEW i \in 1..Len(stack'), NEW j \in 1..Len(stack'),
               stack'[i] \in Scopes, stack'[j] \in Scopes, i < j
        PROVE  stack'[i] < stack'[j]
    <3>1. i \in 1..Len(stack) /\ stack[i] = stack'[i] /\ Used(stack[i])
      BY <1>6, <1>8, <2>2 DEF Nested
    <3>2. CASE j = Len(stack) + 1
      BY <1>5, <1>8, <2>2, <3>1, <3>2
    <3>3. CASE j # Len(stack) + 1
      <4>1. j \in 1..Len(stack) /\ stack[j] = stack'[j]
        BY <1>8, <3>3
      <4> QED
        BY <1>6, <2>2, <3>1, <4>1 DEF Nested
    <3> QED
      BY <3>2, <3>3
  <2>3. ASSUME NEW t \in Scopes, Used(t)'
        PROVE  /\ scope'[t].box \in born'
               /\ \E i \in 1..Len(stack') : stack'[i] = t
               /\ \A q \in 1..t : Used(q)'
    <3>1. CASE t = s
      <4>1. Len(stack) + 1 \in 1..Len(stack') /\ stack'[Len(stack) + 1] = t
        BY <1>8, <3>1
      <4>2. ASSUME NEW q \in 1..s PROVE Used(q)'
        <5>1. CASE q = s
          BY <1>12, <5>1
        <5>2. CASE q # s
          <6>1. q \in 1..m
            BY <1>5, <5>2 DEF s
          <6>2. q \in Scopes /\ Used(q)
            BY <1>1, <6>1
          <6> QED
            BY <1>12, <5>2, <6>2
        <5> QED
          BY <5>1, <5>2
      <4> QED
        BY <1>3, <1>7, <1>10, <3>1, <4>1, <4>2
    <3>2. CASE t # s
      <4>1. Used(t) /\ scope'[t] = scope[t]
        BY <1>10, <1>12, <2>3, <3>2
      <4>2. scope[t].box \in born /\ (\E i \in 1..Len(stack) : stack[i] = t)
            /\ \A q \in 1..t : Used(q)
        BY <1>6, <4>1 DEF Nested
      <4>3. \E i \in 1..Len(stack') : stack'[i] = t
        BY <1>8, <4>2
      <4>4. ASSUME NEW q \in 1..t PROVE Used(q)'
        <5>1. Used(q) /\ q \in Scopes
          BY <4>2, ContainerAssumption DEF Scopes
        <5> QED
          BY <1>12, <5>1
      <4> QED
        BY <1>3, <4>1, <4>2, <4>3, <4>4
    <3> QED
      BY <3>1, <3>2
  <2>4. \A i \in 1..Len(stack') : stack'[i] \in Scopes => Used(stack[i])'
    BY <2>1
  <2>5. \A i, j \in 1..Len(stack') :
          stack'[i] \in Scopes /\ stack'[j] \in Scopes /\ i < j => stack'[i] < stack'[j]
    BY <2>2
  <2>6. \A t \in Scopes : Used(t)' =>
          /\ scope'[t].box \in born'
          /\ \E i \in 1..Len(stack') : stack'[i] = t
          /\ \A q \in 1..t : Used(q)'
    BY <2>3
  <2> QED
    BY <1>12, <2>4, <2>5, <2>6 DEF Nested
<1>14. \A c \in Containers : InScope(c) => InScope(c)'
  <2> SUFFICES ASSUME NEW c \in Containers, InScope(c) PROVE InScope(c)'
    OBVIOUS
  <2>1. PICK i \in 1..Len(stack) : stack[i] \in Scopes /\ Counts(stack[i], c)
    BY <1>8 DEF InScope
  <2>2. Used(stack[i]) /\ stack[i] # s
    BY <1>6, <1>12, <2>1 DEF Nested
  <2>3. /\ i \in DOMAIN stack' /\ stack'[i] = stack[i]
        /\ scope'[stack'[i]] = scope[stack[i]]
    BY <1>8, <1>10, <2>1, <2>2
  <2> QED
    BY <1>12, <2>1, <2>3 DEF InScope, Counts
<1>15. PutOff'
  BY <1>3, <1>6, <1>14 DEF PutOff
<1>16. Snapshots'
  <2> SUFFICES ASSUME NEW t \in Scopes, Used(t)', scope'[t].box \notin closed
               PROVE  ToSet(scope'[t].entries) \subseteq (Kept(scope[t].box) \cup disposed)'
    BY <1>3, <1>12 DEF Snapshots
  <2>1. CASE t = s
    BY <1>3, <1>7, <1>10, <2>1 DEF Kept
  <2>2. CASE t # s
    BY <1>3, <1>6, <1>10, <1>12, <2>2 DEF Kept, Snapshots
  <2> QED
    BY <2>1, <2>2
<1>17. ProperCalls'
  BY <1>3, <1>6 DEF ProperCalls, Proper, CallRecords
<1> QED
  BY <1>4, <1>11, <1>13, <1>15, <1>16, <1>17 DEF IInv, Membership
\* What was put off is disposed.
LEMMA SettleDeferred ==
  ASSUME IInv, NEW b \in Containers,
         disposed' = disposed \cup deferred[b], deferred' = [deferred EXCEPT ![b] = {}],
         UNCHANGED <<plugin, runners, memo, secured, born, closed>>
  PROVE  /\ Membership' /\ disposed' \subseteq Runners
         /\ deferred' \in [Containers -> SUBSET Runners]
         /\ \A c \in Containers : Kept(c) \cup disposed \subseteq (Kept(c) \cup disposed)'
<1>1. /\ plugin' = plugin /\ runners' = runners /\ secured' = secured
      /\ memo' = memo /\ born' = born /\ closed' = closed
  OBVIOUS
<1>2. /\ deferred \in [Containers -> SUBSET Runners] /\ disposed \subseteq Runners
      /\ Unborn /\ OnePlace /\ Accounted /\ Remembered
  BY DEF IInv, TypeOK
<1>3. /\ deferred' \in [Containers -> SUBSET Runners] /\ disposed' \subseteq Runners
      /\ \A c \in Containers : deferred'[c] = IF c = b THEN {} ELSE deferred[c]
  BY <1>2
<1>4. Unborn'
  BY <1>1, <1>2, <1>3 DEF Unborn
<1>5. \A c \in Containers : Kept(c)' = IF c = b THEN ToSet(runners[b]) ELSE Kept(c)
  BY <1>1, <1>3 DEF Kept
<1>6. OnePlace'
  <2>1. \A c \in Containers : Kept(c)' \subseteq Kept(c) /\ deferred'[c] \subseteq deferred[c]
    BY <1>3, <1>5 DEF Kept
  <2> QED
    BY <1>1, <1>2, <2>1 DEF OnePlace
<1>7. Accounted'
  <2>1. \A c \in Containers : Kept(c)' \cap disposed' = {}
    BY <1>2, <1>3, <1>5 DEF OnePlace, Accounted, Kept
  <2>2. ASSUME NEW r \in Runners, r \notin disposed' PROVE \E c \in Containers : r \in Kept(c)'
    <3>1. PICK c \in Containers : r \in Kept(c)
      BY <1>2, <2>2 DEF Accounted
    <3>2. r \notin deferred[b]
      BY <2>2
    <3>3. r \in Kept(c)'
      BY <1>5, <3>1, <3>2 DEF Kept
    <3> QED
      BY <3>3
  <2>3. Runners' = Runners
    BY <1>1 DEF Runners
  <2> QED
    BY <2>1, <2>2, <2>3 DEF Accounted
<1>8. Remembered'
  BY <1>1, <1>2, SortedIs DEF Remembered
<1>9. \A c \in Containers : Kept(c) \cup disposed \subseteq (Kept(c) \cup disposed)'
  BY <1>5 DEF Kept
<1> QED
  BY <1>3, <1>4, <1>6, <1>7, <1>8, <1>9 DEF Membership

\* A scope other than the last one on the stack counts for container c.
Below(c) == \E i \in 1..Len(stack) - 1 : stack[i] \in Scopes /\ Counts(stack[i], c)

\* The last scope leaves the stack, with the removals that waited for it or none.
LEMMA EndedIInv ==
  ASSUME IInv, NEW s \in Scopes, Top(s), scope' = [scope EXCEPT ![s] = NoScope],
         stack' = Front(stack),
         UNCHANGED <<plugin, runners, memo, secured, born, frozen, closed, call>>,
         Membership', disposed' \subseteq Runners,
         deferred' \in [Containers -> SUBSET Runners],
         \A c \in Containers : Kept(c) \cup disposed \subseteq (Kept(c) \cup disposed)',
         \A c \in Containers : deferred'[c] # {} /\ c \notin closed => Below(c)
  PROVE  IInv'
<1> DEFINE n == Len(stack) - 1
<1>1. stack # <<>> /\ Last(stack) = s
  BY DEF Top
<1>2. /\ plugin' = plugin /\ runners' = runners /\ secured' = secured
      /\ memo' = memo /\ born' = born /\ frozen' = frozen /\ closed' = closed /\ call' = call
  OBVIOUS
<1>3. TypeOK /\ Nested /\ PutOff /\ Snapshots /\ ProperCalls
  BY DEF IInv
<1>7. /\ n \in Nat /\ stack[n + 1] = s /\ Len(stack) = n + 1
      /\ stack' \in Seq(Calls \cup Scopes) /\ Len(stack') = n
      /\ \A i \in 1..n : stack'[i] = stack[i]
      /\ stack \in Seq(Calls \cup Scopes)
  <2>1. stack \in Seq(Calls \cup Scopes) /\ Len(stack) \in Nat \ {0}
    BY <1>1, <1>3 DEF TypeOK
  <2> QED
    BY <1>1, <2>1, FrontElements DEF Last
<1>8. DOMAIN stack = 1..(n + 1) /\ DOMAIN stack' = 1..n
  BY <1>7
<1>9. NoScope \in ScopeRecords /\ NoScope.state = Idle
  BY DEF NoScope, ScopeRecords, Containers
<1>10. /\ scope' \in [Scopes -> ScopeRecords] /\ scope'[s] = NoScope
       /\ \A q \in Scopes \ {s} : scope'[q] = scope[q]
  BY <1>1, <1>3, <1>9 DEF TypeOK
<1>11. /\ ~Used(s)' /\ \A q \in Scopes \ {s} : Used(q)' <=> Used(q)
       /\ Scopes' = Scopes
  BY <1>9, <1>10 DEF Used, Scopes, Idle
<1>12. \A i \in 1..n : stack[i] \in Scopes => stack[i] < s /\ Used(stack[i])
  <2> SUFFICES ASSUME NEW i \in 1..n, stack[i] \in Scopes
               PROVE  stack[i] < s /\ Used(stack[i])
    OBVIOUS
  <2>1. i \in 1..Len(stack) /\ n + 1 \in 1..Len(stack) /\ i < n + 1
    BY <1>7
  <2> HIDE DEF n
  <2> QED
    BY <1>3, <1>7, <2>1 DEF Nested
<1>13. \A q \in Scopes : q \in Nat
  BY DEF Scopes
<1> HIDE DEF n
<1>14. TypeOK'
  <2>1. Runners' = Runners /\ ScopeRecords' = ScopeRecords /\ CallRecords' = CallRecords
        /\ Scopes' = Scopes
    BY <1>2 DEF Runners, ScopeRecords, CallRecords, Scopes
  <2> QED
    BY <1>2, <1>3, <1>7, <1>10, <2>1 DEF TypeOK
<1>15. \A i \in 1..n : stack[i] \in Scopes => stack[i] # s /\ scope'[stack[i]] = scope[stack[i]]
  BY <1>10, <1>12, <1>13
<1>16. \A t \in Scopes : Used(t)' => /\ Used(t) /\ t # s /\ scope'[t] = scope[t]
                                    /\ \E i \in 1..n : stack[i] = t
  <2> SUFFICES ASSUME NEW t \in Scopes, Used(t)'
               PROVE  /\ Used(t) /\ t # s /\ scope'[t] = scope[t]
                      /\ \E i \in 1..n : stack[i] = t
    OBVIOUS
  <2>1. t # s /\ Used(t) /\ scope'[t] = scope[t]
    BY <1>10, <1>11
  <2>2. PICK i \in 1..Len(stack) : stack[i] = t
    BY <1>3, <2>1 DEF Nested
  <2>3. i \in 1..n
    BY <1>7, <2>1, <2>2
  <2> QED
    BY <2>1, <2>2, <2>3
<1>17. Nested'
  <2>1. \A i \in 1..Len(stack') : stack'[i] \in Scopes => Used(stack[i])'
    BY <1>7, <1>12, <1>15 DEF Used
  <2>2. \A i, j \in 1..Len(stack') :
          stack'[i] \in Scopes /\ stack'[j] \in Scopes /\ i < j => stack'[i] < stack'[j]
    BY <1>3, <1>7 DEF Nested
  <2>3. ASSUME NEW t \in Scopes, Used(t)'
        PROVE  /\ scope'[t].box \in born'
               /\ \E i \in 1..Len(stack') : stack'[i] = t
               /\ \A q \in 1..t : Used(q)'
    <3>1. /\ Used(t) /\ t # s /\ scope'[t] = scope[t] /\ \E i \in 1..n : stack[i] = t
      BY <1>16, <2>3
    <3>2. t < s /\ \E i \in 1..Len(stack') : stack'[i] = t
      BY <1>7, <1>12, <3>1
    <3>3. scope[t].box \in born /\ \A q \in 1..t : Used(q)
      BY <1>3, <3>1 DEF Nested
    <3>4. ASSUME NEW q \in 1..t PROVE Used(q)'
      <4>1. q \in Scopes \ {s}
        BY <1>13, <3>2, ContainerAssumption DEF Scopes
      <4> QED
        BY <1>11, <3>3, <4>1
    <3> QED
      BY <1>2, <3>1, <3>2, <3>3, <3>4
  <2> QED
    BY <1>11, <2>1, <2>2, <2>3 DEF Nested
<1>18. PutOff'
  <2> SUFFICES ASSUME NEW c \in Containers, deferred'[c] # {}, c \notin closed
               PROVE  InScope(c)'
    BY <1>2 DEF PutOff
  <2>1. PICK i \in 1..n : stack[i] \in Scopes /\ Counts(stack[i], c)
    BY DEF Below, n
  <2>2. i \in DOMAIN stack' /\ stack'[i] = stack[i] /\ scope'[stack[i]] = scope[stack[i]]
    BY <1>7, <1>8, <1>15, <2>1
  <2> QED
    BY <1>11, <2>1, <2>2 DEF InScope, Counts
<1>19. Snapshots'
  <2> SUFFICES ASSUME NEW t \in Scopes, Used(t)', scope'[t].box \notin closed
               PROVE  ToSet(scope'[t].entries) \subseteq (Kept(scope[t].box) \cup disposed)'
    BY <1>2, <1>11, <1>16 DEF Snapshots
  <2>1. Used(t) /\ scope'[t] = scope[t] /\ scope[t].box \in Containers
    BY <1>3, <1>16 DEF TypeOK, ScopeRecords
  <2>2. ToSet(scope[t].entries) \subseteq Kept(scope[t].box) \cup disposed
    BY <1>3, <2>1 DEF Snapshots
  <2> QED
    BY <2>1, <2>2
<1>20. ProperCalls'
  BY <1>2, <1>3 DEF ProperCalls, Proper, CallRecords
<1> QED
  BY <1>14, <1>17, <1>18, <1>19, <1>20 DEF IInv, Membership

\* A direct scope ends.
LEMMA CloseScopeIInv ==
  ASSUME IInv, NEW s \in Scopes, CloseScope(s)
  PROVE  IInv'
<1> DEFINE b == scope[s].box
<1>1. /\ Top(s) /\ stack' = Front(stack) /\ scope' = [scope EXCEPT ![s] = NoScope]
      /\ UNCHANGED <<plugin, runners, memo, secured, born, frozen, closed, call>>
  BY DEF CloseScope
<1>2. TypeOK /\ PutOff /\ b \in Containers
  BY DEF IInv, TypeOK, ScopeRecords
<1>3. \/ /\ InnerScopes(b) = {} /\ b \notin closed
         /\ disposed' = disposed \cup deferred[b]
         /\ deferred' = [deferred EXCEPT ![b] = {}]
      \/ /\ InnerScopes(b) # {} \/ b \in closed
         /\ disposed' = disposed /\ deferred' = deferred
  BY DEF CloseScope
<1>4. /\ stack \in Seq(Calls \cup Scopes) /\ Len(stack) \in Nat \ {0}
      /\ stack[Len(stack)] = s /\ DOMAIN stack = 1..Len(stack)
  BY <1>1, <1>2 DEF Top, Last, TypeOK
<1>5. /\ Membership' /\ disposed' \subseteq Runners
      /\ deferred' \in [Containers -> SUBSET Runners]
      /\ \A c \in Containers : Kept(c) \cup disposed \subseteq (Kept(c) \cup disposed)'
  <2>1. CASE disposed' = disposed \cup deferred[b] /\ deferred' = [deferred EXCEPT ![b] = {}]
    BY <1>1, <1>2, <2>1, SettleDeferred
  <2>2. CASE disposed' = disposed /\ deferred' = deferred
    BY <1>1, <1>2, <2>2, MembersAlone DEF IInv, Membership, members, TypeOK, Kept
  <2> QED
    BY <1>3, <2>1, <2>2
<1>6. \A c \in Containers : deferred'[c] # {} /\ c \notin closed => Below(c)
  <2> SUFFICES ASSUME NEW c \in Containers, deferred'[c] # {}, c \notin closed PROVE Below(c)
    OBVIOUS
  <2>1. CASE c = b
    <3>1. InnerScopes(b) # {}
      BY <1>2, <1>3, <2>1 DEF TypeOK
    <3> QED
      BY <2>1, <3>1 DEF InnerScopes, Below
  <2>2. CASE c # b
    <3>1. deferred[c] # {}
      BY <1>2, <1>3, <2>2 DEF TypeOK
    <3>2. PICK i \in 1..Len(stack) : stack[i] \in Scopes /\ Counts(stack[i], c)
      BY <1>2, <1>4, <3>1 DEF PutOff, InScope
    <3>3. i # Len(stack)
      BY <1>4, <2>2, <3>2 DEF Counts
    <3>4. i \in 1..Len(stack) - 1
      <4>1. Len(stack) \in Nat
        BY <1>4
      <4> QED
        BY <3>2, <3>3, <4>1
    <3> QED
      BY <3>2, <3>4 DEF Below
  <2> QED
    BY <2>1, <2>2
<1> QED
  BY <1>1, <1>5, <1>6, EndedIInv

\* One more entry is prepared, or the scope is given up.
LEMMA PrepareIInv ==
  ASSUME IInv, NEW s \in Scopes, Prepare(s)
  PROVE  IInv'
<1> DEFINE n == scope[s].prepared + 1
<1>1. Top(s) /\ scope[s].state = "preparing" /\ UNCHANGED members /\ call' = call
  BY DEF Prepare
<1>2. TypeOK /\ Nested /\ PutOff /\ Snapshots /\ ProperCalls /\ Membership
  BY DEF IInv, Membership
<1>3. /\ plugin' = plugin /\ runners' = runners /\ secured' = secured /\ memo' = memo
      /\ deferred' = deferred /\ disposed' = disposed /\ born' = born
      /\ frozen' = frozen /\ closed' = closed
  BY <1>1 DEF members
<1>4. Membership'
  BY <1>1, <1>2, MembersAlone
<1>5. /\ stack \in Seq(Calls \cup Scopes) /\ Len(stack) \in Nat \ {0}
      /\ stack[Len(stack)] = s /\ DOMAIN stack = 1..Len(stack)
  BY <1>1, <1>2 DEF Top, Last, TypeOK
<1>6. CASE /\ scope' = [scope EXCEPT ![s].prepared = n,
                          ![s].state = IF n = Len(scope[s].entries) THEN "open" ELSE @]
           /\ stack' = stack
  <2>1. scope \in [Scopes -> ScopeRecords] /\ scope[s] \in ScopeRecords
    BY <1>2 DEF TypeOK
  <2> DEFINE d == [scope[s] EXCEPT !.prepared = n,
                     !.state = IF n = Len(scope[s].entries) THEN "open" ELSE @]
  <2>2. /\ d \in ScopeRecords /\ d.box = scope[s].box /\ d.entries = scope[s].entries
        /\ d.state # Idle
    <3>1. n \in Nat /\ scope[s].state = "preparing"
      BY <1>1, <2>1 DEF ScopeRecords
    <3> HIDE DEF n
    <3> QED
      BY <2>1, <3>1 DEF ScopeRecords, Idle
  <2>3. scope' = [scope EXCEPT ![s] = d]
    BY <1>6, <2>1
  <2> HIDE DEF d
  <2>4. /\ scope' \in [Scopes -> ScopeRecords] /\ scope'[s] = d
        /\ \A t \in Scopes \ {s} : scope'[t] = scope[t]
    BY <2>1, <2>2, <2>3
  <2>5. /\ \A t \in Scopes : /\ Used(t)' <=> Used(t)
                             /\ scope'[t].box = scope[t].box
                             /\ scope'[t].entries = scope[t].entries
                             /\ \A c : Counts(t, c) => Counts(t, c)'
        /\ Scopes' = Scopes
    BY <1>1, <2>2, <2>4 DEF Used, Counts, Scopes, Idle
  <2>6. TypeOK'
    <3>1. Runners' = Runners /\ ScopeRecords' = ScopeRecords /\ CallRecords' = CallRecords
      BY <1>3 DEF Runners, ScopeRecords, CallRecords
    <3> QED
      BY <1>1, <1>2, <1>3, <1>6, <2>4, <2>5, <3>1 DEF TypeOK
  <2>7. Nested'
    <3>1. \A t \in Scopes : \A q \in 1..t : q \in Scopes
      BY ContainerAssumption DEF Scopes
    <3>2. \A i \in 1..Len(stack') : stack'[i] \in Scopes => Used(stack[i])'
      BY <1>2, <1>6, <2>5 DEF Nested
    <3>3. \A i, j \in 1..Len(stack') :
            stack'[i] \in Scopes /\ stack'[j] \in Scopes /\ i < j => stack'[i] < stack'[j]
      BY <1>2, <1>6 DEF Nested
    <3>4. ASSUME NEW t \in Scopes, Used(t)'
          PROVE  /\ scope'[t].box \in born'
                 /\ \E i \in 1..Len(stack') : stack'[i] = t
                 /\ \A q \in 1..t : Used(q)'
      <4>1. /\ scope[t].box \in born /\ \A q \in 1..t : Used(q)
            /\ \E i \in 1..Len(stack) : stack[i] = t
        BY <1>2, <2>5, <3>4 DEF Nested
      <4>2. \A q \in 1..t : Used(q)'
        BY <2>5, <3>1, <4>1
      <4>3. scope'[t].box \in born'
        BY <1>3, <2>5, <4>1
      <4>4. \E i \in 1..Len(stack') : stack'[i] = t
        BY <1>6, <4>1
      <4> QED
        BY <4>2, <4>3, <4>4
    <3> QED
      BY <2>5, <3>2, <3>3, <3>4 DEF Nested
  <2>8. PutOff'
    BY <1>2, <1>3, <1>6, <2>5 DEF PutOff, InScope
  <2>9. Snapshots'
    BY <1>2, <1>3, <2>5 DEF Snapshots, Kept
  <2>10. ProperCalls'
    BY <1>1, <1>2 DEF ProperCalls, Proper, CallRecords, Finished
  <2> QED
    BY <1>4, <2>6, <2>7, <2>8, <2>9, <2>10 DEF IInv, Membership
<1>7. CASE scope' = [scope EXCEPT ![s] = NoScope] /\ stack' = Front(stack)
  <2>1. \A c \in Containers : deferred'[c] # {} /\ c \notin closed => Below(c)
    <3> SUFFICES ASSUME NEW c \in Containers, deferred[c] # {}, c \notin closed PROVE Below(c)
      BY <1>3
    <3>1. PICK i \in 1..Len(stack) : stack[i] \in Scopes /\ Counts(stack[i], c)
      BY <1>2, <1>5 DEF PutOff, InScope
    <3>2. i # Len(stack)
      BY <1>1, <1>5, <3>1 DEF Counts
    <3>3. i \in 1..Len(stack) - 1
      <4>1. Len(stack) \in Nat
        BY <1>5
      <4> QED
        BY <3>1, <3>2, <4>1
    <3> QED
      BY <3>1, <3>3 DEF Below
  <2>2. \A c \in Containers : Kept(c) \cup disposed \subseteq (Kept(c) \cup disposed)'
    BY <1>3 DEF Kept
  <2>3. disposed' \subseteq Runners /\ deferred' \in [Containers -> SUBSET Runners]
    BY <1>2, <1>3 DEF TypeOK
  <2> QED
    BY <1>1, <1>3, <1>4, <1>7, <2>1, <2>2, <2>3, EndedIInv
<1>8. \/ /\ scope' = [scope EXCEPT ![s].prepared = n,
                          ![s].state = IF n = Len(scope[s].entries) THEN "open" ELSE @]
         /\ stack' = stack
      \/ scope' = [scope EXCEPT ![s] = NoScope] /\ stack' = Front(stack)
  BY DEF Prepare
<1> QED
  BY <1>6, <1>7, <1>8
-----------------------------------------------------------------------------
\* What a change of the membership keeps to.
MembersTyped ==
  /\ plugin \in Seq(Plugins) /\ Len(plugin) <= MaxRunners
  /\ runners \in [Containers -> Seq(Runners)]
  /\ memo \in [Containers -> Seq(Runners \cup {0})]
  /\ secured \in [Containers -> SUBSET Plugins]
  /\ deferred \in [Containers -> SUBSET Runners]
  /\ disposed \subseteq Runners
  /\ born \subseteq Containers /\ closed \subseteq born /\ frozen \subseteq born

\* A change of the membership leaves calls, scopes and stack alone.
LEMMA ChangeIInv ==
  ASSUME IInv, UNCHANGED <<stack, scope, call>>, born \subseteq born',
         MembersTyped', Membership', PutOff', Snapshots'
  PROVE  IInv'
<1>1. stack' = stack /\ scope' = scope /\ call' = call
  OBVIOUS
<1>2. TypeOK /\ Nested /\ ProperCalls
  BY DEF IInv
<1>3. ScopeRecords' = ScopeRecords /\ CallRecords' = CallRecords /\ Scopes' = Scopes
  BY DEF ScopeRecords, CallRecords, Scopes
<1>4. TypeOK'
  BY <1>1, <1>2, <1>3 DEF TypeOK, MembersTyped
<1>5. Alike(stack, stack')
  <2>1. stack \in Seq(Calls \cup Scopes) /\ Len(stack) \in Nat
    BY <1>2 DEF TypeOK
  <2> QED
    BY <1>1, <2>1 DEF Alike
<1>6. Nested'
  BY <1>1, <1>2, <1>5, AlikeScopes
<1>7. ProperCalls'
  BY <1>1, <1>2 DEF ProperCalls, Proper, CallRecords
<1> QED
  BY <1>4, <1>6, <1>7 DEF IInv, Membership

\* A scope is on the stack as long as the stack and the scopes stay.
LEMMA InScopeSame ==
  ASSUME UNCHANGED <<stack, scope>>
  PROVE  /\ \A b : InScope(b)' <=> InScope(b)
         /\ \A s : Used(s)' <=> Used(s)
         /\ Scopes' = Scopes
BY DEF InScope, Counts, Used, Scopes, Idle

\* More plugins, more runners.
LEMMA MoreRunners ==
  ASSUME IInv, Len(plugin') \in Nat, Len(plugin) <= Len(plugin')
  PROVE  /\ Runners \subseteq Runners' /\ Len(plugin) \in Nat
         /\ \A s \in Seq(Runners) : s \in Seq(Runners')
         /\ \A s \in Seq(Runners \cup {0}) : s \in Seq(Runners' \cup {0})
<1>1. Len(plugin) \in Nat
  BY DEF IInv, TypeOK
<1>2. Runners \subseteq Runners'
  BY <1>1 DEF Runners
<1>3. Runners \cup {0} \subseteq Runners' \cup {0}
  BY <1>2
<1> QED
  BY <1>1, <1>2, <1>3, SeqMonotonic

\* Protecting moves no runner.
LEMMA ProtectIInv ==
  ASSUME IInv, NEW b \in Containers, NEW p \in Plugins, Protect(b, p)
  PROVE  IInv'
<1>1. /\ Usable(b) /\ Registers(b, p) /\ secured' = [secured EXCEPT ![b] = @ \cup {p}]
      /\ plugin' = plugin /\ runners' = runners /\ memo' = memo /\ deferred' = deferred
      /\ disposed' = disposed /\ born' = born /\ frozen' = frozen /\ closed' = closed
      /\ UNCHANGED <<stack, scope, call>>
  BY DEF Protect, Writable
<1>2. TypeOK /\ Membership /\ PutOff /\ Snapshots
  BY DEF IInv, Membership
<1>3. MembersTyped'
  BY <1>1, <1>2 DEF MembersTyped, TypeOK, Runners
<1>4. Unborn' /\ OnePlace' /\ Accounted'
  BY <1>1, <1>2 DEF TypeOK, Membership, Unborn, OnePlace, Accounted, Kept, Runners, Usable
<1>5. Remembered'
  BY <1>1, <1>2, SortedIs DEF Membership, Remembered
<1>6. PutOff' /\ Snapshots'
  BY <1>1, <1>2, InScopeSame DEF PutOff, Snapshots, Kept
<1> QED
  BY <1>1, <1>3, <1>4, <1>5, <1>6, ChangeIInv DEF Membership

\* Freezing moves no runner.
LEMMA FreezeIInv ==
  ASSUME IInv, NEW b \in Containers, Freeze(b)
  PROVE  IInv'
<1>1. /\ Usable(b) /\ frozen' = frozen \cup {b}
      /\ plugin' = plugin /\ runners' = runners /\ memo' = memo /\ deferred' = deferred
      /\ disposed' = disposed /\ born' = born /\ secured' = secured /\ closed' = closed
      /\ UNCHANGED <<stack, scope, call>>
  BY DEF Freeze
<1>2. TypeOK /\ Membership /\ PutOff /\ Snapshots
  BY DEF IInv, Membership
<1>3. MembersTyped'
  BY <1>1, <1>2 DEF MembersTyped, TypeOK, Runners, Usable
<1>4. Unborn' /\ OnePlace' /\ Accounted'
  BY <1>1, <1>2 DEF Membership, Unborn, OnePlace, Accounted, Kept, Runners
<1>5. Remembered'
  BY <1>1, <1>2, SortedIs DEF Membership, Remembered
<1>6. PutOff' /\ Snapshots'
  BY <1>1, <1>2, InScopeSame DEF PutOff, Snapshots, Kept
<1> QED
  BY <1>1, <1>3, <1>4, <1>5, <1>6, ChangeIInv DEF Membership

\* A new runner has no place but the one it gets.
LEMMA RegisterIInv ==
  ASSUME IInv, NEW b \in Containers, NEW p \in Plugins, Register(b, p)
  PROVE  IInv'
<1> DEFINE r == Len(plugin) + 1
<1>1. /\ Usable(b) /\ Len(plugin) < MaxRunners /\ plugin' = Append(plugin, p)
      /\ runners' = [runners EXCEPT ![b] = Append(@, Len(plugin'))]
      /\ memo' = [memo EXCEPT ![b] = NoMemo] /\ deferred' = deferred
      /\ disposed' = disposed /\ born' = born /\ secured' = secured /\ closed' = closed
      /\ frozen' = frozen /\ UNCHANGED <<stack, scope, call>>
  BY DEF Register, Writable, Forget
<1>2. TypeOK /\ Unborn /\ OnePlace /\ Accounted /\ Remembered /\ PutOff /\ Snapshots
  BY DEF IInv
<1>3. /\ plugin' \in Seq(Plugins) /\ Len(plugin') = r /\ Len(plugin) \in Nat /\ r \in Nat
      /\ \A q \in 1..Len(plugin) : plugin'[q] = plugin[q]
      /\ Len(plugin') <= MaxRunners
  BY <1>1, <1>2, ContainerAssumption DEF TypeOK
<1>4. /\ Runners' = Runners \cup {r} /\ r \notin Runners /\ Runners \subseteq Runners'
      /\ \A s \in Seq(Runners) : s \in Seq(Runners')
      /\ \A s \in Seq(Runners \cup {0}) : s \in Seq(Runners' \cup {0})
  <2>1. Len(plugin') \in Nat /\ Len(plugin) <= Len(plugin')
    BY <1>3
  <2>2. Runners' = Runners \cup {r} /\ r \notin Runners
    BY <1>3 DEF Runners
  <2> QED
    BY <2>1, <2>2, MoreRunners
<1> HIDE DEF r
<1>5. /\ runners[b] \in Seq(Runners) /\ runners'[b] = Append(runners[b], r)
      /\ \A c \in Containers : c # b => runners'[c] = runners[c]
      /\ \A c \in Containers : runners[c] \in Seq(Runners)
  BY <1>1, <1>2, <1>3 DEF TypeOK
<1>6. /\ ToSet(runners'[b]) = ToSet(runners[b]) \cup {r}
      /\ \A c \in Containers : ToSet(runners[c]) \subseteq Runners
  <2>1. ToSet(Append(runners[b], r)) = ToSet(runners[b]) \cup {r}
    BY <1>5, AppendElements
  <2>2. \A c \in Containers : ToSet(runners[c]) \subseteq Runners
    BY <1>5 DEF ToSet
  <2> QED
    BY <1>5, <2>1, <2>2
<1>7. /\ \A c \in Containers : Kept(c)' = IF c = b THEN Kept(b) \cup {r} ELSE Kept(c)
      /\ \A c \in Containers : Kept(c) \subseteq Runners
  BY <1>1, <1>2, <1>5, <1>6 DEF Kept, TypeOK
<1>8. MembersTyped'
  <2>1. runners'[b] \in Seq(Runners')
    BY <1>4, <1>5
  <2>2. runners' \in [Containers -> Seq(Runners')]
    BY <1>1, <1>2, <1>4, <1>5, <2>1 DEF TypeOK
  <2>3. NoMemo \in Seq(Runners \cup {0})
    BY DEF NoMemo
  <2>4. memo' \in [Containers -> Seq(Runners' \cup {0})]
    BY <1>1, <1>2, <1>4, <2>3 DEF TypeOK
  <2>5. deferred' \in [Containers -> SUBSET Runners'] /\ disposed' \subseteq Runners'
    BY <1>1, <1>2, <1>4 DEF TypeOK
  <2> QED
    BY <1>1, <1>2, <1>3, <2>2, <2>4, <2>5 DEF MembersTyped, TypeOK
<1>9. Unborn'
  BY <1>1, <1>2, <1>5 DEF Unborn, Usable, TypeOK
<1>10. OnePlace'
  <2>1. \A i, j \in 1..Len(runners'[b]) : runners'[b][i] = runners'[b][j] => i = j
    <3>1. /\ Len(runners'[b]) = Len(runners[b]) + 1 /\ runners'[b][Len(runners[b]) + 1] = r
          /\ Len(runners[b]) \in Nat
          /\ \A i \in 1..Len(runners[b]) : /\ runners'[b][i] = runners[b][i]
                                           /\ runners[b][i] \in Runners
      BY <1>5
    <3>2. \A i, j \in 1..Len(runners[b]) : runners[b][i] = runners[b][j] => i = j
      BY <1>2 DEF OnePlace
    <3> QED
      BY <1>4, <3>1, <3>2, SMTT(20)
  <2>2. ToSet(runners'[b]) \cap deferred'[b] = {}
    BY <1>1, <1>2, <1>4, <1>6 DEF OnePlace, TypeOK
  <2>3. \A c, d \in Containers : c # d => Kept(c)' \cap Kept(d)' = {}
    BY <1>2, <1>4, <1>7 DEF OnePlace
  <2> QED
    BY <1>1, <1>2, <1>5, <2>1, <2>2, <2>3 DEF OnePlace
<1>11. Accounted'
  <2>1. \A c \in Containers : Kept(c)' \cap disposed' = {}
    BY <1>1, <1>2, <1>4, <1>7 DEF Accounted, TypeOK
  <2>2. \A q \in Runners' : q \in disposed' \/ \E c \in Containers : q \in Kept(c)'
    BY <1>1, <1>2, <1>4, <1>7 DEF Accounted
  <2> QED
    BY <2>1, <2>2 DEF Accounted
<1>12. Remembered'
  <2> SUFFICES ASSUME NEW c \in born \ closed
               PROVE  memo'[c] = NoMemo \/ memo'[c] = SortedBy(plugin', runners'[c])
    BY <1>1, SortedIs DEF Remembered
  <2>1. c \in Containers
    BY <1>2 DEF TypeOK
  <2>2. CASE c = b
    BY <1>1, <1>2, <2>1, <2>2 DEF TypeOK
  <2>3. CASE c # b
    <3>1. memo'[c] = memo[c] /\ runners'[c] = runners[c]
      BY <1>1, <1>2, <1>5, <2>1, <2>3 DEF TypeOK
    <3>2. memo[c] = NoMemo \/ memo[c] = SortedBy(plugin, runners[c])
      BY <1>2, SortedIs DEF Remembered
    <3>3. SortedBy(plugin, runners[c]) = SortedBy(plugin', runners[c])
      <4>1. Len(plugin') \in Nat /\ Len(plugin) <= Len(plugin')
        BY <1>3 DEF r
      <4>2. runners[c] \in Seq(1..Len(plugin))
        BY <1>5, <2>1 DEF Runners
      <4> QED
        BY <1>3, <4>1, <4>2, SortedSame
    <3> QED
      BY <3>1, <3>2, <3>3
  <2> QED
    BY <2>2, <2>3
<1>13. PutOff'
  BY <1>1, <1>2, InScopeSame DEF PutOff
<1>14. Snapshots'
  <2> SUFFICES ASSUME NEW t \in Scopes, Used(t), scope[t].box \notin closed
               PROVE  ToSet(scope[t].entries) \subseteq (Kept(scope[t].box) \cup disposed)'
    BY <1>1, InScopeSame DEF Snapshots
  <2>1. PICK c \in Containers : c = scope[t].box
    BY <1>2 DEF TypeOK, ScopeRecords
  <2>2. ToSet(scope[t].entries) \subseteq Kept(c) \cup disposed
    BY <1>2, <2>1 DEF Snapshots
  <2>3. ToSet(scope[t].entries) \subseteq (Kept(c) \cup disposed)'
    BY <1>1, <1>7, <2>2
  <2> QED
    BY <1>1, <2>1, <2>3 DEF Kept
<1> QED
  BY <1>1, <1>8, <1>9, <1>10, <1>11, <1>12, <1>13, <1>14, ChangeIInv DEF Membership
\* A list of different elements without the one at a place of it.
LEMMA RemovedAt ==
  ASSUME NEW S, NEW s \in Seq(S), NEW k \in 1..Len(s),
         \A i, j \in 1..Len(s) : s[i] = s[j] => i = j
  PROVE  LET t == RemoveAt(s, k)
         IN  /\ t \in Seq(S)
             /\ \A i, j \in 1..Len(t) : t[i] = t[j] => i = j
             /\ ToSet(t) = ToSet(s) \ {s[k]}
<1> DEFINE t == RemoveAt(s, k)
           front == SubSeq(s, 1, k - 1)
           back == SubSeq(s, k + 1, Len(s))
<1>1. Len(s) \in Nat /\ k \in Int /\ 1 <= k /\ k <= Len(s)
  OBVIOUS
<1>2. /\ front \in Seq(S) /\ Len(front) = k - 1
      /\ \A i \in 1..(k - 1) : front[i] = s[i]
  BY <1>1
<1>3. /\ back \in Seq(S) /\ Len(back) = Len(s) - k
      /\ \A i \in 1..(Len(s) - k) : back[i] = s[k + i]
  BY <1>1
<1>4. t = front \o back
  BY DEF RemoveAt
<1> HIDE DEF front, back, t
<1>5. t \in Seq(S) /\ Len(t) = Len(s) - 1
  BY <1>1, <1>2, <1>3, <1>4
<1>6. ASSUME NEW i \in 1..Len(t) PROVE t[i] = IF i < k THEN s[i] ELSE s[i + 1]
  <2>1. CASE i < k
    BY <1>1, <1>2, <1>3, <1>4, <1>5, <2>1
  <2>2. CASE ~(i < k)
    <3>1. t[i] = back[i - (k - 1)]
      BY <1>1, <1>2, <1>3, <1>4, <1>5, <2>2
    <3>2. i - (k - 1) \in 1..(Len(s) - k) /\ k + (i - (k - 1)) = i + 1
      BY <1>1, <1>5, <2>2
    <3> QED
      BY <1>3, <2>2, <3>1, <3>2
  <2> QED
    BY <2>1, <2>2
<1>7. \A i, j \in 1..Len(t) : t[i] = t[j] => i = j
  BY <1>1, <1>5, <1>6
<1>8. ASSUME NEW i \in 1..Len(t) PROVE t[i] \in ToSet(s) \ {s[k]}
  <2>1. PICK j \in 1..Len(s) : t[i] = s[j] /\ j # k
    <3>1. CASE i < k
      BY <1>1, <1>5, <1>6, <3>1
    <3>2. CASE ~(i < k)
      <4>1. i + 1 \in 1..Len(s) /\ i + 1 # k /\ t[i] = s[i + 1]
        BY <1>1, <1>5, <1>6, <3>2
      <4> QED
        BY <4>1
    <3> QED
      BY <3>1, <3>2
  <2>2. s[j] # s[k]
    BY <2>1
  <2> QED
    BY <2>1, <2>2 DEF ToSet
<1>9. ASSUME NEW j \in 1..Len(s), j # k PROVE s[j] \in ToSet(t)
  <2>1. PICK i \in 1..Len(t) : t[i] = s[j]
    <3>1. CASE j < k
      BY <1>1, <1>5, <1>6, <3>1
    <3>2. CASE j > k
      <4>1. j - 1 \in 1..Len(t) /\ ~(j - 1 < k) /\ (j - 1) + 1 = j
        BY <1>1, <1>5, <3>2
      <4>2. t[j - 1] = s[j]
        BY <1>6, <4>1
      <4> QED
        BY <4>1, <4>2
    <3> QED
      BY <1>1, <1>9, <3>1, <3>2
  <2> QED
    BY <1>5, <2>1 DEF ToSet
<1>10. ToSet(t) = ToSet(s) \ {s[k]}
  <2>1. DOMAIN t = 1..Len(t) /\ DOMAIN s = 1..Len(s)
    BY <1>5
  <2>2. ToSet(t) \subseteq ToSet(s) \ {s[k]}
    BY <1>8, <2>1 DEF ToSet
  <2>3. ToSet(s) \ {s[k]} \subseteq ToSet(t)
    BY <1>9, <2>1 DEF ToSet
  <2> QED
    BY <2>2, <2>3
<1> QED
  BY <1>5, <1>7, <1>10 DEF t

\* A runner that leaves its list is disposed or put off.
LEMMA WithdrawIInv ==
  ASSUME IInv, NEW b \in Containers, NEW p \in Plugins, Withdraw(b, p)
  PROVE  IInv'
<1> DEFINE i == SelectInSeq(runners[b], LAMBDA q : plugin[q] = p)
           r == runners[b][i]
<1>1. /\ Usable(b) /\ Registers(b, p)
      /\ runners' = [runners EXCEPT ![b] = RemoveAt(@, i)]
      /\ \/ /\ InScope(b) /\ disposed' = disposed
            /\ deferred' = [deferred EXCEPT ![b] = @ \cup {r}]
         \/ ~InScope(b) /\ disposed' = disposed \cup {r} /\ deferred' = deferred
      /\ plugin' = plugin /\ memo' = [memo EXCEPT ![b] = NoMemo]
      /\ born' = born /\ secured' = secured /\ closed' = closed
      /\ frozen' = frozen /\ UNCHANGED <<stack, scope, call>>
  BY DEF Withdraw, Writable, Forget
<1>2. TypeOK /\ Unborn /\ OnePlace /\ Accounted /\ Remembered /\ PutOff /\ Snapshots
  BY DEF IInv
<1>3. /\ runners \in [Containers -> Seq(Runners)] /\ runners[b] \in Seq(Runners)
      /\ DOMAIN runners[b] = 1..Len(runners[b]) /\ Len(runners[b]) \in Nat
  BY <1>2 DEF TypeOK
<1>4. i \in 1..Len(runners[b])
  <2> DEFINE I == {j \in 1..Len(runners[b]) : plugin[runners[b][j]] = p}
  <2>1. I # {} /\ I \subseteq Nat
    BY <1>1, <1>3 DEF Registers
  <2>2. i = Min(I)
    BY <2>1 DEF SelectInSeq
  <2>3. \E x \in I : \A y \in I : x <= y
    BY <2>1, LeastNat
  <2>4. Min(I) \in I
    BY <2>3 DEF Min
  <2> QED
    BY <2>2, <2>4
<1> HIDE DEF i
<1>5. r \in Runners /\ r \in ToSet(runners[b])
  BY <1>3, <1>4 DEF ToSet
<1> HIDE DEF r
<1>6. /\ runners' \in [Containers -> Seq(Runners)]
      /\ \A c \in Containers : c # b => runners'[c] = runners[c]
      /\ \A j, k \in 1..Len(runners'[b]) : runners'[b][j] = runners'[b][k] => j = k
      /\ ToSet(runners'[b]) = ToSet(runners[b]) \ {r}
  <2> DEFINE t == RemoveAt(runners[b], i)
  <2>1. \A j, k \in 1..Len(runners[b]) : runners[b][j] = runners[b][k] => j = k
    BY <1>2 DEF OnePlace
  <2>2. /\ t \in Seq(Runners) /\ \A j, k \in 1..Len(t) : t[j] = t[k] => j = k
        /\ ToSet(t) = ToSet(runners[b]) \ {runners[b][i]}
    BY <1>3, <1>4, <2>1, RemovedAt
  <2> HIDE DEF t
  <2>3. runners' = [runners EXCEPT ![b] = t]
    BY <1>1 DEF t
  <2> QED
    BY <1>3, <2>2, <2>3 DEF r
<1>7. /\ \A c \in Containers : c # b => Kept(c)' = Kept(c) /\ deferred'[c] = deferred[c]
      /\ Kept(b)' \cup disposed' = Kept(b) \cup disposed
      /\ Kept(b)' \subseteq Kept(b) /\ disposed \subseteq disposed'
      /\ disposed' \subseteq disposed \cup {r}
      /\ InScope(b) => Kept(b)' = Kept(b) /\ disposed' = disposed
      /\ ~InScope(b) => Kept(b)' = Kept(b) \ {r} /\ disposed' = disposed \cup {r}
                         /\ deferred' = deferred
      /\ ToSet(runners'[b]) \cap deferred'[b] = {}
      /\ \A c \in Containers : deferred'[c] \subseteq deferred[c] \cup {r}
  <2>1. deferred \in [Containers -> SUBSET Runners] /\ ToSet(runners[b]) \cap deferred[b] = {}
    BY <1>2 DEF TypeOK, OnePlace
  <2> QED
    BY <1>1, <1>5, <1>6, <2>1 DEF Kept
<1>8. MembersTyped'
  <2>1. NoMemo \in Seq(Runners \cup {0}) /\ Runners' = Runners
    BY <1>1 DEF NoMemo, Runners
  <2>2. memo' \in [Containers -> Seq(Runners \cup {0})]
    BY <1>1, <1>2, <2>1 DEF TypeOK
  <2>3. deferred' \in [Containers -> SUBSET Runners] /\ disposed' \subseteq Runners
    BY <1>1, <1>2, <1>5 DEF TypeOK
  <2> QED
    BY <1>1, <1>2, <1>6, <2>1, <2>2, <2>3 DEF MembersTyped, TypeOK
<1>9. Unborn'
  BY <1>1, <1>2, <1>6, <1>7 DEF Unborn, Usable, TypeOK
<1>10. OnePlace'
  <2>1. \A c, d \in Containers : c # d => Kept(c)' \cap Kept(d)' = {}
    BY <1>2, <1>7 DEF OnePlace
  <2>2. \A c \in Containers : ToSet(runners'[c]) \cap deferred'[c] = {}
    BY <1>2, <1>6, <1>7 DEF OnePlace
  <2>3. \A c \in Containers : \A j, k \in 1..Len(runners'[c]) :
          runners'[c][j] = runners'[c][k] => j = k
    BY <1>2, <1>6 DEF OnePlace
  <2> QED
    BY <2>1, <2>2, <2>3 DEF OnePlace
<1>11. Accounted'
  <2>1. \A c \in Containers : c # b => r \notin Kept(c)
    BY <1>2, <1>5 DEF OnePlace, Kept
  <2>2. \A c \in Containers : Kept(c)' \cap disposed' = {}
    BY <1>2, <1>7, <2>1 DEF Accounted
  <2>3. ASSUME NEW q \in Runners PROVE q \in disposed' \/ \E c \in Containers : q \in Kept(c)'
    <3>1. CASE q \in Kept(b) \cup disposed
      BY <1>7, <3>1
    <3>2. CASE q \notin Kept(b) \cup disposed
      <4>1. PICK c \in Containers : q \in Kept(c)
        BY <1>2, <3>2 DEF Accounted
      <4> QED
        BY <1>7, <3>2, <4>1
    <3> QED
      BY <3>1, <3>2
  <2>4. Runners' = Runners
    BY <1>1 DEF Runners
  <2> QED
    BY <2>2, <2>3, <2>4 DEF Accounted
<1>12. Remembered'
  <2> SUFFICES ASSUME NEW c \in born \ closed
               PROVE  memo'[c] = NoMemo \/ memo'[c] = SortedBy(plugin', runners'[c])
    BY <1>1, SortedIs DEF Remembered
  <2>1. c \in Containers /\ memo \in [Containers -> Seq(Runners \cup {0})]
    BY <1>2 DEF TypeOK
  <2>2. CASE c = b
    BY <1>1, <2>1, <2>2
  <2>3. CASE c # b
    BY <1>1, <1>2, <1>6, <2>1, <2>3, SortedIs DEF Remembered
  <2> QED
    BY <2>2, <2>3
<1>13. PutOff'
  <2> SUFFICES ASSUME NEW c \in Containers, deferred'[c] # {}, c \notin closed PROVE InScope(c)
    BY <1>1, InScopeSame DEF PutOff
  <2> QED
    BY <1>2, <1>7 DEF PutOff
<1>14. Snapshots'
  <2> SUFFICES ASSUME NEW t \in Scopes, Used(t), scope[t].box \notin closed
               PROVE  ToSet(scope[t].entries) \subseteq (Kept(scope[t].box) \cup disposed)'
    BY <1>1, InScopeSame DEF Snapshots
  <2>1. PICK c \in Containers : c = scope[t].box
    BY <1>2 DEF TypeOK, ScopeRecords
  <2>2. ToSet(scope[t].entries) \subseteq Kept(c) \cup disposed
    BY <1>2, <2>1 DEF Snapshots
  <2>3. Kept(c) \cup disposed \subseteq (Kept(c) \cup disposed)'
    BY <1>7
  <2> QED
    BY <1>1, <2>1, <2>2, <2>3 DEF Kept
<1> QED
  BY <1>1, <1>8, <1>9, <1>10, <1>11, <1>12, <1>13, <1>14, ChangeIInv DEF Membership
\* A disposal clears the container, or leaves it closed as it was.
LEMMA DisposeIInv ==
  ASSUME IInv, NEW b \in Containers, Dispose(b)
  PROVE  IInv'
<1>1. /\ Usable(b) /\ closed' = closed \cup {b} /\ plugin' = plugin
      /\ born' = born /\ frozen' = frozen /\ UNCHANGED <<stack, scope, call>>
      /\ \/ UNCHANGED <<runners, memo, secured, deferred, disposed>>
         \/ /\ disposed' = disposed \cup ToSet(runners[b]) \cup deferred[b]
            /\ runners' = [runners EXCEPT ![b] = <<>>]
            /\ deferred' = [deferred EXCEPT ![b] = {}]
            /\ secured' = [secured EXCEPT ![b] = {}]
            /\ memo' = [memo EXCEPT ![b] = NoMemo]
  BY DEF Dispose, Forget
<1>2. TypeOK /\ Unborn /\ OnePlace /\ Accounted /\ Remembered /\ PutOff /\ Snapshots
  BY DEF IInv
<1>3. Runners' = Runners /\ b \in born
  BY <1>1 DEF Runners, Usable
<1>4. /\ runners' \in [Containers -> Seq(Runners)]
      /\ memo' \in [Containers -> Seq(Runners \cup {0})]
      /\ secured' \in [Containers -> SUBSET Plugins]
      /\ deferred' \in [Containers -> SUBSET Runners]
      /\ disposed' \subseteq Runners
  <2>1. NoMemo \in Seq(Runners \cup {0})
    BY DEF NoMemo
  <2>2. ToSet(runners[b]) \subseteq Runners /\ deferred[b] \subseteq Runners
    BY <1>2 DEF TypeOK, ToSet
  <2>3. /\ runners \in [Containers -> Seq(Runners)] /\ disposed \subseteq Runners
        /\ memo \in [Containers -> Seq(Runners \cup {0})]
        /\ secured \in [Containers -> SUBSET Plugins]
        /\ deferred \in [Containers -> SUBSET Runners]
    BY <1>2 DEF TypeOK
  <2>4. CASE UNCHANGED <<runners, memo, secured, deferred, disposed>>
    BY <2>3, <2>4
  <2>5. CASE /\ disposed' = disposed \cup ToSet(runners[b]) \cup deferred[b]
             /\ runners' = [runners EXCEPT ![b] = <<>>]
             /\ deferred' = [deferred EXCEPT ![b] = {}]
             /\ secured' = [secured EXCEPT ![b] = {}]
             /\ memo' = [memo EXCEPT ![b] = NoMemo]
    <3>1. <<>> \in Seq(Runners)
      OBVIOUS
    <3>2. disposed' \subseteq Runners
      BY <2>2, <2>3, <2>5
    <3> HIDE DEF NoMemo
    <3> QED
      BY <2>1, <2>3, <2>5, <3>1, <3>2
  <2> QED
    BY <1>1, <2>4, <2>5
<1>5. /\ \A c \in Containers : c # b => /\ runners'[c] = runners[c] /\ deferred'[c] = deferred[c]
                                        /\ memo'[c] = memo[c]
      /\ \/ runners'[b] = runners[b] /\ deferred'[b] = deferred[b] /\ disposed' = disposed
         \/ /\ runners'[b] = <<>> /\ deferred'[b] = {} /\ disposed' = disposed \cup Kept(b)
  BY <1>1, <1>2 DEF TypeOK, Kept
<1>6. ToSet(<<>>) = {} /\ Len(<<>>) = 0
  BY DEF ToSet
<1>7. /\ \A c \in Containers : c # b => Kept(c)' = Kept(c)
      /\ Kept(b)' \subseteq Kept(b) /\ disposed \subseteq disposed'
      /\ Kept(b)' \cup disposed' = Kept(b) \cup disposed
      /\ \/ Kept(b)' = {} \/ disposed' = disposed
  BY <1>5, <1>6 DEF Kept
<1>8. MembersTyped'
  BY <1>1, <1>2, <1>3, <1>4 DEF MembersTyped, TypeOK
<1>9. Unborn'
  BY <1>1, <1>2, <1>3, <1>5, <1>4 DEF Unborn, TypeOK
<1>10. OnePlace'
  <2>1. \A c, d \in Containers : c # d => Kept(c)' \cap Kept(d)' = {}
    BY <1>2, <1>7 DEF OnePlace
  <2>2. \A c \in Containers : ToSet(runners'[c]) \cap deferred'[c] = {}
    BY <1>2, <1>5, <1>6 DEF OnePlace
  <2>3. \A c \in Containers : \A j, k \in 1..Len(runners'[c]) :
          runners'[c][j] = runners'[c][k] => j = k
    BY <1>2, <1>5, <1>6 DEF OnePlace
  <2> QED
    BY <2>1, <2>2, <2>3 DEF OnePlace
<1>11. Accounted'
  <2>1. \A c \in Containers : Kept(c)' \cap disposed' = {}
    <3> SUFFICES ASSUME NEW c \in Containers PROVE Kept(c)' \cap disposed' = {}
      OBVIOUS
    <3>1. CASE c = b
      BY <1>2, <1>7, <3>1 DEF Accounted
    <3>2. CASE c # b
      <4>1. Kept(c)' = Kept(c) /\ Kept(c) \cap Kept(b) = {} /\ Kept(c) \cap disposed = {}
        BY <1>2, <1>7, <3>2 DEF Accounted, OnePlace
      <4> QED
        BY <1>7, <4>1
    <3> QED
      BY <3>1, <3>2
  <2>2. ASSUME NEW q \in Runners PROVE q \in disposed' \/ \E c \in Containers : q \in Kept(c)'
    <3>1. CASE q \in Kept(b) \cup disposed
      BY <1>7, <3>1
    <3>2. CASE q \notin Kept(b) \cup disposed
      <4>1. PICK c \in Containers : q \in Kept(c)
        BY <1>2, <3>2 DEF Accounted
      <4> QED
        BY <1>7, <3>2, <4>1
    <3> QED
      BY <3>1, <3>2
  <2> QED
    BY <1>3, <2>1, <2>2 DEF Accounted
<1>12. Remembered'
  <2> SUFFICES ASSUME NEW c \in born \ closed, c # b
               PROVE  memo'[c] = NoMemo \/ memo'[c] = SortedBy(plugin', runners'[c])
    BY <1>1, SortedIs DEF Remembered
  <2>1. c \in Containers
    BY <1>2 DEF TypeOK
  <2> QED
    BY <1>1, <1>2, <1>5, <2>1, SortedIs DEF Remembered
<1>13. PutOff'
  <2> SUFFICES ASSUME NEW c \in Containers, deferred'[c] # {}, c \notin closed, c # b
               PROVE  InScope(c)
    BY <1>1, InScopeSame DEF PutOff
  <2> QED
    BY <1>2, <1>5 DEF PutOff
<1>14. Snapshots'
  <2> SUFFICES ASSUME NEW t \in Scopes, Used(t), scope[t].box \notin closed, scope[t].box # b
               PROVE  ToSet(scope[t].entries) \subseteq (Kept(scope[t].box) \cup disposed)'
    BY <1>1, InScopeSame DEF Snapshots
  <2>1. PICK c \in Containers : c = scope[t].box
    BY <1>2 DEF TypeOK, ScopeRecords
  <2>2. ToSet(scope[t].entries) \subseteq Kept(c) \cup disposed
    BY <1>2, <2>1 DEF Snapshots
  <2>3. Kept(c)' = Kept(c)
    BY <1>7, <2>1
  <2> QED
    BY <1>1, <2>1, <2>2, <2>3 DEF Kept
<1> QED
  BY <1>1, <1>8, <1>9, <1>10, <1>11, <1>12, <1>13, <1>14, ChangeIInv DEF Membership

\* A fork gets runners of its own, which are nowhere else.
LEMMA ForkIInv ==
  ASSUME IInv, NEW extra \in Seq(Plugins), Fork(extra)
  PROVE  IInv'
<1> DEFINE inherited == [i \in DOMAIN runners["root"] |-> plugin[runners["root"][i]]]
           own == inherited \o extra
           n == Len(plugin)
           m == Len(own)
           mine == [i \in DOMAIN own |-> n + i]
<1>1. /\ "fork" \notin born /\ n + m <= MaxRunners /\ born' = born \cup {"fork"}
      /\ plugin' = plugin \o own /\ runners' = [runners EXCEPT !["fork"] = mine]
      /\ secured' = [secured EXCEPT !["fork"] = secured["root"] \cap ToSet(inherited)]
      /\ memo' = memo /\ deferred' = deferred /\ disposed' = disposed
      /\ frozen' = frozen /\ closed' = closed /\ UNCHANGED <<stack, scope, call>>
  BY DEF Fork
<1>2. TypeOK /\ Unborn /\ OnePlace /\ Accounted /\ Remembered /\ PutOff /\ Snapshots
  BY DEF IInv
<1>3. "root" \in Containers /\ "fork" \in Containers
  BY DEF Containers
<1>4. own \in Seq(Plugins)
  <2>1. plugin \in Seq(Plugins) /\ runners["root"] \in Seq(1..Len(plugin))
    BY <1>2, <1>3 DEF TypeOK, Runners
  <2>2. /\ DOMAIN runners["root"] = 1..Len(runners["root"]) /\ Len(runners["root"]) \in Nat
        /\ \A i \in 1..Len(runners["root"]) : plugin[runners["root"][i]] \in Plugins
    BY <2>1
  <2>3. inherited \in Seq(Plugins)
    BY <2>2
  <2> QED
    BY <2>3
<1> HIDE DEF inherited
<1>5. m \in Nat /\ n \in Nat /\ plugin \in Seq(Plugins) /\ DOMAIN own = 1..m
  BY <1>2, <1>4 DEF TypeOK
<1> HIDE DEF own
<1>6. /\ plugin' \in Seq(Plugins) /\ Len(plugin') = n + m
      /\ \A q \in 1..n : plugin'[q] = plugin[q]
  BY <1>1, <1>4, <1>5
<1>7. /\ mine \in Seq((n + 1)..(n + m)) /\ Len(mine) = m
      /\ \A i \in 1..m : mine[i] = n + i
      /\ DOMAIN mine = 1..m
  BY <1>5
<1> HIDE DEF n, m, mine
<1>8. ToSet(mine) = (n + 1)..(n + m)
  <2>1. ASSUME NEW x \in (n + 1)..(n + m) PROVE x \in ToSet(mine)
    <3>1. x - n \in 1..m /\ n + (x - n) = x
      BY <1>5
    <3>2. mine[x - n] = x
      BY <1>7, <3>1
    <3> QED
      BY <1>7, <3>1, <3>2 DEF ToSet
  <2>2. ASSUME NEW x \in ToSet(mine) PROVE x \in (n + 1)..(n + m)
    <3>1. PICK i \in 1..m : x = mine[i]
      BY <1>7 DEF ToSet
    <3> QED
      BY <1>5, <1>7, <3>1
  <2> QED
    BY <2>1, <2>2
<1>9. /\ Runners = 1..n /\ Runners' = 1..(n + m)
      /\ Runners' = Runners \cup ToSet(mine) /\ Runners \cap ToSet(mine) = {}
      /\ Runners \subseteq Runners'
      /\ \A s \in Seq(Runners) : s \in Seq(Runners')
      /\ \A s \in Seq(Runners \cup {0}) : s \in Seq(Runners' \cup {0})
  <2>1. Runners = 1..n /\ Runners' = 1..(n + m)
    BY <1>6 DEF Runners, n
  <2>2. Runners' = Runners \cup ToSet(mine) /\ Runners \cap ToSet(mine) = {}
    BY <1>5, <1>8, <2>1
  <2>3. Len(plugin') \in Nat /\ Len(plugin) <= Len(plugin')
    BY <1>5, <1>6 DEF n
  <2> QED
    BY <2>1, <2>2, <2>3, MoreRunners
<1>10. /\ runners \in [Containers -> Seq(Runners)] /\ runners'["fork"] = mine
       /\ \A c \in Containers : c # "fork" => runners'[c] = runners[c]
       /\ \A c \in Containers : ToSet(runners[c]) \subseteq Runners
       /\ deferred \in [Containers -> SUBSET Runners] /\ deferred["fork"] = {}
       /\ runners["fork"] = <<>>
  BY <1>1, <1>2, <1>3 DEF TypeOK, Unborn, ToSet
<1>11. /\ \A c \in Containers : c # "fork" => Kept(c)' = Kept(c)
       /\ Kept("fork")' = ToSet(mine)
       /\ \A c \in Containers : Kept(c) \subseteq Runners
       /\ Kept("fork") = {}
  <2>1. ToSet(<<>>) = {}
    BY DEF ToSet
  <2> QED
    BY <1>1, <1>3, <1>10, <2>1 DEF Kept
<1>12. MembersTyped'
  <2>1. mine \in Seq(Runners')
    <3>1. (n + 1)..(n + m) \subseteq Runners'
      BY <1>8, <1>9
    <3> QED
      BY <1>7, <3>1, SeqMonotonic
  <2>2. runners' \in [Containers -> Seq(Runners')]
    BY <1>1, <1>9, <1>10, <2>1
  <2>3. memo' \in [Containers -> Seq(Runners' \cup {0})]
    BY <1>1, <1>2, <1>9 DEF TypeOK
  <2>4. deferred' \in [Containers -> SUBSET Runners'] /\ disposed' \subseteq Runners'
    BY <1>1, <1>2, <1>9 DEF TypeOK
  <2>5. secured' \in [Containers -> SUBSET Plugins]
    BY <1>1, <1>2, <1>3 DEF TypeOK
  <2>6. Len(plugin') <= MaxRunners
    BY <1>1, <1>6
  <2>7. born' \subseteq Containers /\ closed' \subseteq born' /\ frozen' \subseteq born'
    BY <1>1, <1>2, <1>3 DEF TypeOK
  <2> QED
    BY <1>6, <2>2, <2>3, <2>4, <2>5, <2>6, <2>7 DEF MembersTyped
<1>13. Unborn'
  <2> SUFFICES ASSUME NEW c \in Containers, c \notin born, c # "fork"
               PROVE  /\ runners'[c] = <<>> /\ memo'[c] = NoMemo
                      /\ deferred'[c] = {} /\ secured'[c] = {}
    BY <1>1, <1>2 DEF Unborn
  <2> QED
    BY <1>1, <1>2, <1>10 DEF Unborn, TypeOK
<1>14. OnePlace'
  <2>1. \A c, d \in Containers : c # d => Kept(c)' \cap Kept(d)' = {}
    BY <1>2, <1>9, <1>11 DEF OnePlace
  <2>2. \A c \in Containers : ToSet(runners'[c]) \cap deferred'[c] = {}
    BY <1>1, <1>2, <1>10 DEF OnePlace
  <2>3. \A c \in Containers : \A j, k \in 1..Len(runners'[c]) :
          runners'[c][j] = runners'[c][k] => j = k
    <3> SUFFICES ASSUME NEW c \in Containers
                 PROVE  \A j, k \in 1..Len(runners'[c]) :
                          runners'[c][j] = runners'[c][k] => j = k
      OBVIOUS
    <3>1. CASE c = "fork"
      <4>1. \A j, k \in 1..m : mine[j] = mine[k] => j = k
        BY <1>5, <1>7
      <4> QED
        BY <1>7, <1>10, <3>1, <4>1
    <3>2. CASE c # "fork"
      BY <1>2, <1>10, <3>2 DEF OnePlace
    <3> QED
      BY <3>1, <3>2
  <2> QED
    BY <2>1, <2>2, <2>3 DEF OnePlace
<1>15. Accounted'
  <2>1. \A c \in Containers : Kept(c)' \cap disposed' = {}
    <3> SUFFICES ASSUME NEW c \in Containers PROVE Kept(c)' \cap disposed = {}
      BY <1>1
    <3>1. disposed \subseteq Runners /\ Kept(c) \cap disposed = {}
      BY <1>2 DEF Accounted, TypeOK
    <3>2. CASE c = "fork"
      BY <1>9, <1>11, <3>1, <3>2
    <3>3. CASE c # "fork"
      BY <1>11, <3>1, <3>3
    <3> QED
      BY <3>2, <3>3
  <2>2. ASSUME NEW q \in Runners', q \notin disposed'
        PROVE  \E c \in Containers : q \in Kept(c)'
    <3>1. CASE q \in ToSet(mine)
      BY <1>3, <1>11, <3>1
    <3>2. CASE q \notin ToSet(mine)
      <4>1. PICK c \in Containers : q \in Kept(c)
        BY <1>1, <1>2, <1>9, <2>2, <3>2 DEF Accounted
      <4> QED
        BY <1>11, <4>1
    <3> QED
      BY <3>1, <3>2
  <2> QED
    BY <2>1, <2>2 DEF Accounted
<1>16. Remembered'
  <2> SUFFICES ASSUME NEW c \in born' \ closed
               PROVE  memo'[c] = NoMemo \/ memo'[c] = SortedBy(plugin', runners'[c])
    BY <1>1, SortedIs DEF Remembered
  <2>1. c \in Containers
    BY <1>1, <1>2, <1>3 DEF TypeOK
  <2>2. CASE c = "fork"
    BY <1>1, <1>2, <1>3, <2>2 DEF Unborn
  <2>3. CASE c # "fork"
    <3>1. memo'[c] = memo[c] /\ runners'[c] = runners[c]
      BY <1>1, <1>10, <2>1, <2>3
    <3>2. memo[c] = NoMemo \/ memo[c] = SortedBy(plugin, runners[c])
      BY <1>1, <1>2, <2>3, SortedIs DEF Remembered
    <3>3. SortedBy(plugin, runners[c]) = SortedBy(plugin', runners[c])
      <4>1. Len(plugin') \in Nat /\ Len(plugin) <= Len(plugin') /\ Len(plugin) \in Nat
            /\ \A q \in 1..Len(plugin) : plugin[q] = plugin'[q]
        BY <1>5, <1>6 DEF n
      <4>2. runners[c] \in Seq(1..Len(plugin))
        BY <1>10, <2>1 DEF Runners
      <4> QED
        BY <4>1, <4>2, SortedSame
    <3> QED
      BY <3>1, <3>2, <3>3
  <2> QED
    BY <2>2, <2>3
<1>17. PutOff'
  BY <1>1, <1>2, InScopeSame DEF PutOff
<1>18. Snapshots'
  <2> SUFFICES ASSUME NEW t \in Scopes, Used(t), scope[t].box \notin closed
               PROVE  ToSet(scope[t].entries) \subseteq (Kept(scope[t].box) \cup disposed)'
    BY <1>1, InScopeSame DEF Snapshots
  <2>1. PICK c \in Containers : c = scope[t].box
    BY <1>2 DEF TypeOK, ScopeRecords
  <2>2. ToSet(scope[t].entries) \subseteq Kept(c) \cup disposed
    BY <1>2, <2>1 DEF Snapshots
  <2>3. Kept(c) \subseteq Kept(c)'
    BY <1>11
  <2> QED
    BY <1>1, <2>1, <2>2, <2>3 DEF Kept
<1> QED
  BY <1>1, <1>12, <1>13, <1>14, <1>15, <1>16, <1>17, <1>18, ChangeIInv DEF Membership

\* A container begins with its plugins.
LEMMA InitIInv == Init => IInv
<1> SUFFICES ASSUME Init PROVE IInv
  OBVIOUS
<1>1. /\ plugin \in Seq(Plugins) /\ Len(plugin) \in Nat /\ DOMAIN plugin = 1..Len(plugin)
      /\ Len(plugin) <= MaxRunners
      /\ runners = [b \in Containers |-> IF b = "root" THEN [i \in DOMAIN plugin |-> i] ELSE <<>>]
      /\ memo = [b \in Containers |-> NoMemo] /\ secured = [b \in Containers |-> {}]
      /\ deferred = [b \in Containers |-> {}]
      /\ disposed = {} /\ born = {"root"} /\ frozen = {} /\ closed = {}
      /\ stack = <<>> /\ scope = [s \in Scopes |-> NoScope] /\ call = [k \in Calls |-> NoCall]
  BY ContainerAssumption DEF Init
<1>2. "root" \in Containers /\ "fork" \in Containers /\ ToSet(<<>>) = {}
  BY DEF Containers, ToSet
<1>3. /\ runners["root"] \in Seq(Runners) /\ Len(runners["root"]) = Len(plugin)
      /\ DOMAIN runners["root"] = 1..Len(plugin)
      /\ \A i \in 1..Len(plugin) : runners["root"][i] = i
      /\ \A b \in Containers : b # "root" => runners[b] = <<>>
  BY <1>1, <1>2 DEF Runners
<1>4. ToSet(runners["root"]) = Runners
  BY <1>3 DEF ToSet, Runners
<1>5. \A b \in Containers : Kept(b) = IF b = "root" THEN Runners ELSE {}
  BY <1>1, <1>2, <1>3, <1>4 DEF Kept
<1>6. TypeOK
  <2>1. runners \in [Containers -> Seq(Runners)]
    BY <1>1, <1>3
  <2>2. memo \in [Containers -> Seq(Runners \cup {0})]
    BY <1>1 DEF NoMemo
  <2>3. scope \in [Scopes -> ScopeRecords]
    BY <1>1 DEF NoScope, ScopeRecords, Containers
  <2>4. call \in [Calls -> CallRecords]
    BY <1>1 DEF NoCall, CallRecords
  <2>5. stack \in Seq(Calls \cup Scopes)
    BY <1>1
  <2> QED
    BY <1>1, <1>2, <2>1, <2>2, <2>3, <2>4, <2>5 DEF TypeOK
<1>7. ProperCalls
  <2>1. /\ NoCall.pending = {} /\ NoCall.at = 0 /\ NoCall.entries = <<>>
        /\ Finished(NoCall)
    BY DEF NoCall, Finished
  <2>2. \A k \in Calls : call[k] = NoCall /\ call[k] \in CallRecords
    BY <1>1, <1>6 DEF TypeOK
  <2> QED
    BY <2>1, <2>2 DEF ProperCalls, Proper
<1>8. Unborn /\ Remembered
  BY <1>1, <1>2, <1>3, <1>6 DEF Unborn, Remembered, TypeOK
<1>9. OnePlace
  BY <1>1, <1>3, <1>5 DEF OnePlace
<1>10. Accounted
  BY <1>1, <1>2, <1>5 DEF Accounted
<1>11. \A s \in Scopes : ~Used(s)
  BY <1>1 DEF Used, NoScope, Idle
<1>12. Nested /\ PutOff /\ Snapshots
  BY <1>1, <1>11 DEF Nested, PutOff, Snapshots
<1> QED
  BY <1>6, <1>7, <1>8, <1>9, <1>10, <1>12 DEF IInv

\* Every step keeps everything in its place.
LEMMA StepIInv == IInv /\ [Next]_vars => IInv'
<1> SUFFICES ASSUME IInv, [Next]_vars PROVE IInv'
  OBVIOUS
<1>1. CASE UNCHANGED vars
  <2>1. UNCHANGED members /\ UNCHANGED <<stack, scope, call>>
    BY <1>1 DEF vars, members
  <2>2. Membership'
    BY <2>1, MembersAlone DEF IInv, Membership
  <2>3. MembersTyped' /\ born \subseteq born'
    BY <2>1 DEF IInv, TypeOK, MembersTyped, members, Runners
  <2>4. PutOff' /\ Snapshots'
    BY <2>1, InScopeSame DEF IInv, PutOff, Snapshots, Kept, members
  <2> QED
    BY <2>1, <2>2, <2>3, <2>4, ChangeIInv
<1>2. ASSUME NEW b \in Containers, Change(b) PROVE IInv'
  <2>1. Newcomers \subseteq Plugins /\ Precious \subseteq Plugins
    BY ContainerAssumption
  <2> QED
    BY <1>2, <2>1, RegisterIInv, WithdrawIInv, ProtectIInv, FreezeIInv, DisposeIInv DEF Change
<1>3. ASSUME NEW extra \in {<<>>} \cup {<<p>> : p \in Newcomers}, Fork(extra) PROVE IInv'
  <2>1. extra \in Seq(Plugins)
    <3>1. CASE extra = <<>>
      BY <3>1
    <3>2. CASE extra # <<>>
      <4>1. PICK p \in Newcomers : extra = <<p>>
        BY <3>2
      <4>2. p \in Plugins
        BY ContainerAssumption
      <4> QED
        BY <4>1, <4>2
    <3> QED
      BY <3>1, <3>2
  <2> QED
    BY <1>3, <2>1, ForkIInv
<1>4. ASSUME NEW k \in Calls, Advance(k) \/ Launch(k) \/ Settle(k) PROVE IInv'
  BY <1>4, AdvanceIInv, LaunchIInv, HandlerIInv DEF Settle
<1>5. ASSUME NEW s \in Scopes, Prepare(s) \/ CloseScope(s) PROVE IInv'
  BY <1>5, PrepareIInv, CloseScopeIInv
<1> QED
  BY <1>1, <1>2, <1>3, <1>4, <1>5, CallIInv, DirectRunIInv, OpenScopeIInv DEF Next
-----------------------------------------------------------------------------
\* Everything is always in its place, for all plugins, calls and faults.
THEOREM Inductive == Spec => []IInv
<1> QED
  BY InitIInv, StepIInv, PTL DEF Spec

\* What a strategy finds in the memo is what the registrations of now ask for
\* (PluginContainer.#getSortedEntries).
THEOREM MemoKeepsUp == Spec => []MemoIsCurrent
<1>1. IInv => MemoIsCurrent
  BY DEF IInv, Remembered, MemoIsCurrent
<1> QED
  BY <1>1, Inductive, PTL

\* No step disposes of what an open scope was opened with.
LEMMA OpenKept ==
  ASSUME IInv, Next, NEW s \in Scopes, Open(s), scope'[s] = scope[s],
         scope[s].box \notin closed', NEW r \in ToSet(scope[s].entries), r \notin disposed
  PROVE  r \notin disposed'
<1> DEFINE b == scope[s].box
<1>1. TypeOK /\ OnePlace /\ Nested /\ Snapshots
  BY DEF IInv
<1>2. Used(s) /\ b \in Containers /\ b \in born
  BY <1>1 DEF Open, Used, Idle, TypeOK, ScopeRecords, Nested
<1>3. PICK i \in 1..Len(stack) : stack[i] = s
  BY <1>1, <1>2 DEF Nested
<1>4. DOMAIN stack = 1..Len(stack) /\ Len(stack) \in Nat
  BY <1>1 DEF TypeOK
<1>5. InScope(b)
  BY <1>3, <1>4 DEF InScope, Counts, Open
<1>6. ASSUME b \notin closed PROVE r \in Kept(b)
  BY <1>1, <1>2, <1>6 DEF Snapshots
<1>7. \A c \in Containers : c # b => Kept(c) \cap Kept(b) = {}
  BY <1>1, <1>2 DEF OnePlace
<1> HIDE DEF b
<1>8. ASSUME disposed' = disposed PROVE r \notin disposed'
  BY <1>8
<1>9. ASSUME NEW c \in Containers, disposed' \subseteq disposed \cup Kept(c), c # b,
             b \notin closed
      PROVE  r \notin disposed'
  BY <1>6, <1>7, <1>9
<1>10. ASSUME NEW c \in Containers, NEW p, Withdraw(c, p) PROVE r \notin disposed'
  <2>1. closed' = closed
    BY <1>10 DEF Withdraw
  <2>2. CASE InScope(c)
    BY <1>10, <2>2, <1>8 DEF Withdraw
  <2>3. CASE ~InScope(c)
    <3> DEFINE j == SelectInSeq(runners[c], LAMBDA q : plugin[q] = p)
    <3>1. disposed' = disposed \cup {runners[c][j]} /\ Registers(c, p)
      BY <1>10, <2>3 DEF Withdraw
    <3>2. j \in DOMAIN runners[c]
      <4> DEFINE I == {n \in 1..Len(runners[c]) : plugin[runners[c][n]] = p}
      <4>1. runners[c] \in Seq(Runners) /\ DOMAIN runners[c] = 1..Len(runners[c])
        BY <1>1 DEF TypeOK
      <4>2. I # {} /\ I \subseteq Nat
        BY <3>1, <4>1 DEF Registers
      <4>3. j = Min(I)
        BY <4>2 DEF SelectInSeq
      <4>4. \E x \in I : \A y \in I : x <= y
        BY <4>2, LeastNat
      <4>5. Min(I) \in I
        BY <4>4 DEF Min
      <4> QED
        BY <4>1, <4>3, <4>5
    <3> HIDE DEF j
    <3>3. runners[c][j] \in Kept(c)
      BY <3>2 DEF Kept, ToSet
    <3> QED
      BY <1>5, <1>9, <2>1, <2>3, <3>1, <3>3 DEF b
  <2> QED
    BY <2>2, <2>3
<1>11. ASSUME NEW c \in Containers, Dispose(c) PROVE r \notin disposed'
  <2>1. /\ closed' = closed \cup {c}
        /\ disposed' = disposed \/ disposed' = disposed \cup Kept(c)
    BY <1>11 DEF Dispose, Kept
  <2> QED
    BY <1>9, <2>1 DEF b
<1>12. ASSUME NEW c \in Containers, Change(c) PROVE r \notin disposed'
  <2>1. ASSUME NEW p, Register(c, p) \/ Protect(c, p) PROVE disposed' = disposed
    BY <2>1 DEF Register, Protect
  <2>2. ASSUME Freeze(c) PROVE disposed' = disposed
    BY <2>2 DEF Freeze
  <2> QED
    BY <1>8, <1>10, <1>11, <1>12, <2>1, <2>2 DEF Change
<1>13. ASSUME NEW t \in Scopes, CloseScope(t) PROVE r \notin disposed'
  <2> DEFINE c == scope[t].box
  <2>1. c \in Containers /\ closed' = closed
    BY <1>1, <1>13 DEF CloseScope, TypeOK, ScopeRecords
  <2>2. t # s
    <3>1. scope' = [scope EXCEPT ![t] = NoScope] /\ NoScope.state = Idle
      BY <1>13 DEF CloseScope, NoScope
    <3> QED
      BY <1>1, <3>1 DEF TypeOK, Open, Idle
  <2>3. i \in 1..Len(stack) - 1
    BY <1>3, <1>4, <1>13, <2>2 DEF CloseScope, Top, Last
  <2>4. s \in Scopes /\ Counts(s, b)
    BY DEF Counts, Open, b
  <2>5. InnerScopes(b) # {}
    BY <1>3, <2>3, <2>4 DEF InnerScopes
  <2>6. disposed' = disposed \/ (c # b /\ disposed' = disposed \cup deferred[c])
    BY <1>13, <2>5 DEF CloseScope
  <2> HIDE DEF c
  <2> QED
    BY <1>8, <1>9, <2>1, <2>6 DEF b, Kept
<1>14. ASSUME NEW k \in Calls, Advance(k) \/ Launch(k) \/ Settle(k) PROVE disposed' = disposed
  BY <1>14 DEF Advance, Launch, Settle, Handler, members
<1>15. /\ \A extra : Fork(extra) => disposed' = disposed
       /\ \A k, c, kind : Call(k, c, kind) => disposed' = disposed
       /\ \A k, t, kind : DirectRun(k, t, kind) => disposed' = disposed
       /\ \A c : OpenScope(c) => disposed' = disposed
       /\ \A t : Prepare(t) => disposed' = disposed
  BY DEF Fork, Call, DirectRun, OpenScope, Prepare, members
<1> QED
  BY <1>8, <1>12, <1>13, <1>14, <1>15 DEF Next

\* Whatever is removed while direct scopes nest, nothing they were opened with
\* is disposed before they end, unless their container is
\* (PluginContainer.remove, direct, disposeDeferredRunners).
THEOREM SnapshotsLast == Spec => ScopeKeepsItsSnapshot
<1> DEFINE Held == \A s \in Scopes :
             scope[s].state = "open" /\ scope'[s] = scope[s] /\ scope[s].box \notin closed' =>
               ToSet(scope[s].entries) \cap disposed' \subseteq disposed
<1>1. IInv /\ [Next]_vars => [Held]_vars
  <2>1. ASSUME IInv, Next PROVE Held
    <3> SUFFICES ASSUME NEW s \in Scopes, scope[s].state = "open", scope'[s] = scope[s],
                        scope[s].box \notin closed', NEW r \in ToSet(scope[s].entries),
                        r \notin disposed
                 PROVE  r \notin disposed'
      OBVIOUS
    <3> QED
      BY <2>1, OpenKept DEF Open
  <2> QED
    BY <2>1
<1> QED
  BY <1>1, Inductive, PTL DEF Spec, ScopeKeepsItsSnapshot

\* A closed container is cleared.
Cleared == \A b \in closed : Kept(b) = {}

\* Without a listener that throws, a disposal clears the container.
LEMMA ClearedInductive ==
  ASSUME "listener" \notin Faults
  PROVE  /\ Init => Cleared
         /\ IInv /\ Cleared /\ [Next]_vars => Cleared'
<1>1. ASSUME Init PROVE Cleared
  BY <1>1 DEF Init, Cleared
<1>2. ASSUME IInv, Cleared, [Next]_vars PROVE Cleared'
  <2>1. ToSet(<<>>) = {}
    BY DEF ToSet
  <2>2. closed \subseteq Containers /\ closed \subseteq born
    BY <1>2 DEF IInv, TypeOK
  <2>3. ASSUME closed' = closed, \A c \in closed : runners'[c] = runners[c] /\ deferred'[c] \subseteq deferred[c]
        PROVE  Cleared'
    BY <1>2, <2>3 DEF Cleared, Kept
  <2>4. runners \in [Containers -> Seq(Runners)] /\ deferred \in [Containers -> SUBSET Runners]
    BY <1>2 DEF IInv, TypeOK
  <2>5. ASSUME NEW b \in Containers, NEW p, Register(b, p) PROVE Cleared'
    BY <2>2, <2>3, <2>4, <2>5 DEF Register, Writable, Usable
  <2>6. ASSUME NEW b \in Containers, NEW p, Withdraw(b, p) PROVE Cleared'
    BY <2>2, <2>3, <2>4, <2>6 DEF Withdraw, Writable, Usable
  <2>7. ASSUME NEW b \in Containers, NEW p, Protect(b, p) PROVE Cleared'
    BY <2>3, <2>7 DEF Protect
  <2>8. ASSUME NEW b \in Containers, Freeze(b) PROVE Cleared'
    BY <2>3, <2>8 DEF Freeze
  <2>9. ASSUME NEW b \in Containers, Dispose(b) PROVE Cleared'
    <3>1. closed' = closed \cup {b} /\ runners' = [runners EXCEPT ![b] = <<>>]
          /\ deferred' = [deferred EXCEPT ![b] = {}]
      BY <2>9 DEF Dispose
    <3> QED
      BY <1>2, <2>1, <2>2, <2>4, <3>1 DEF Cleared, Kept
  <2>10. ASSUME NEW extra, Fork(extra) PROVE Cleared'
    BY <2>2, <2>3, <2>4, <2>10 DEF Fork
  <2>11. ASSUME NEW k, NEW b, NEW kind, Call(k, b, kind) PROVE Cleared'
    BY <2>3, <2>11 DEF Call
  <2>12. ASSUME NEW k, NEW s, NEW kind, DirectRun(k, s, kind) PROVE Cleared'
    BY <2>3, <2>12 DEF DirectRun, members
  <2>13. ASSUME NEW k, Advance(k) \/ Launch(k) \/ Settle(k) PROVE Cleared'
    BY <2>3, <2>13 DEF Advance, Launch, Settle, Handler, members
  <2>14. ASSUME NEW b, OpenScope(b) PROVE Cleared'
    BY <2>3, <2>14 DEF OpenScope
  <2>15. ASSUME NEW s, Prepare(s) \/ CloseScope(s) PROVE Cleared'
    BY <2>2, <2>3, <2>4, <2>15 DEF Prepare, CloseScope, members
  <2>16. CASE UNCHANGED vars
    BY <2>3, <2>16 DEF vars
  <2>17. ASSUME NEW b \in Containers, Change(b) PROVE Cleared'
    BY <2>5, <2>6, <2>7, <2>8, <2>9, <2>17 DEF Change
  <2> QED
    BY <1>2, <2>10, <2>11, <2>12, <2>13, <2>14, <2>15, <2>16, <2>17 DEF Next
<1> QED
  BY <1>1, <1>2

\* A registration that left its container is disposed, at once or when the last
\* direct scope ends, none that stayed is, and nothing survives the container
\* unless a listener of its end throws (PluginContainer.remove, dispose).
THEOREM ReleasedInTime ==
  ASSUME "listener" \notin Faults
  PROVE  Spec => []Released
<1>1. IInv /\ Cleared => Released
  <2> SUFFICES ASSUME IInv, Cleared PROVE Released
    OBVIOUS
  <2>1. \A b \in Containers \ born : Kept(b) = {}
    <3>1. ToSet(<<>>) = {}
      BY DEF ToSet
    <3> QED
      BY <3>1 DEF IInv, Unborn, Kept
  <2>2. born \subseteq Containers /\ closed \subseteq born
    BY DEF IInv, TypeOK
  <2> DEFINE kept == UNION {ToSet(runners[b]) \cup deferred[b] : b \in born}
  <2>3. \A r : r \in kept <=> \E b \in born : r \in Kept(b)
    BY DEF Kept
  <2> HIDE DEF kept
  <2>4. kept \cap disposed = {}
    BY <2>2, <2>3 DEF IInv, Accounted
  <2>5. Runners \ kept \subseteq disposed
    BY <2>1, <2>3 DEF IInv, Accounted
  <2>6. \A b \in born : deferred[b] # {} /\ b \notin closed => InScope(b)
    BY <2>2 DEF IInv, PutOff
  <2>7. \A b \in closed : ToSet(runners[b]) \cup deferred[b] = {}
    BY DEF Cleared, Kept
  <2> QED
    BY <2>4, <2>5, <2>6, <2>7 DEF Released, kept
<1>2. Spec => [](IInv /\ Cleared)
  BY InitIInv, StepIInv, ClearedInductive, PTL DEF Spec
<1> QED
  BY <1>1, <1>2, PTL
-----------------------------------------------------------------------------
\* Each of the elements comes once.
Apart(s) == \A i, j \in 1..Len(s) : s[i] = s[j] => i = j

Running(c) == c.state = "running"
Firsts == {"first", "firstSync"}
NoFatal(c) == \A i \in 1..Len(c.ran) : c.ran[i][2] # "fatal"

\* The predicates speak of a call c, the list of plugins p and the disposed runners x.
\* A call works through runners that were registered.
Working(c, p) ==
  /\ Live(c)
  /\ c.entries \in Seq(1..Len(p)) /\ Apart(c.entries)
  /\ c.pending \subseteq {c.entries[i] : i \in 1..c.at}
  /\ c.kind # "parallel" => ~c.fatal

\* It ran the first n of them.
RanFirst(c, n) == Len(c.ran) = n /\ \A i \in 1..n : c.ran[i][1] = c.entries[i]

\* How far a call has come that waits for handlers, or launches them.
Under(c, p) ==
  /\ c.kind # "parallel" => c.alone /\ RanFirst(c, c.at - 1)
  /\ c.alone => c.at >= 1 /\ c.pending = {c.entries[c.at]} /\ ~c.fatal
  /\ ~c.fatal => NoFatal(c)
  /\ c.kind \in Firsts => c.answer = <<>>
  /\ c.kind = "parallel" /\ ~c.fatal => Len(c.ran) + Cardinality(c.pending) = c.at
  /\ ~c.alone => \A i \in 1..c.at : p[c.entries[i]] \in Alone => c.entries[i] \notin c.pending

\* What the property asks of a call, whatever its state: an order, and an answer
\* unless it was rejected.
Batches(c, p) ==
  \A i \in 1..c.at :
    p[c.entries[i]] \in Alone =>
      /\ \A j \in 1..i - 1 : c.entries[j] \notin c.pending
      /\ c.at > i => c.entries[i] \notin c.pending
Orderly(c, p) == IF c.kind = "parallel" THEN Batches(c, p) ELSE InTurn(c)
Answering(c) == c.answer = Promised(c)
Earning(c, p) == Orderly(c, p) /\ (c.state # "rejected" => Answering(c))

Cause(c, x) == \/ ~NoFatal(c) \/ c.fatal
               \/ ~Finished(c) /\ Following(c) \in x
               \/ "factory" \in Faults /\ ~c.prepared
               \/ "reducer" \in Faults /\ c.kind \in {"reduce", "reduceSync"}

\* A call that is about to come to its next entry.
Ready(c, p) ==
  /\ Working(c, p) /\ Answering(c)
  /\ Running(c) /\ c.pending = {} /\ ~c.fatal /\ NoFatal(c)
  /\ c.kind # "parallel" => RanFirst(c, c.at)
  /\ c.kind = "parallel" => Len(c.ran) = c.at
  /\ c.kind \in Firsts => c.answer = <<>>
Turning(c, p) == Ready(c, p) /\ c.kind # "parallel" /\ ~Finished(c)

\* A call in its place, whatever its state.
Good(c, p, x) ==
  /\ Working(c, p) /\ Earning(c, p)
  /\ Running(c) => Under(c, p) \/ Turning(c, p)
  /\ ~Running(c) /\ c.kind # "parallel" => c.pending = {}
  /\ c.state = "fulfilled" /\ ~Contained(c) =>
       /\ NoFatal(c) /\ c.pending = {}
       /\ Len(c.ran) < Len(c.entries) => c.kind \in Firsts /\ Len(c.answer) = 1
  /\ c.state = "rejected" => Cause(c, x)
  /\ c.state # Idle

\* A call that can end here.
Halting(c, p) ==
  /\ Working(c, p) /\ Orderly(c, p)
  /\ c.kind # "parallel" => c.pending = {}
-----------------------------------------------------------------------------
\* The fields of a call are of their kinds.
LEMMA LiveFields ==
  ASSUME NEW c, Live(c)
  PROVE  /\ c \in CallRecords
         /\ c.kind \in Kinds /\ c.entries \in Seq(Nat) /\ c.at \in 0..Len(c.entries)
         /\ c.at \in Nat /\ c.pending \subseteq Nat /\ c.alone \in BOOLEAN /\ c.fatal \in BOOLEAN
         /\ c.ran \in Seq(Nat \X AllOutcomes) /\ c.answer \in Seq(Nat)
         /\ c.state \in {Idle, "running", "fulfilled", "rejected"}
BY DEF Live, CallRecords

\* Whom it ran are as many, in the same order.
LEMMA WhomElements ==
  ASSUME NEW es \in Seq(Nat \X AllOutcomes)
  PROVE  /\ Whom(es) \in Seq(Nat) /\ Len(Whom(es)) = Len(es)
         /\ \A i \in 1..Len(es) : Whom(es)[i] = es[i][1]
<1>1. DOMAIN es = 1..Len(es) /\ Len(es) \in Nat /\ \A i \in 1..Len(es) : es[i][1] \in Nat
  OBVIOUS
<1> QED
  BY <1>1 DEF Whom

\* One more is one more.
LEMMA WhomAppend ==
  ASSUME NEW es \in Seq(Nat \X AllOutcomes), NEW r \in Nat, NEW o \in AllOutcomes
  PROVE  Whom(Append(es, <<r, o>>)) = Append(Whom(es), r)
<1> DEFINE f == Append(es, <<r, o>>)
           u == Whom(f)
           v == Append(Whom(es), r)
<1>1. <<r, o>> \in Nat \X AllOutcomes /\ Len(es) \in Nat
  OBVIOUS
<1>2. /\ f \in Seq(Nat \X AllOutcomes) /\ Len(f) = Len(es) + 1 /\ f[Len(es) + 1] = <<r, o>>
      /\ \A i \in 1..Len(es) : f[i] = es[i]
  BY <1>1
<1> HIDE DEF f
<1>3. /\ u \in Seq(Nat) /\ Len(u) = Len(es) + 1 /\ \A i \in 1..Len(f) : u[i] = f[i][1]
  BY <1>2, WhomElements
<1>4. /\ Whom(es) \in Seq(Nat) /\ Len(Whom(es)) = Len(es)
      /\ \A i \in 1..Len(es) : Whom(es)[i] = es[i][1]
  BY WhomElements
<1>5. /\ v \in Seq(Nat) /\ Len(v) = Len(es) + 1 /\ v[Len(es) + 1] = r
      /\ \A i \in 1..Len(es) : v[i] = es[i][1]
  BY <1>4
<1> HIDE DEF u, v
<1>6. \A i \in 1..Len(u) : u[i] = v[i]
  <2> SUFFICES ASSUME NEW i \in 1..(Len(es) + 1) PROVE u[i] = v[i]
    BY <1>3
  <2>1. CASE i = Len(es) + 1
    BY <1>1, <1>2, <1>3, <1>5, <2>1
  <2>2. CASE i # Len(es) + 1
    <3>1. i \in 1..Len(es)
      BY <1>1, <2>2
    <3> QED
      BY <1>1, <1>2, <1>3, <1>5, <3>1
  <2> QED
    BY <2>1, <2>2
<1>7. u = v
  BY <1>3, <1>5, <1>6, SeqEqual
<1> QED
  BY <1>7 DEF u, v, f

\* No handler failed exactly when none of those that did is kept.
LEMMA NobodyFailed ==
  ASSUME NEW c, Live(c)
  PROVE  RanBy(c, {"fatal"}) = <<>> <=> NoFatal(c)
<1> DEFINE T == Nat \X {"fatal"}
           k == Keeping(c.ran, T)
<1>1. c.ran \in Seq(Nat \X AllOutcomes) /\ DOMAIN c.ran = 1..Len(c.ran)
  BY LiveFields
<1> HIDE DEF T
<1>2. k \in Seq(Nat \X AllOutcomes) /\ ToSet(k) = ToSet(c.ran) \cap T
  BY <1>1, KeepingElements
<1> HIDE DEF k
<1>3. k = <<>> <=> ToSet(k) = {}
  BY <1>2 DEF ToSet
<1>4. \A i \in 1..Len(c.ran) : c.ran[i] \in T <=> c.ran[i][2] = "fatal"
  BY <1>1 DEF T
<1>5. ToSet(c.ran) \cap T = {} <=> NoFatal(c)
  BY <1>1, <1>4 DEF ToSet, NoFatal
<1> QED
  BY <1>2, <1>3, <1>5 DEF RanBy, k, T

\* What is promised is a matter of what ran.
LEMMA PromisedSame ==
  ASSUME NEW c, NEW d, c.kind = d.kind, c.ran = d.ran
  PROVE  Promised(c) = Promised(d)
<1>1. Standing(c) = Standing(d)
  BY DEF Standing
<1>2. \A o : RanBy(c, o) = RanBy(d, o)
  BY DEF RanBy
<1>3. Whom(RanBy(c, {"value"})) = Whom(RanBy(d, {"value"}))
      /\ Whom(RanBy(c, {"value", "null"})) = Whom(RanBy(d, {"value", "null"}))
      /\ Whom(Keeping(c.ran, Standing(c))) = Whom(Keeping(d.ran, Standing(d)))
  BY <1>1, <1>2
<1> QED
  BY <1>3 DEF Promised

\* A call d is what a handler r of c that came to o leaves.
Leaves(d, c, r, o) ==
  /\ Live(d) /\ d.kind = c.kind /\ d.entries = c.entries /\ d.at = c.at
  /\ d.pending = c.pending \ {r} /\ d.alone = c.alone /\ d.fatal = c.fatal
  /\ d.ran = Append(c.ran, <<r, o>>) /\ d.state = c.state
  /\ d.answer = IF o = "fatal" THEN c.answer ELSE Folded(c, r, o)

\* The fields of a call whose handler is done.
LEMMA SettledFields ==
  ASSUME NEW c, Live(c), NEW r \in Nat, NEW o \in AllOutcomes
  PROVE  \A d : d = Settled(c, r, o) => Leaves(d, c, r, o)
<1> DEFINE d == Settled(c, r, o)
<1>1. c \in CallRecords /\ c.answer \in Seq(Nat) /\ c.ran \in Seq(Nat \X AllOutcomes)
  BY DEF Live, CallRecords
<1>2. Folded(c, r, o) \in Seq(Nat) /\ Append(c.ran, <<r, o>>) \in Seq(Nat \X AllOutcomes)
  BY <1>1 DEF Folded
<1>3. Live(d)
  BY <1>1, <1>2 DEF Settled, Live, CallRecords
<1>4. /\ d.kind = c.kind /\ d.entries = c.entries /\ d.at = c.at
      /\ d.pending = c.pending \ {r} /\ d.alone = c.alone /\ d.fatal = c.fatal
      /\ d.ran = Append(c.ran, <<r, o>>) /\ d.state = c.state
      /\ d.answer = IF o = "fatal" THEN c.answer ELSE Folded(c, r, o)
  BY <1>1 DEF Settled, CallRecords
<1> QED
  BY <1>3, <1>4 DEF Leaves

\* What is kept of a longer sequence, when the last element is the only one that
\* is in one set and not in the other.
LEMMA KeepingLast ==
  ASSUME NEW S, NEW s \in Seq(S), NEW x \in S, NEW T, NEW U,
         \A i \in 1..Len(s) : s[i] \in T <=> s[i] \in U
  PROVE  Keeping(Append(s, x), U) = IF x \in U THEN Append(Keeping(s, T), x) ELSE Keeping(s, T)
<1> DEFINE t == Append(s, x)
<1>1. /\ t \in Seq(S) /\ Len(t) = Len(s) + 1 /\ t[Len(s) + 1] = x /\ Len(s) \in Nat
      /\ \A i \in 1..Len(s) : t[i] = s[i]
  OBVIOUS
<1> HIDE DEF t
<1>2. PICK f : Keeping(s, T) = f[Len(s)] /\ Goes(f, s, T)
  BY KeepingSteps, Zenon
<1>3. PICK g : Keeping(t, U) = g[Len(t)] /\ Goes(g, t, U)
  BY <1>1, KeepingSteps, Zenon
<1> DEFINE P == {n \in 0..Len(s) : g[n] = f[n]}
<1>4. 0 \in P
  BY <1>1, <1>2, <1>3 DEF Goes
<1>5. ASSUME NEW n \in 1..Len(s), n - 1 \in P PROVE n \in P
  <2>1. f[n] = Keep(s[n], T, f[n - 1])
    BY <1>2 DEF Goes
  <2>2. g[n] = Keep(t[n], U, g[n - 1]) /\ t[n] = s[n]
    <3>1. n \in 1..Len(t)
      BY <1>1
    <3> QED
      BY <1>1, <1>3, <3>1 DEF Goes
  <2>3. f[n - 1] = g[n - 1]
    BY <1>5
  <2>4. g[n] = f[n]
    BY <2>1, <2>2, <2>3 DEF Keep
  <2> QED
    BY <2>4
<1>6. g[Len(s)] = f[Len(s)]
  <2> HIDE DEF P
  <2>1. \A n \in 0..Len(s) : n \in P
    BY <1>1, <1>4, <1>5, BoundedInduction
  <2>2. Len(s) \in P
    BY <1>1, <2>1
  <2> QED
    BY <2>2 DEF P
<1>7. g[Len(t)] = Keep(x, U, g[Len(s)])
  <2>1. Len(t) \in 1..Len(t) /\ Len(t) - 1 = Len(s)
    BY <1>1
  <2> QED
    BY <1>1, <1>3, <2>1 DEF Goes
<1> QED
  BY <1>2, <1>3, <1>6, <1>7 DEF Keep, t

\* What is kept of a longer sequence.
LEMMA KeepingNext ==
  ASSUME NEW S, NEW s \in Seq(S), NEW x \in S, NEW T
  PROVE  Keeping(Append(s, x), T) = IF x \in T THEN Append(Keeping(s, T), x) ELSE Keeping(s, T)
<1>1. PICK U : U = T
  OBVIOUS
<1>2. \A i \in 1..Len(s) : s[i] \in T <=> s[i] \in U
  BY <1>1
<1>3. Keeping(Append(s, x), U) = IF x \in U THEN Append(Keeping(s, T), x) ELSE Keeping(s, T)
  BY <1>2, KeepingLast
<1> QED
  BY <1>1, <1>3

\* What a call has run without anyone twice.
Once(c, r) == \A i \in 1..Len(c.ran) : c.ran[i][1] # r

\* The answer a handler leaves is the one that is promised for it.
LEMMA PromisedNext ==
  ASSUME NEW c, Live(c), NEW r \in Nat, NEW o \in AllOutcomes,
         c.answer = Promised(c), Once(c, r),
         c.kind \in Firsts => c.answer = <<>>
  PROVE  Settled(c, r, o).answer = Promised(Settled(c, r, o))
<1> DEFINE d == Settled(c, r, o)
           x == <<r, o>>
           s == c.ran
<1>1. /\ d.kind = c.kind /\ d.ran = Append(s, x) /\ s \in Seq(Nat \X AllOutcomes)
      /\ d.answer = IF o = "fatal" THEN c.answer ELSE Folded(c, r, o)
  <2>1. s \in Seq(Nat \X AllOutcomes)
    BY LiveFields
  <2>2. Leaves(d, c, r, o)
    BY SettledFields
  <2> HIDE DEF d
  <2> QED
    BY <2>1, <2>2 DEF Leaves
<1>2. x \in Nat \X AllOutcomes /\ x[1] = r /\ x[2] = o
  OBVIOUS
<1>3. \A i \in 1..Len(s) : s[i] \in Nat \X AllOutcomes /\ s[i][2] \in AllOutcomes
  BY <1>1
<1> HIDE DEF d, s
<1>4. ASSUME NEW os
      PROVE  Whom(RanBy(d, os)) = IF o \in os THEN Append(Whom(RanBy(c, os)), r)
                                  ELSE Whom(RanBy(c, os))
  <2> DEFINE T == Nat \X os
             k == Keeping(s, T)
  <2>1. x \in T <=> o \in os
    BY <1>2
  <2> HIDE DEF T, x
  <2>2. Keeping(Append(s, x), T) = IF x \in T THEN Append(k, x) ELSE k
    <3> DEFINE S == Nat \X AllOutcomes
    <3>1. s \in Seq(S) /\ x \in S
      BY <1>1, <1>2
    <3> HIDE DEF S, k
    <3>2. Keeping(Append(s, x), T) = IF x \in T THEN Append(Keeping(s, T), x) ELSE Keeping(s, T)
      BY <3>1, KeepingNext
    <3> QED
      BY <3>2 DEF k
  <2>3. k \in Seq(Nat \X AllOutcomes)
    BY <1>1, KeepingElements
  <2> HIDE DEF k
  <2>4. Whom(Append(k, x)) = Append(Whom(k), r)
    BY <2>3, WhomAppend DEF x
  <2>5. RanBy(d, os) = Keeping(Append(s, x), T) /\ RanBy(c, os) = k
    BY <1>1 DEF RanBy, T, k, s
  <2> QED
    BY <2>1, <2>2, <2>4, <2>5
<1>5. CASE c.kind \in Firsts
  <2>1. Promised(d) = Whom(RanBy(d, {"value"})) /\ Promised(c) = Whom(RanBy(c, {"value"}))
    BY <1>1, <1>5 DEF Promised, Firsts
  <2>2. d.answer = IF o = "value" THEN <<r>> ELSE c.answer
    BY <1>1, <1>5 DEF Folded, Firsts
  <2>3. Append(<<>>, r) = <<r>>
    OBVIOUS
  <2> QED
    BY <1>4, <1>5, <2>1, <2>2, <2>3 DEF d
<1>6. CASE c.kind \in {"reduce", "reduceSync"}
  <2>1. /\ Promised(d) = Whom(RanBy(d, {"value", "null"}))
        /\ Promised(c) = Whom(RanBy(c, {"value", "null"}))
    BY <1>1, <1>6 DEF Promised
  <2>2. d.answer = IF o \in {"value", "null"} THEN Append(c.answer, r) ELSE c.answer
    BY <1>1, <1>6 DEF Folded
  <2> QED
    BY <1>4, <2>1, <2>2 DEF d
<1>7. CASE c.kind = "renderable"
  <2>1. /\ Promised(d) = Whom(Keeping(Append(s, x), Standing(d)))
        /\ Promised(c) = Whom(Keeping(s, Standing(c)))
    BY <1>1, <1>7 DEF Promised, s
  <2> DEFINE t == Append(s, x)
             n == Len(s)
  <2>2. /\ t \in Seq(Nat \X AllOutcomes) /\ Len(t) = n + 1 /\ t[n + 1] = x /\ n \in Nat
        /\ \A i \in 1..n : t[i] = s[i]
        /\ DOMAIN t = 1..(n + 1) /\ DOMAIN s = 1..n
    BY <1>1, <1>2
  <2>3. Standing(d) = {t[i] : i \in {i \in 1..(n + 1) :
          t[i][2] = "value" /\ \A j \in i + 1..(n + 1) : t[j][2] \in {"value", "fatal"}}}
    <3>1. d.ran = t /\ Len(t) = n + 1 /\ DOMAIN t = 1..(n + 1)
      BY <1>1, <2>2
    <3> HIDE DEF t, n
    <3> QED
      BY <3>1 DEF Standing
  <2>4. Standing(c) = {s[i] : i \in {i \in 1..n :
          s[i][2] = "value" /\ \A j \in i + 1..n : s[j][2] \in {"value", "fatal"}}}
    BY <2>2 DEF Standing, s
  <2> HIDE DEF t, n, x
  <2>5. CASE o \in {"value", "fatal"}
    <3>1. \A i \in 1..n : s[i] \in Standing(d) <=> s[i] \in Standing(c)
      <4> SUFFICES ASSUME NEW i \in 1..n PROVE s[i] \in Standing(d) <=> s[i] \in Standing(c)
        OBVIOUS
      <4>1. ASSUME s[i] \in Standing(c) PROVE s[i] \in Standing(d)
        <5>1. PICK k \in 1..n : /\ s[k] = s[i] /\ s[k][2] = "value"
                                /\ \A j \in k + 1..n : s[j][2] \in {"value", "fatal"}
          BY <2>4, <4>1
        <5>2. k \in 1..(n + 1) /\ t[k] = s[i]
          BY <2>2, <5>1
        <5>3. \A j \in k + 1..(n + 1) : t[j][2] \in {"value", "fatal"}
          <6> SUFFICES ASSUME NEW j \in k + 1..(n + 1) PROVE t[j][2] \in {"value", "fatal"}
            OBVIOUS
          <6>1. CASE j = n + 1
            BY <1>2, <2>2, <2>5, <6>1
          <6>2. CASE j # n + 1
            <7>1. j \in k + 1..n /\ j \in 1..n
              BY <2>2, <5>1, <6>2
            <7> QED
              BY <2>2, <5>1, <7>1
          <6> QED
            BY <6>1, <6>2
        <5> QED
          BY <2>3, <5>1, <5>2, <5>3
      <4>2. ASSUME s[i] \in Standing(d) PROVE s[i] \in Standing(c)
        <5>1. PICK k \in 1..(n + 1) : /\ t[k] = s[i] /\ t[k][2] = "value"
                                      /\ \A j \in k + 1..(n + 1) : t[j][2] \in {"value", "fatal"}
          BY <2>3, <4>2
        <5>2. k # n + 1
          <6>1. s[i][1] # r
            BY DEF Once, s, n
          <6>2. t[n + 1][1] = r
            BY <1>2, <2>2
          <6> QED
            BY <5>1, <6>1, <6>2
        <5>3. k \in 1..n /\ s[k] = s[i]
          BY <2>2, <5>1, <5>2
        <5>4. \A j \in k + 1..n : s[j][2] \in {"value", "fatal"}
          <6> SUFFICES ASSUME NEW j \in k + 1..n PROVE s[j][2] \in {"value", "fatal"}
            OBVIOUS
          <6>1. j \in k + 1..(n + 1) /\ j \in 1..n
            BY <2>2, <5>3
          <6> QED
            BY <2>2, <5>1, <6>1
        <5> QED
          BY <2>2, <2>4, <5>1, <5>3, <5>4
      <4> QED
        BY <4>1, <4>2
    <3>2. x \in Standing(d) <=> o = "value"
      <4>1. ASSUME o = "value" PROVE x \in Standing(d)
        <5>1. n + 1 \in 1..(n + 1) /\ t[n + 1] = x /\ \A j \in (n + 1) + 1..(n + 1) : FALSE
          BY <2>2
        <5> QED
          BY <1>2, <2>3, <4>1, <5>1
      <4>2. ASSUME x \in Standing(d) PROVE o = "value"
        BY <1>2, <2>3, <4>2
      <4> QED
        BY <4>1, <4>2
    <3> DEFINE T == Standing(c)
               U == Standing(d)
    <3> HIDE DEF T, U
    <3>3. Keeping(t, U) = IF x \in U THEN Append(Keeping(s, T), x) ELSE Keeping(s, T)
      <4>1. \A i \in 1..Len(s) : s[i] \in T <=> s[i] \in U
        BY <3>1 DEF T, U, n
      <4> QED
        <5> DEFINE S == Nat \X AllOutcomes
        <5>1. s \in Seq(S) /\ x \in S
          BY <1>1, <1>2
        <5> HIDE DEF S
        <5> QED
          BY <4>1, <5>1, KeepingLast DEF t
    <3> DEFINE k == Keeping(s, T)
    <3>4. k \in Seq(Nat \X AllOutcomes)
      BY <1>1, KeepingElements
    <3> HIDE DEF k
    <3>5. Whom(Append(k, x)) = Append(Whom(k), r)
      BY <3>4, WhomAppend DEF x
    <3>6. Promised(d) = IF o = "value" THEN Append(Promised(c), r) ELSE Promised(c)
      BY <2>1, <3>2, <3>3, <3>5 DEF t, k, T, U
    <3>7. d.answer = IF o = "value" THEN Append(c.answer, r) ELSE c.answer
      BY <1>1, <1>7, <2>5 DEF Folded
    <3> QED
      BY <3>6, <3>7 DEF d
  <2>6. CASE o \notin {"value", "fatal"}
    <3>1. Standing(d) = {}
      <4> SUFFICES ASSUME NEW i \in 1..(n + 1), t[i][2] = "value",
                          \A j \in i + 1..(n + 1) : t[j][2] \in {"value", "fatal"}
                   PROVE  FALSE
        BY <2>3
      <4>1. i # n + 1
        BY <1>2, <2>2, <2>6
      <4>2. n + 1 \in i + 1..(n + 1)
        BY <2>2, <4>1
      <4> QED
        BY <1>2, <2>2, <2>6, <4>2
    <3> DEFINE k == Keeping(t, {})
    <3>2. k \in Seq(Nat \X AllOutcomes) /\ ToSet(k) = {}
      BY <2>2, KeepingElements
    <3> HIDE DEF k
    <3>3. k = <<>>
      <4>1. k # <<>> => 1 \in DOMAIN k
        BY <3>2
      <4> QED
        BY <3>2, <4>1 DEF ToSet
    <3>4. Whom(<<>>) = <<>>
      BY DEF Whom
    <3>5. Promised(d) = <<>>
      BY <2>1, <3>1, <3>3, <3>4 DEF k, t
    <3>6. d.answer = <<>>
      BY <1>1, <1>7, <2>6 DEF Folded
    <3> QED
      BY <3>5, <3>6 DEF d
  <2> QED
    BY <2>5, <2>6
<1>8. CASE c.kind \notin Firsts \cup {"reduce", "reduceSync", "renderable"}
  <2>1. Promised(d) = <<>> /\ Promised(c) = <<>>
    BY <1>1, <1>8 DEF Promised, Firsts
  <2>2. d.answer = c.answer
    BY <1>1, <1>8 DEF Folded, Firsts
  <2> QED
    BY <2>1, <2>2 DEF d
<1> QED
  BY <1>5, <1>6, <1>7, <1>8
-----------------------------------------------------------------------------
\* A sequence that begins like another.
LEMMA PrefixIs ==
  ASSUME NEW S, NEW s \in Seq(S), NEW t \in Seq(S), Len(s) <= Len(t),
         \A i \in 1..Len(s) : s[i] = t[i]
  PROVE  IsPrefix(s, t)
<1> DEFINE n == Len(s)
           a == SubSeq(s, 1, n)
           b == SubSeq(t, 1, n)
<1>1. n \in Nat /\ n <= Len(t) /\ Len(t) \in Nat /\ \A i \in 1..n : s[i] \in S /\ t[i] \in S
  OBVIOUS
<1> HIDE DEF n
<1>2. /\ a \in Seq(S) /\ Len(a) = IF 1 <= n THEN n - 1 + 1 ELSE 0
      /\ \A i \in 1..(n - 1 + 1) : a[i] = s[1 + i - 1]
  <2>1. 1 \in Int /\ n \in Int
    BY <1>1
  <2> QED
    BY <1>1, <2>1, SubSeqProperties
<1>3. /\ b \in Seq(S) /\ Len(b) = IF 1 <= n THEN n - 1 + 1 ELSE 0
      /\ \A i \in 1..(n - 1 + 1) : b[i] = t[1 + i - 1]
  <2>1. 1 \in Int /\ n \in Int
    BY <1>1
  <2> QED
    BY <1>1, <2>1, SubSeqProperties
<1> HIDE DEF a, b
<1>4. Len(a) = n /\ Len(b) = n /\ \A i \in 1..n : a[i] = s[i] /\ b[i] = t[i]
  BY <1>1, <1>2, <1>3
<1>5. a = b
  <2>1. \A i \in 1..Len(a) : a[i] = b[i]
    BY <1>4 DEF n
  <2> QED
    BY <1>2, <1>3, <1>4, <2>1, SeqEqual
<1> QED
  BY <1>1, <1>5 DEF IsPrefix, a, b, n

\* Who ran the first entries, with a failure at most at the end, ran in turn.
LEMMA InTurnIs ==
  ASSUME NEW c, NEW p, Working(c, p), NEW n \in 0..Len(c.entries), RanFirst(c, n),
         \A i \in 1..(Len(c.ran) - 1) : c.ran[i][2] # "fatal"
  PROVE  InTurn(c)
<1>1. /\ c.entries \in Seq(Nat) /\ c.ran \in Seq(Nat \X AllOutcomes) /\ Len(c.entries) \in Nat
  BY LiveFields DEF Working
<1> DEFINE w == Whom(c.ran)
<1>2. w \in Seq(Nat) /\ Len(w) = n /\ \A i \in 1..n : w[i] = c.entries[i]
  BY <1>1, WhomElements DEF RanFirst
<1> HIDE DEF w
<1>3. IsPrefix(w, c.entries)
  <2>1. Len(w) <= Len(c.entries) /\ \A i \in 1..Len(w) : w[i] = c.entries[i]
    BY <1>1, <1>2
  <2> QED
    BY <1>1, <1>2, <2>1, PrefixIs
<1> QED
  BY <1>3 DEF InTurn, w

\* A call that ends is as it was but for its state.
LEMMA EndedFields ==
  ASSUME NEW c, NEW p, Halting(c, p), NEW st \in {"fulfilled", "rejected"}
  PROVE  \A d : d = [c EXCEPT !.state = st] =>
           /\ Halting(d, p) /\ d.state = st
           /\ d.kind = c.kind /\ d.ran = c.ran /\ d.pending = c.pending /\ d.fatal = c.fatal
           /\ d.entries = c.entries /\ d.at = c.at /\ d.answer = c.answer
           /\ d.prepared = c.prepared
           /\ Answering(d) <=> Answering(c)
<1> SUFFICES ASSUME NEW d, d = [c EXCEPT !.state = st]
             PROVE  /\ Halting(d, p) /\ d.state = st
                    /\ d.kind = c.kind /\ d.ran = c.ran /\ d.pending = c.pending
                    /\ d.fatal = c.fatal
                    /\ d.entries = c.entries /\ d.at = c.at /\ d.answer = c.answer
                    /\ d.prepared = c.prepared
                    /\ Answering(d) <=> Answering(c)
  OBVIOUS
<1>1. Live(c)
  BY DEF Halting, Working
<1>2. /\ d.state = st /\ d.kind = c.kind /\ d.ran = c.ran /\ d.pending = c.pending
      /\ d.fatal = c.fatal /\ d.entries = c.entries /\ d.at = c.at /\ d.answer = c.answer
      /\ d.prepared = c.prepared
  BY <1>1 DEF Live, CallRecords
<1>3. Live(d)
  BY <1>1 DEF Live, CallRecords
<1>4. Working(d, p)
  BY <1>2, <1>3 DEF Halting, Working
<1>5. Promised(d) = Promised(c)
  BY <1>2, PromisedSame
<1>6. Orderly(d, p)
  BY <1>2 DEF Halting, Orderly, Batches, InTurn
<1> QED
  BY <1>2, <1>4, <1>5, <1>6 DEF Halting, Answering

\* A call that ends with what it has to show is in its place.
LEMMA FulfilGood ==
  ASSUME NEW c, NEW p, NEW x, Halting(c, p), Answering(c),
         \/ Contained(c)
         \/ /\ NoFatal(c) /\ c.pending = {}
            /\ Len(c.ran) < Len(c.entries) => c.kind \in Firsts /\ Len(c.answer) = 1
  PROVE  Good(Fulfil(c), p, x)
<1> DEFINE d == Fulfil(c)
<1>1. /\ Halting(d, p) /\ d.state = "fulfilled"
      /\ d.kind = c.kind /\ d.ran = c.ran /\ d.pending = c.pending /\ d.fatal = c.fatal
      /\ d.entries = c.entries /\ d.at = c.at /\ d.answer = c.answer /\ Answering(d)
  BY EndedFields DEF Fulfil
<1> HIDE DEF d
<1>2. Contained(d) <=> Contained(c)
  BY <1>1 DEF Contained
<1>3. NoFatal(d) <=> NoFatal(c)
  BY <1>1 DEF NoFatal
<1> QED
  BY <1>1, <1>2, <1>3 DEF Good, Earning, Halting, Running, Idle, d

\* A call that ends for a cause is in its place.
LEMMA RejectGood ==
  ASSUME NEW c, NEW p, NEW x, Halting(c, p), Cause(c, x), Contained(c) => Answering(c)
  PROVE  Good(Reject(c), p, x)
<1>1. CASE Contained(c)
  BY <1>1, FulfilGood DEF Reject
<1>2. CASE ~Contained(c)
  <2> DEFINE d == [c EXCEPT !.state = "rejected"]
  <2>1. /\ Halting(d, p) /\ d.state = "rejected"
        /\ d.kind = c.kind /\ d.ran = c.ran /\ d.pending = c.pending /\ d.fatal = c.fatal
        /\ d.entries = c.entries /\ d.at = c.at /\ d.answer = c.answer
        /\ d.prepared = c.prepared
    BY EndedFields
  <2> HIDE DEF d
  <2>2. Cause(d, x)
    BY <2>1 DEF Cause, NoFatal, Finished, Following
  <2>3. Good(d, p, x)
    BY <2>1, <2>2 DEF Good, Earning, Halting, Running, Idle
  <2> QED
    BY <1>2, <2>3 DEF Reject, d
<1> QED
  BY <1>1, <1>2

\* A call that is about to go on can end.
LEMMA ReadyHalting ==
  ASSUME NEW c, NEW p, Ready(c, p)
  PROVE  Halting(c, p)
<1>1. Live(c) /\ Working(c, p)
  BY DEF Ready, Working
<1>2. CASE c.kind = "parallel"
  BY <1>1, <1>2 DEF Ready, Halting, Orderly, Batches
<1>3. CASE c.kind # "parallel"
  <2>1. c.at \in 0..Len(c.entries) /\ RanFirst(c, c.at) /\ c.ran \in Seq(Nat \X AllOutcomes)
    BY <1>1, <1>3, LiveFields DEF Ready
  <2>2. \A i \in 1..(Len(c.ran) - 1) : c.ran[i][2] # "fatal"
    BY <2>1 DEF Ready, NoFatal
  <2>3. InTurn(c)
    BY <1>1, <2>1, <2>2, InTurnIs
  <2> QED
    BY <1>1, <1>3, <2>3 DEF Ready, Halting, Orderly
<1> QED
  BY <1>2, <1>3

\* A call that triggers its next handler, or is refused, is in its place.
LEMMA TriggerGood ==
  ASSUME NEW c, NEW p, Ready(c, p), ~Finished(c)
  PROVE  Good(Trigger(c), p, disposed)
<1>1. Halting(c, p) /\ Live(c) /\ Working(c, p)
  BY ReadyHalting DEF Ready, Working
<1>2. CASE Following(c) \in disposed
  <2>1. Cause(c, disposed)
    BY <1>2 DEF Cause
  <2> QED
    BY <1>1, <1>2, <2>1, RejectGood DEF Trigger, Ready
<1>3. CASE Following(c) \notin disposed
  <2> DEFINE d == [c EXCEPT !.pending = {Following(c)}, !.alone = TRUE, !.at = @ + 1]
  <2>1. Trigger(c) = d
    BY <1>3 DEF Trigger
  <2>2. Live(d)
    BY <1>1, <2>1, TriggerLive
  <2>3. c.at \in Nat /\ c.at + 1 \in 1..Len(c.entries) /\ Len(c.entries) \in Nat
    BY <1>1, LiveFields DEF Finished
  <2>4. /\ d.pending = {c.entries[c.at + 1]} /\ d.alone = TRUE /\ d.at = c.at + 1
        /\ d.kind = c.kind /\ d.entries = c.entries /\ d.ran = c.ran /\ d.answer = c.answer
        /\ d.fatal = FALSE /\ d.state = "running"
    BY <1>1 DEF Live, CallRecords, Following, Ready, Running
  <2> HIDE DEF d
  <2>5. Working(d, p)
    BY <1>1, <2>2, <2>3, <2>4 DEF Working
  <2>6. Answering(d)
    BY <2>4, PromisedSame DEF Ready, Answering
  <2>7. Orderly(d, p)
    <3>1. CASE d.kind = "parallel"
      <4>1. \A i, j \in 1..Len(c.entries) : c.entries[i] = c.entries[j] => i = j
        BY <1>1 DEF Working, Apart
      <4>2. \A j \in 1..c.at : c.entries[j] \notin d.pending
        BY <2>3, <2>4, <4>1
      <4>3. ASSUME NEW i \in 1..d.at
            PROVE  /\ \A j \in 1..i - 1 : c.entries[j] \notin d.pending
                   /\ d.at > i => c.entries[i] \notin d.pending
        BY <2>3, <2>4, <4>2
      <4> QED
        BY <2>4, <3>1, <4>3 DEF Orderly, Batches
    <3>2. CASE d.kind # "parallel"
      BY <1>1, <2>4, <3>2 DEF Halting, Orderly, InTurn
    <3> QED
      BY <3>1, <3>2
  <2>8. Under(d, p)
    <3>1. NoFatal(d)
      BY <2>4 DEF Ready, NoFatal
    <3>2. d.kind # "parallel" => RanFirst(d, d.at - 1)
      BY <2>3, <2>4 DEF Ready, RanFirst
    <3>3. Cardinality(d.pending) = 1
      <4>1. \A y : Cardinality({y}) = 1
        BY FS_Singleton
      <4> QED
        BY <2>4, <4>1
    <3>4. d.kind = "parallel" => Len(d.ran) + Cardinality(d.pending) = d.at
      BY <2>3, <2>4, <3>3 DEF Ready
    <3> QED
      BY <2>3, <2>4, <3>1, <3>2, <3>4 DEF Under, Ready
  <2>9. Good(d, p, disposed)
    BY <2>4, <2>5, <2>6, <2>7, <2>8 DEF Good, Running, Earning, Idle
  <2> QED
    BY <2>1, <2>9
<1> QED
  BY <1>2, <1>3

\* So is one that comes to its end.
LEMMA FinishGood ==
  ASSUME NEW c, NEW p, Ready(c, p), Finished(c)
  PROVE  Good(Fulfil(c), p, disposed)
<1>1. Halting(c, p) /\ Live(c)
  BY ReadyHalting DEF Ready, Working
<1>2. Len(c.ran) = Len(c.entries)
  BY DEF Ready, Finished, RanFirst
<1>3. Len(c.entries) \in Nat
  BY <1>1, LiveFields
<1> QED
  BY <1>1, <1>2, <1>3, FulfilGood DEF Ready

\* So is one whose context factory throws.
LEMMA ThrowGood ==
  ASSUME NEW c, NEW p, NEW x, Halting(c, p), Answering(c)
  PROVE  \A d \in MayThrow(c) : Good(d, p, x)
<1>1. CASE "factory" \in Faults /\ ~c.prepared
  BY <1>1, RejectGood DEF MayThrow, Cause
<1> QED
  BY <1>1 DEF MayThrow

\* So is one that turns to its next entry, or has none.
LEMMA ProceedGood ==
  ASSUME NEW c, NEW p, Ready(c, p), c.kind = "parallel" => Good(c, p, disposed)
  PROVE  Good(Proceed(c), p, disposed)
<1>1. CASE Finished(c)
  BY <1>1, FinishGood DEF Proceed
<1>2. CASE ~Finished(c) /\ c.kind # "parallel"
  <2>1. Halting(c, p)
    BY ReadyHalting
  <2>2. Good(c, p, disposed)
    BY <1>2, <2>1 DEF Good, Turning, Ready, Halting, Earning, Running, Idle
  <2> QED
    BY <1>2, <2>2 DEF Proceed
<1>3. CASE ~Finished(c) /\ c.kind = "parallel"
  BY <1>3 DEF Proceed
<1> QED
  BY <1>1, <1>2, <1>3

\* What a call waits for is finite.
LEMMA PendingFinite ==
  ASSUME NEW c, NEW p, Working(c, p), Len(p) \in Nat
  PROVE  IsFiniteSet(c.pending)
<1>1. IsFiniteSet(1..Len(p))
  <2>1. 1 \in Int /\ Len(p) \in Int
    OBVIOUS
  <2> QED
    BY <2>1, FS_Interval
<1>2. c.pending \in SUBSET (1..Len(p))
  <2>1. c.at \in 0..Len(c.entries) /\ c.entries \in Seq(1..Len(p))
    BY LiveFields DEF Working
  <2>2. \A i \in 1..c.at : c.entries[i] \in 1..Len(p)
    BY <2>1
  <2> QED
    BY <2>2 DEF Working
<1> QED
  BY <1>1, <1>2, FS_Subset

\* parallel() that launches its next handler is in its place.
LEMMA LaunchedGood ==
  ASSUME NEW c, Good(c, plugin, disposed), Running(c), c.kind = "parallel", ~c.alone,
         ~Finished(c), ~Lone(c), Len(plugin) \in Nat
  PROVE  Good(Launched(c), plugin, disposed)
<1> DEFINE d == Launched(c)
           r == Following(c)
<1>1. Working(c, plugin) /\ Live(c) /\ Earning(c, plugin) /\ Under(c, plugin)
  BY DEF Good, Working, Turning
<1>2. /\ c.at \in Nat /\ c.at + 1 \in 1..Len(c.entries) /\ Len(c.entries) \in Nat
      /\ c.entries \in Seq(1..Len(plugin)) /\ c.pending \subseteq Nat
  BY <1>1, LiveFields DEF Finished, Working
<1>3. r = c.entries[c.at + 1] /\ plugin[r] \notin Alone
  BY DEF Lone, Following
<1>4. Live(d)
  BY <1>1, TriggerLive
<1>5. /\ d.kind = "parallel" /\ d.entries = c.entries /\ d.at = c.at + 1 /\ d.ran = c.ran
      /\ d.answer = c.answer /\ d.alone = FALSE /\ d.state = "running"
      /\ \/ r \in disposed /\ d.fatal = TRUE /\ d.pending = c.pending
         \/ r \notin disposed /\ d.fatal = c.fatal /\ d.pending = c.pending \cup {r}
  BY <1>1 DEF Live, CallRecords, Launched, Running
<1> HIDE DEF d, r
<1>6. c.pending \subseteq {c.entries[i] : i \in 1..c.at}
  BY <1>1 DEF Working
<1>7. \A i \in 1..c.at : i \in 1..Len(c.entries) /\ c.entries[i] # r
  <2>1. \A i, j \in 1..Len(c.entries) : c.entries[i] = c.entries[j] => i = j
    BY <1>1 DEF Working, Apart
  <2> QED
    BY <1>2, <1>3, <2>1
<1>8. r \notin c.pending
  BY <1>6, <1>7
<1>9. d.pending \subseteq c.pending \cup {r}
  BY <1>5
<1>10. Working(d, plugin)
  <2>1. {c.entries[i] : i \in 1..c.at} \cup {r} \subseteq {c.entries[i] : i \in 1..(c.at + 1)}
    <3>1. c.at + 1 \in 1..(c.at + 1) /\ \A i \in 1..c.at : i \in 1..(c.at + 1)
      BY <1>2
    <3> QED
      BY <1>3, <3>1
  <2> QED
    BY <1>1, <1>4, <1>5, <1>6, <1>9, <2>1 DEF Working
<1>11. Earning(d, plugin)
  <2>1. Batches(c, plugin)
    BY <1>1 DEF Earning, Orderly
  <2>2. ASSUME NEW i \in 1..(c.at + 1), plugin[c.entries[i]] \in Alone
        PROVE  /\ \A j \in 1..i - 1 : c.entries[j] \notin d.pending
               /\ c.at + 1 > i => c.entries[i] \notin d.pending
    <3>1. i \in 1..c.at
      BY <1>2, <1>3, <2>2
    <3>2. \A j \in 1..i - 1 : j \in 1..c.at /\ c.entries[j] \notin c.pending
      BY <1>2, <2>1, <2>2, <3>1 DEF Batches
    <3>3. c.entries[i] \notin c.pending
      BY <1>1, <2>2, <3>1 DEF Under
    <3> QED
      BY <1>7, <1>9, <3>1, <3>2, <3>3
  <2>3. Batches(d, plugin)
    BY <1>5, <2>2 DEF Batches
  <2>4. Promised(d) = Promised(c)
    BY <1>5, PromisedSame
  <2> QED
    BY <1>1, <1>5, <2>3, <2>4 DEF Earning, Orderly, Answering, Running
<1>12. Under(d, plugin)
  <2>1. ASSUME ~d.fatal PROVE NoFatal(d) /\ Len(d.ran) + Cardinality(d.pending) = d.at
    <3>1. ~c.fatal /\ d.pending = c.pending \cup {r}
      BY <1>5, <2>1
    <3>2. NoFatal(c) /\ Len(c.ran) + Cardinality(c.pending) = c.at
      BY <1>1, <3>1 DEF Under
    <3>3. IsFiniteSet(c.pending)
      BY <1>1, PendingFinite
    <3>4. Cardinality(c.pending) \in Nat /\ Cardinality(c.pending \cup {r}) = Cardinality(c.pending) + 1
      BY <1>8, <3>3, FS_AddElement, FS_CardinalityType
    <3>5. Len(c.ran) \in Nat
      BY <1>1, LiveFields
    <3>6. NoFatal(d)
      BY <1>5, <3>2 DEF NoFatal
    <3>7. Cardinality(d.pending) = Cardinality(c.pending) + 1 /\ Len(d.ran) = Len(c.ran)
      BY <1>5, <3>1, <3>4
    <3>8. Len(d.ran) + Cardinality(d.pending) = d.at
      <4> DEFINE m == Len(c.ran)
                 n == Cardinality(c.pending)
      <4>1. m \in Nat /\ n \in Nat /\ m + n = c.at
        BY <3>2, <3>4, <3>5
      <4>2. Len(d.ran) = m /\ Cardinality(d.pending) = n + 1 /\ d.at = c.at + 1
        BY <1>5, <3>7
      <4> HIDE DEF m, n
      <4>3. m + (n + 1) = c.at + 1
        BY <4>1
      <4> QED
        BY <4>2, <4>3
    <3> QED
      BY <3>6, <3>8
  <2>2. ASSUME NEW i \in 1..d.at, plugin[d.entries[i]] \in Alone PROVE d.entries[i] \notin d.pending
    <3>1. i \in 1..c.at
      BY <1>2, <1>3, <1>5, <2>2
    <3>2. c.entries[i] \notin c.pending
      BY <1>1, <1>5, <2>2, <3>1 DEF Under
    <3> QED
      BY <1>5, <1>7, <1>9, <3>1, <3>2
  <2> QED
    BY <1>5, <2>1, <2>2 DEF Under, Firsts
<1>13. Good(d, plugin, disposed)
  BY <1>5, <1>10, <1>11, <1>12 DEF Good, Running, Idle
<1> QED
  BY <1>13 DEF d

\* So is one that comes to the end of a batch.
LEMMA DrainedGood ==
  ASSUME NEW c, NEW p, Good(c, p, disposed), Running(c), ~c.alone,
         c.kind = "parallel"
  PROVE  Good(Drained(c), p, disposed)
<1>1. Working(c, p) /\ Live(c) /\ Earning(c, p) /\ Under(c, p)
  BY DEF Good, Working, Turning
<1>2. c.kind = "parallel" /\ Answering(c) /\ Orderly(c, p)
  BY <1>1 DEF Earning, Running
<1>3. CASE c.pending # {}
  BY <1>3 DEF Drained
<1>4. CASE c.pending = {} /\ c.fatal
  <2>1. Halting(c, p) /\ Cause(c, disposed)
    BY <1>1, <1>2, <1>4 DEF Halting, Cause
  <2> QED
    BY <1>2, <1>4, <2>1, RejectGood DEF Drained
<1>5. CASE c.pending = {} /\ ~c.fatal
  <2>1. Len(c.ran) = c.at
    <3>1. Len(c.ran) \in Nat /\ Cardinality({}) = 0
      BY <1>1, LiveFields, FS_EmptySet
    <3>2. Len(c.ran) + Cardinality(c.pending) = c.at
      BY <1>1, <1>2, <1>5 DEF Under
    <3> QED
      BY <1>5, <3>1, <3>2
  <2>2. Ready(c, p)
    BY <1>1, <1>2, <1>5, <2>1 DEF Ready, Under, Firsts
  <2> QED
    BY <1>5, <2>2, TriggerGood, FinishGood DEF Drained
<1> QED
  BY <1>3, <1>4, <1>5

\* What a call has run is as it was, with one more at the end.
LEMMA RanNext ==
  ASSUME NEW c, NEW d, Live(c), NEW r \in Nat, NEW o \in AllOutcomes,
         d.ran = Append(c.ran, <<r, o>>)
  PROVE  /\ Len(d.ran) = Len(c.ran) + 1 /\ Len(c.ran) \in Nat
         /\ d.ran[Len(c.ran) + 1][1] = r /\ d.ran[Len(c.ran) + 1][2] = o
         /\ \A i \in 1..Len(c.ran) : d.ran[i] = c.ran[i]
<1> DEFINE x == <<r, o>>
<1>1. x \in Nat \X AllOutcomes /\ x[1] = r /\ x[2] = o
  OBVIOUS
<1> HIDE DEF x
<1>2. c.ran \in Seq(Nat \X AllOutcomes) /\ d.ran = Append(c.ran, x)
  BY LiveFields DEF x
<1>3. /\ Len(d.ran) = Len(c.ran) + 1 /\ Len(c.ran) \in Nat /\ d.ran[Len(c.ran) + 1] = x
      /\ \A i \in 1..Len(c.ran) : d.ran[i] = c.ran[i]
  BY <1>1, <1>2
<1> QED
  BY <1>1, <1>3

\* What a running parallel() becomes when the handler of runner r leaves its
\* batch, before the rest of the strategy is looked at.
Joined(c, r, o) == [Settled(c, r, o) EXCEPT !.fatal = @ \/ o = "fatal"]

\* A handler that is done leaves the batch in its place.
LEMMA BatchGood ==
  ASSUME NEW c, NEW p, Good(c, p, disposed), Running(c), ~c.alone,
         NEW r \in c.pending, NEW o \in AllOutcomes, Len(p) \in Nat
  PROVE  /\ Good(Joined(c, r, o), p, disposed) /\ Running(Joined(c, r, o))
         /\ ~Joined(c, r, o).alone /\ Joined(c, r, o).kind = "parallel"
<1>1. /\ Working(c, p) /\ Live(c) /\ Earning(c, p) /\ Under(c, p) /\ c.kind = "parallel"
      /\ r \in Nat
  BY LiveFields DEF Good, Working, Under, Turning, Ready
<1> DEFINE d == Settled(c, r, o)
<1>2. /\ Live(d) /\ d.kind = c.kind /\ d.entries = c.entries /\ d.at = c.at
      /\ d.pending = c.pending \ {r} /\ d.alone = c.alone /\ d.fatal = c.fatal
      /\ d.ran = Append(c.ran, <<r, o>>) /\ d.state = c.state
      /\ d.answer = IF o = "fatal" THEN c.answer ELSE Folded(c, r, o)
  <2>1. Live(c) /\ r \in Nat
    BY <1>1
  <2>2. Leaves(d, c, r, o)
    BY <2>1, SettledFields
  <2> HIDE DEF d
  <2> QED
    BY <2>2 DEF Leaves
<1> HIDE DEF d
<1> SUFFICES ASSUME NEW e, e = [d EXCEPT !.fatal = @ \/ o = "fatal"]
             PROVE  Good(e, p, disposed) /\ Running(e) /\ ~e.alone /\ e.kind = "parallel"
  BY DEF d, Joined
<1>3. d \in CallRecords /\ d.fatal \in BOOLEAN
  BY <1>2, LiveFields
<1> DEFINE f == d.fatal \/ o = "fatal"
<1>4. f \in BOOLEAN /\ e = [d EXCEPT !.fatal = f]
  BY <1>3
<1> HIDE DEF f
<1>5. /\ Live(e) /\ e.kind = d.kind /\ e.entries = d.entries /\ e.at = d.at /\ e.pending = d.pending
      /\ e.alone = d.alone /\ e.ran = d.ran /\ e.state = d.state /\ e.answer = d.answer
      /\ e.fatal = f
  BY <1>2, <1>3, <1>4 DEF Live, CallRecords
<1>6. /\ e.kind = "parallel" /\ e.entries = c.entries /\ e.at = c.at /\ e.pending = c.pending \ {r}
      /\ e.alone = FALSE /\ e.state = "running" /\ e.answer = c.answer
  BY <1>1, <1>2, <1>5, LiveFields DEF Running, Folded
<1>7. /\ Len(e.ran) = Len(c.ran) + 1 /\ Len(c.ran) \in Nat
      /\ e.ran[Len(c.ran) + 1][1] = r /\ e.ran[Len(c.ran) + 1][2] = o
      /\ \A i \in 1..Len(c.ran) : e.ran[i] = c.ran[i]
  <2>1. e.ran = Append(c.ran, <<r, o>>)
    BY <1>2, <1>5
  <2> QED
    BY <1>1, <2>1, RanNext
<1>8. Working(e, p)
  BY <1>1, <1>5, <1>6 DEF Working
<1>9. Earning(e, p)
  <2>1. Batches(c, p)
    BY <1>1 DEF Earning, Orderly
  <2>2. Batches(e, p)
    BY <1>6, <2>1 DEF Batches
  <2>3. Promised(e) = <<>> /\ Promised(c) = <<>>
    BY <1>1, <1>6 DEF Promised
  <2> QED
    BY <1>1, <1>6, <2>2, <2>3 DEF Earning, Orderly, Answering, Running
<1>10. Under(e, p)
  <2>1. ASSUME ~e.fatal PROVE NoFatal(e) /\ Len(e.ran) + Cardinality(e.pending) = e.at
    <3>1. ~c.fatal /\ o # "fatal"
      BY <1>2, <1>5, <2>1 DEF f
    <3>2. NoFatal(c) /\ Len(c.ran) + Cardinality(c.pending) = c.at
      BY <1>1, <3>1 DEF Under
    <3>3. IsFiniteSet(c.pending)
      BY <1>1, PendingFinite
    <3>4. Cardinality(c.pending) \in Nat /\ Cardinality(c.pending \ {r}) = Cardinality(c.pending) - 1
      BY <3>3, FS_RemoveElement, FS_CardinalityType
    <3>5. NoFatal(e)
      <4> SUFFICES ASSUME NEW i \in 1..(Len(c.ran) + 1) PROVE e.ran[i][2] # "fatal"
        BY <1>7 DEF NoFatal
      <4>1. CASE i = Len(c.ran) + 1
        BY <1>7, <3>1, <4>1
      <4>2. CASE i # Len(c.ran) + 1
        <5>1. i \in 1..Len(c.ran)
          BY <1>7, <4>2
        <5> QED
          BY <1>7, <3>2, <5>1 DEF NoFatal
      <4> QED
        BY <4>1, <4>2
    <3>6. Len(e.ran) + Cardinality(e.pending) = e.at
      <4> DEFINE m == Len(c.ran)
                 n == Cardinality(c.pending)
      <4>1. m \in Nat /\ n \in Nat /\ m + n = c.at
        BY <1>7, <3>2, <3>4
      <4>2. Len(e.ran) = m + 1 /\ Cardinality(e.pending) = n - 1 /\ e.at = c.at
        BY <1>6, <1>7, <3>4
      <4> HIDE DEF m, n
      <4>3. (m + 1) + (n - 1) = c.at
        BY <4>1
      <4> QED
        BY <4>2, <4>3
    <3> QED
      BY <3>5, <3>6
  <2>2. \A i \in 1..e.at : p[e.entries[i]] \in Alone => e.entries[i] \notin e.pending
    BY <1>1, <1>6 DEF Under
  <2> QED
    BY <1>6, <2>1, <2>2 DEF Under, Firsts
<1> QED
  BY <1>6, <1>8, <1>9, <1>10 DEF Good, Running, Idle

\* A lone handler that is done leaves the call where it can end.
LEMMA LoneSettled ==
  ASSUME NEW c, NEW p, Good(c, p, disposed), Running(c), c.alone,
         NEW r \in c.pending, NEW o \in AllOutcomes
  PROVE  \A d : d = Settled(c, r, o) =>
           /\ Halting(d, p) /\ Answering(d) /\ d.pending = {} /\ Running(d) /\ d.alone
           /\ d.kind = c.kind
           /\ o = "fatal" => ~NoFatal(d)
           /\ o # "fatal" => NoFatal(d)
           /\ o # "fatal" /\ ~Enough(c, o) => Ready(d, p)
           /\ Enough(c, o) => d.answer = <<r>>
<1>1. /\ Working(c, p) /\ Live(c) /\ Earning(c, p) /\ Under(c, p) /\ r \in Nat
      /\ c.at >= 1 /\ c.pending = {c.entries[c.at]} /\ ~c.fatal /\ r = c.entries[c.at]
      /\ NoFatal(c) /\ Answering(c)
  BY LiveFields DEF Good, Working, Under, Turning, Ready, Earning, Running
<1>2. /\ c.at \in 1..Len(c.entries) /\ Len(c.entries) \in Nat /\ c.entries \in Seq(1..Len(p))
      /\ c.ran \in Seq(Nat \X AllOutcomes)
  BY <1>1, LiveFields DEF Working
<1> SUFFICES ASSUME NEW d, d = Settled(c, r, o)
             PROVE  /\ Halting(d, p) /\ Answering(d) /\ d.pending = {} /\ Running(d)
                    /\ d.alone /\ d.kind = c.kind
                    /\ o = "fatal" => ~NoFatal(d)
                    /\ o # "fatal" => NoFatal(d)
                    /\ o # "fatal" /\ ~Enough(c, o) => Ready(d, p)
                    /\ Enough(c, o) => d.answer = <<r>>
  OBVIOUS
<1>3. /\ Live(d) /\ d.kind = c.kind /\ d.entries = c.entries /\ d.at = c.at
      /\ d.pending = c.pending \ {r} /\ d.alone = c.alone /\ d.fatal = c.fatal
      /\ d.ran = Append(c.ran, <<r, o>>) /\ d.state = c.state
      /\ d.answer = IF o = "fatal" THEN c.answer ELSE Folded(c, r, o)
  <2>1. Live(c) /\ r \in Nat
    BY <1>1
  <2>2. Leaves(d, c, r, o)
    BY <2>1, SettledFields
  <2> QED
    BY <2>2 DEF Leaves
<1>4. /\ Len(d.ran) = Len(c.ran) + 1 /\ Len(c.ran) \in Nat
      /\ d.ran[Len(c.ran) + 1][1] = r /\ d.ran[Len(c.ran) + 1][2] = o
      /\ \A i \in 1..Len(c.ran) : d.ran[i] = c.ran[i]
  <2>1. Live(c) /\ r \in Nat /\ d.ran = Append(c.ran, <<r, o>>)
    BY <1>1, <1>3
  <2> QED
    BY <2>1, RanNext
<1>5. d.pending = {}
  BY <1>1, <1>3
<1>6. Working(d, p)
  BY <1>1, <1>3, <1>5 DEF Working
<1>7. o # "fatal" => NoFatal(d)
  <2> SUFFICES ASSUME o # "fatal", NEW i \in 1..(Len(c.ran) + 1) PROVE d.ran[i][2] # "fatal"
    BY <1>4 DEF NoFatal
  <2>1. CASE i = Len(c.ran) + 1
    BY <1>4, <2>1
  <2>2. CASE i # Len(c.ran) + 1
    <3>1. i \in 1..Len(c.ran)
      BY <1>4, <2>2
    <3> QED
      BY <1>1, <1>4, <3>1 DEF NoFatal
  <2> QED
    BY <2>1, <2>2
<1>8. o = "fatal" => ~NoFatal(d)
  <2>1. Len(c.ran) + 1 \in 1..Len(d.ran)
    BY <1>4
  <2> QED
    BY <1>4, <2>1 DEF NoFatal
<1>9. d.kind # "parallel" => RanFirst(d, d.at)
  <2> SUFFICES ASSUME c.kind # "parallel" PROVE RanFirst(d, c.at)
    BY <1>3
  <2>1. RanFirst(c, c.at - 1)
    BY <1>1 DEF Under
  <2>2. Len(c.ran) + 1 = c.at /\ c.at \in Nat /\ Len(c.ran) \in Nat
    <3>1. Len(c.ran) = c.at - 1 /\ c.at \in Nat
      BY <1>2, <2>1 DEF RanFirst
    <3> QED
      BY <1>4, <3>1
  <2>3. ASSUME NEW i \in 1..c.at PROVE d.ran[i][1] = c.entries[i]
    <3>1. CASE i = c.at
      BY <1>1, <1>4, <2>2, <3>1
    <3>2. CASE i # c.at
      <4>1. i \in 1..(c.at - 1) /\ i \in 1..Len(c.ran)
        BY <2>2, <3>2
      <4> QED
        BY <1>4, <2>1, <4>1 DEF RanFirst
    <3> QED
      BY <3>1, <3>2
  <2> QED
    BY <1>3, <1>4, <2>2, <2>3 DEF RanFirst
<1>10. d.answer = Promised(d)
  <2>1. CASE c.kind = "parallel"
    <3>1. Promised(d) = <<>> /\ Promised(c) = <<>> /\ d.answer = c.answer
      BY <1>3, <2>1 DEF Promised, Folded
    <3> QED
      BY <1>1, <3>1 DEF Answering
  <2>2. CASE c.kind # "parallel"
    <3>1. RanFirst(c, c.at - 1)
      BY <1>1, <2>2 DEF Under
    <3>2. Once(c, r)
      <4> SUFFICES ASSUME NEW i \in 1..Len(c.ran) PROVE c.ran[i][1] # r
        BY DEF Once
      <4>0. Len(c.ran) = c.at - 1
        BY <3>1 DEF RanFirst
      <4>1. i \in 1..(c.at - 1) /\ i \in 1..Len(c.entries) /\ i # c.at
        <5>1. c.at \in Nat /\ Len(c.entries) \in Nat /\ c.at <= Len(c.entries)
          BY <1>2
        <5>2. i \in Nat /\ 1 <= i /\ i <= c.at - 1
          BY <4>0, <5>1
        <5> QED
          BY <5>1, <5>2
      <4>2. c.ran[i][1] = c.entries[i]
        BY <3>1, <4>1 DEF RanFirst
      <4>3. c.entries[i] # c.entries[c.at]
        BY <1>1, <1>2, <4>1 DEF Working, Apart
      <4> QED
        BY <1>1, <4>2, <4>3
    <3>3. c.answer = Promised(c) /\ (c.kind \in Firsts => c.answer = <<>>)
      BY <1>1 DEF Answering, Under
    <3> QED
      BY <1>1, <3>2, <3>3, PromisedNext
  <2> QED
    BY <2>1, <2>2
<1>11. Halting(d, p)
  <2>1. CASE c.kind = "parallel"
    <3>1. Batches(d, p)
      BY <1>5 DEF Batches
    <3> QED
      BY <1>3, <1>6, <2>1, <3>1 DEF Halting, Orderly
  <2>2. CASE c.kind # "parallel"
    <3>1. \A i \in 1..(Len(d.ran) - 1) : d.ran[i][2] # "fatal"
      <4>1. \A i \in 1..(Len(d.ran) - 1) : i \in 1..Len(c.ran)
        BY <1>4
      <4> QED
        BY <1>1, <1>4, <4>1 DEF NoFatal
    <3>2. d.at \in 0..Len(d.entries)
      BY <1>3, LiveFields
    <3>3. InTurn(d)
      BY <1>3, <1>6, <1>9, <2>2, <3>1, <3>2, InTurnIs
    <3> QED
      BY <1>3, <1>5, <1>6, <2>2, <3>3 DEF Halting, Orderly
  <2> QED
    BY <2>1, <2>2
<1>12. ASSUME o # "fatal", ~Enough(c, o) PROVE Ready(d, p)
  <2>1. d.kind \in Firsts => d.answer = <<>>
    <3>1. c.kind \in Firsts => c.answer = <<>> /\ o # "value"
      BY <1>1, <1>12 DEF Under, Enough, Firsts
    <3>2. c.kind \in Firsts => Folded(c, r, o) = c.answer
      BY <3>1 DEF Folded, Firsts
    <3> QED
      BY <1>3, <3>1, <3>2
  <2>2. d.kind = "parallel" => Len(d.ran) = d.at
    <3> SUFFICES ASSUME c.kind = "parallel" PROVE Len(c.ran) + 1 = c.at
      BY <1>3, <1>4
    <3>1. \A y : Cardinality({y}) = 1
      BY FS_Singleton
    <3>2. Cardinality(c.pending) = 1
      BY <1>1, <3>1
    <3> QED
      BY <1>1, <3>2 DEF Under
  <2> QED
    BY <1>1, <1>3, <1>5, <1>6, <1>7, <1>9, <1>10, <1>12, <2>1, <2>2 DEF Ready, Running, Answering
<1>13. ASSUME Enough(c, o) PROVE d.answer = <<r>>
  BY <1>3, <1>13 DEF Enough, Folded
<1> QED
  BY <1>3, <1>5, <1>7, <1>8, <1>10, <1>11, <1>12, <1>13 DEF Running, Answering

\* However a handler comes to its end, the call is in its place.
LEMMA FollowGood ==
  ASSUME NEW c, NEW p, Good(c, p, disposed), NEW r \in c.pending, NEW o \in AllOutcomes,
         Len(p) \in Nat
  PROVE  \A e \in Follow(c, r, o) : Good(e, p, disposed)
<1>1. Working(c, p) /\ Live(c) /\ Earning(c, p) /\ r \in Nat
  BY LiveFields DEF Good, Working
<1>2. CASE ~Running(c)
  <2> DEFINE e == [c EXCEPT !.pending = @ \ {r}]
  <2>1. Follow(c, r, o) = {e}
    BY <1>2 DEF Follow, Running
  <2>2. /\ Live(e) /\ e.kind = c.kind /\ e.entries = c.entries /\ e.at = c.at
        /\ e.pending = c.pending \ {r} /\ e.fatal = c.fatal
        /\ e.ran = c.ran /\ e.state = c.state /\ e.answer = c.answer
        /\ e.prepared = c.prepared
    BY <1>1 DEF Live, CallRecords
  <2> HIDE DEF e
  <2>3. c.kind = "parallel" /\ c.state = "rejected"
    <3>1. c.kind = "parallel"
      BY <1>2 DEF Good
    <3>2. c.state # "fulfilled"
      BY <3>1 DEF Good, Contained
    <3> QED
      BY <1>1, <1>2, <3>1, <3>2, LiveFields DEF Good, Running
  <2>4. Working(e, p)
    BY <1>1, <2>2 DEF Working
  <2>5. Earning(e, p)
    <3>1. Batches(e, p)
      BY <1>1, <2>2, <2>3 DEF Earning, Orderly, Batches
    <3> QED
      BY <2>2, <2>3, <3>1 DEF Earning, Orderly
  <2>6. Cause(e, disposed)
    <3>1. Cause(c, disposed)
      BY <2>3 DEF Good
    <3> QED
      BY <2>2, <3>1 DEF Cause, NoFatal, Finished, Following
  <2>7. Good(e, p, disposed)
    BY <2>2, <2>3, <2>4, <2>5, <2>6 DEF Good, Running, Idle
  <2> QED
    BY <2>1, <2>7
<1>3. CASE Running(c) /\ ~c.alone
  <2> DEFINE e == Joined(c, r, o)
  <2>1. Follow(c, r, o) = {Drained(e)}
    BY <1>3 DEF Follow, Running, Joined
  <2>2. Good(e, p, disposed) /\ Running(e) /\ ~e.alone /\ e.kind = "parallel"
    <3>1. Running(c) /\ ~c.alone
      BY <1>3
    <3> QED
      BY <3>1, BatchGood
  <2> HIDE DEF e
  <2>3. Good(Drained(e), p, disposed)
    BY <2>2, DrainedGood
  <2> QED
    BY <2>1, <2>3
<1>4. CASE Running(c) /\ c.alone
  <2> DEFINE d == Settled(c, r, o)
  <2>1. /\ Halting(d, p) /\ Answering(d) /\ d.pending = {} /\ Running(d) /\ d.alone
        /\ d.kind = c.kind
        /\ o = "fatal" => ~NoFatal(d)
        /\ o # "fatal" => NoFatal(d)
        /\ o # "fatal" /\ ~Enough(c, o) => Ready(d, p)
        /\ Enough(c, o) => d.answer = <<r>>
    BY <1>4, LoneSettled
  <2>2. Follow(c, r, o) =
          IF o = "fatal" THEN {Reject(d)}
          ELSE IF Enough(c, o) THEN {Fulfil(d)}
          ELSE IF c.kind = "parallel" THEN {[d EXCEPT !.alone = FALSE]}
          ELSE {Proceed(d)} \cup MayLose(c, r, o)
    BY <1>4 DEF Follow, Running
  <2> HIDE DEF d
  <2>3. CASE o = "fatal"
    <3>1. Cause(d, disposed)
      BY <2>1, <2>3 DEF Cause
    <3> QED
      BY <2>1, <2>2, <2>3, <3>1, RejectGood
  <2>4. CASE o # "fatal" /\ Enough(c, o)
    <3>1. d.kind \in Firsts /\ Len(d.answer) = 1
      <4>1. Len(<<r>>) = 1
        OBVIOUS
      <4> QED
        BY <2>1, <2>4, <4>1 DEF Enough, Firsts
    <3>2. Good(Fulfil(d), p, disposed)
      BY <2>1, <2>4, <3>1, FulfilGood
    <3> QED
      BY <2>2, <2>4, <3>2
  <2>5. CASE o # "fatal" /\ ~Enough(c, o) /\ c.kind = "parallel"
    <3> DEFINE e == [d EXCEPT !.alone = FALSE]
    <3>1. Ready(d, p) /\ Live(d) /\ Working(d, p) /\ Orderly(d, p)
      BY <2>1, <2>5 DEF Ready, Working, Halting
    <3>2. /\ Live(e) /\ e.kind = d.kind /\ e.entries = d.entries /\ e.at = d.at
          /\ e.pending = d.pending /\ e.fatal = d.fatal /\ e.alone = FALSE
          /\ e.ran = d.ran /\ e.state = d.state /\ e.answer = d.answer
      BY <3>1 DEF Live, CallRecords
    <3> HIDE DEF e
    <3>3. Working(e, p)
      BY <3>1, <3>2 DEF Working
    <3>4. Earning(e, p)
      <4>1. Promised(e) = Promised(d)
        BY <3>2, PromisedSame
      <4> QED
        BY <2>1, <3>1, <3>2, <4>1 DEF Earning, Orderly, Batches, InTurn, Answering
    <3>5. NoFatal(e)
      BY <2>1, <2>5, <3>2 DEF NoFatal
    <3>6. Len(e.ran) + Cardinality(e.pending) = e.at
      <4>1. Cardinality({}) = 0 /\ Len(d.ran) \in Nat
        BY <3>1, FS_EmptySet, LiveFields
      <4>2. Len(d.ran) = d.at
        BY <2>1, <2>5, <3>1 DEF Ready
      <4>3. Cardinality(e.pending) = 0
        BY <2>1, <3>2, <4>1
      <4> QED
        BY <3>2, <4>1, <4>2, <4>3
    <3>7. Under(e, p)
      BY <2>1, <2>5, <3>2, <3>5, <3>6 DEF Under, Firsts
    <3>8. Good(e, p, disposed)
      BY <2>1, <2>5, <3>2, <3>3, <3>4, <3>7 DEF Good, Running, Idle
    <3> QED
      BY <2>2, <2>5, <3>8 DEF e
  <2>6. CASE o # "fatal" /\ ~Enough(c, o) /\ c.kind # "parallel"
    <3>1. Good(Proceed(d), p, disposed)
      BY <2>1, <2>6, ProceedGood
    <3>2. ASSUME NEW e \in MayLose(c, r, o) PROVE Good(e, p, disposed)
      <4> DEFINE f == [d EXCEPT !.answer = c.answer]
      <4>1. "reducer" \in Faults /\ c.kind \in {"reduce", "reduceSync"} /\ e = Reject(f)
        BY <3>2 DEF MayLose, Reduces, d
      <4>2. Live(d) /\ Working(d, p) /\ Orderly(d, p) /\ c.answer \in Seq(Nat)
        BY <1>1, <2>1, LiveFields DEF Halting, Working
      <4>3. /\ Live(f) /\ f.kind = d.kind /\ f.entries = d.entries /\ f.at = d.at
            /\ f.pending = d.pending /\ f.ran = d.ran /\ f.fatal = d.fatal
        BY <4>2 DEF Live, CallRecords
      <4> HIDE DEF f
      <4>4. Working(f, p)
        BY <4>2, <4>3 DEF Working
      <4>5. Halting(f, p)
        BY <2>1, <4>2, <4>3, <4>4 DEF Halting, Orderly, Batches, InTurn
      <4>6. Cause(f, disposed) /\ ~Contained(f)
        BY <2>1, <4>1, <4>3 DEF Cause, Contained
      <4> QED
        BY <4>1, <4>5, <4>6, RejectGood
    <3> QED
      BY <2>2, <2>6, <3>1, <3>2
  <2> QED
    BY <2>3, <2>4, <2>5, <2>6
<1> QED
  BY <1>2, <1>3, <1>4

\* A call stays in its place when plugins are registered and runners disposed.
LEMMA GoodStays ==
  ASSUME NEW c, NEW p, NEW q, NEW x, NEW y, Good(c, p, x), x \subseteq y,
         Len(p) \in Nat, Len(q) \in Nat, Len(p) <= Len(q),
         \A r \in 1..Len(p) : q[r] = p[r]
  PROVE  Good(c, q, y)
<1>1. Working(c, p) /\ Live(c) /\ Earning(c, p)
  BY DEF Good, Working
<1>2. /\ c.entries \in Seq(1..Len(p)) /\ Len(c.entries) \in Nat /\ c.at \in 0..Len(c.entries)
  BY <1>1, LiveFields DEF Working
<1>3. \A i \in 1..c.at : q[c.entries[i]] = p[c.entries[i]]
  <2>1. \A i \in 1..c.at : c.entries[i] \in 1..Len(p)
    BY <1>2
  <2> QED
    BY <2>1
<1>4. Working(c, q)
  <2>1. 1..Len(p) \subseteq 1..Len(q)
    OBVIOUS
  <2>2. c.entries \in Seq(1..Len(q))
    BY <1>2, <2>1, SeqMonotonic
  <2> QED
    BY <1>1, <2>2 DEF Working
<1>5. Earning(c, q)
  BY <1>1, <1>3 DEF Earning, Orderly, Batches
<1>6. Running(c) => Under(c, q) \/ Turning(c, q)
  <2>1. Under(c, p) => Under(c, q)
    BY <1>3 DEF Under
  <2>2. Turning(c, p) => Turning(c, q)
    BY <1>4 DEF Turning, Ready
  <2> QED
    BY <2>1, <2>2 DEF Good
<1>7. c.state = "rejected" => Cause(c, y)
  BY DEF Good, Cause
<1> QED
  BY <1>4, <1>5, <1>6, <1>7 DEF Good
-----------------------------------------------------------------------------
\* Keeping brings nothing twice.
LEMMA KeepingApart ==
  ASSUME NEW S, NEW T, NEW s \in Seq(S), Apart(s)
  PROVE  Apart(Keeping(s, T))
<1>1. PICK f : Keeping(s, T) = f[Len(s)] /\ Goes(f, s, T)
  BY KeepingSteps, Zenon
<1> DEFINE P == {n \in 0..Len(s) : /\ f[n] \in Seq(S) /\ Apart(f[n])
                                   /\ ToSet(f[n]) \subseteq {s[i] : i \in 1..n}}
<1>2. 0 \in P
  <2>1. f[0] = <<>> /\ 0 \in 0..Len(s)
    BY <1>1 DEF Goes
  <2>2. <<>> \in Seq(S) /\ Apart(<<>>) /\ ToSet(<<>>) = {}
    BY DEF Apart, ToSet
  <2> QED
    BY <2>1, <2>2
<1>3. ASSUME NEW n \in 1..Len(s), n - 1 \in P PROVE n \in P
  <2> DEFINE a == f[n - 1]
             x == s[n]
  <2>1. f[n] = Keep(x, T, a) /\ x \in S
    BY <1>1 DEF Goes
  <2>2. a \in Seq(S) /\ Apart(a) /\ ToSet(a) \subseteq {s[i] : i \in 1..(n - 1)}
    BY <1>3
  <2>3. {s[i] : i \in 1..n} = {s[i] : i \in 1..(n - 1)} \cup {x}
    OBVIOUS
  <2>4. x \notin {s[i] : i \in 1..(n - 1)}
    <3>1. \A i \in 1..(n - 1) : i \in 1..Len(s) /\ i # n
      OBVIOUS
    <3> QED
      BY <3>1 DEF Apart
  <2> HIDE DEF a, x, P
  <2>5. CASE x \in T
    <3> DEFINE b == Append(a, x)
    <3>1. /\ b \in Seq(S) /\ Len(b) = Len(a) + 1 /\ b[Len(a) + 1] = x /\ Len(a) \in Nat
          /\ \A i \in 1..Len(a) : b[i] = a[i]
      BY <2>1, <2>2
    <3>2. ToSet(b) = ToSet(a) \cup {x}
      BY <2>1, <2>2, AppendElements
    <3>3. \A i \in 1..Len(a) : a[i] # x
      <4>1. \A i \in 1..Len(a) : a[i] \in ToSet(a)
        BY <2>2 DEF ToSet
      <4> QED
        BY <2>2, <2>4, <4>1
    <3> HIDE DEF b
    <3>4. Apart(b)
      <4> SUFFICES ASSUME NEW i \in 1..Len(b), NEW j \in 1..Len(b), b[i] = b[j] PROVE i = j
        BY DEF Apart
      <4>1. \A m \in 1..Len(b) : m = Len(a) + 1 \/ m \in 1..Len(a)
        BY <3>1
      <4>2. CASE i \in 1..Len(a) /\ j \in 1..Len(a)
        BY <2>2, <3>1, <4>2 DEF Apart
      <4>3. CASE i = Len(a) + 1 /\ j \in 1..Len(a)
        BY <3>1, <3>3, <4>3
      <4>4. CASE i \in 1..Len(a) /\ j = Len(a) + 1
        BY <3>1, <3>3, <4>4
      <4> QED
        BY <4>1, <4>2, <4>3, <4>4
    <3>5. f[n] = b
      BY <2>1, <2>5 DEF Keep, b
    <3>6. ToSet(f[n]) \subseteq {s[i] : i \in 1..n}
      BY <2>2, <2>3, <3>2, <3>5
    <3>7. f[n] \in Seq(S) /\ Apart(f[n])
      BY <3>1, <3>4, <3>5
    <3> QED
      BY <3>6, <3>7 DEF P
  <2>6. CASE x \notin T
    <3>1. f[n] = a
      BY <2>1, <2>6 DEF Keep
    <3> QED
      BY <2>2, <2>3, <3>1 DEF P
  <2> QED
    BY <2>5, <2>6
<1>4. Len(s) \in P
  <2>0. Len(s) \in Nat
    OBVIOUS
  <2> HIDE DEF P
  <2>1. \A n \in 0..Len(s) : n \in P
    BY <1>2, <1>3, <2>0, BoundedInduction
  <2> QED
    BY <2>0, <2>1
<1> QED
  BY <1>1, <1>4

\* Nor do two sequences with nothing in common, one behind the other.
LEMMA ConcatApart ==
  ASSUME NEW S, NEW s \in Seq(S), NEW t \in Seq(S), Apart(s), Apart(t),
         ToSet(s) \cap ToSet(t) = {}
  PROVE  Apart(s \o t)
<1> DEFINE u == s \o t
           m == Len(s)
           n == Len(t)
<1>1. /\ Len(u) = m + n /\ m \in Nat /\ n \in Nat
      /\ \A i \in 1..m : u[i] = s[i]
      /\ \A i \in (m + 1)..(m + n) : u[i] = t[i - m]
  OBVIOUS
<1>2. (\A i \in 1..m : s[i] \in ToSet(s)) /\ (\A i \in 1..n : t[i] \in ToSet(t))
  BY DEF ToSet
<1>3. (\A i, j \in 1..m : s[i] = s[j] => i = j) /\ (\A i, j \in 1..n : t[i] = t[j] => i = j)
  BY DEF Apart
<1> HIDE DEF u, m, n
<1> SUFFICES ASSUME NEW i \in 1..Len(u), NEW j \in 1..Len(u), u[i] = u[j] PROVE i = j
  BY DEF Apart, u
<1>4. \A k \in 1..Len(u) : k \in 1..m \/ (k \in (m + 1)..(m + n) /\ k - m \in 1..n)
  BY <1>1
<1>5. CASE i \in 1..m /\ j \in 1..m
  BY <1>1, <1>3, <1>5
<1>6. CASE i \notin 1..m /\ j \notin 1..m
  <2>1. i - m \in 1..n /\ j - m \in 1..n /\ t[i - m] = t[j - m]
    BY <1>1, <1>4, <1>6
  <2>2. i - m = j - m
    BY <1>3, <2>1
  <2> QED
    BY <1>1, <2>2
<1>7. CASE i \in 1..m /\ j \notin 1..m
  BY <1>1, <1>2, <1>4, <1>7
<1>8. CASE i \notin 1..m /\ j \in 1..m
  BY <1>1, <1>2, <1>4, <1>8
<1> QED
  BY <1>5, <1>6, <1>7, <1>8

\* Sorting brings nobody twice.
LEMMA SortedApart ==
  ASSUME NEW p, NEW S, NEW rs \in Seq(S), Apart(rs)
  PROVE  Apart(SortedBy(p, rs))
<1> DEFINE A == Asking(p, "pre")
           B == Asking(p, "default")
           C == Asking(p, "post")
           a == Keeping(rs, A)
           b == Keeping(rs, B)
           c == Keeping(rs, C)
<1>1. A \cap B = {} /\ A \cap C = {} /\ B \cap C = {}
  BY DEF Asking
<1> HIDE DEF A, B, C
<1>2. /\ a \in Seq(S) /\ ToSet(a) \subseteq A /\ Apart(a)
      /\ b \in Seq(S) /\ ToSet(b) \subseteq B /\ Apart(b)
      /\ c \in Seq(S) /\ ToSet(c) \subseteq C /\ Apart(c)
  BY KeepingElements, KeepingApart
<1> HIDE DEF a, b, c
<1> DEFINE ab == a \o b
<1>3. ab \in Seq(S) /\ ToSet(ab) = ToSet(a) \cup ToSet(b)
  BY <1>2, ConcatElements
<1>4. Apart(ab)
  <2>1. ToSet(a) \cap ToSet(b) = {}
    BY <1>1, <1>2
  <2> QED
    BY <1>2, <2>1, ConcatApart
<1> HIDE DEF ab
<1>5. Apart(ab \o c)
  <2>1. ToSet(ab) \cap ToSet(c) = {}
    BY <1>1, <1>2, <1>3
  <2> QED
    BY <1>2, <1>3, <1>4, <2>1, ConcatApart
<1>6. SortedBy(p, rs) = (a \o b) \o c
  BY DEF SortedBy, a, b, c, A, B, C
<1> QED
  BY <1>5, <1>6 DEF ab

\* What a strategy or a scope gets to work through comes once.
LEMMA EntriesApart ==
  ASSUME IInv, NEW b \in Containers, Usable(b)
  PROVE  Entries(b) \in Seq(Runners) /\ Apart(Entries(b))
<1>1. Entries(b) = SortedBy(plugin, runners[b]) /\ Entries(b) \in Seq(Runners)
  BY EntriesAreSorted, SortedIs
<1>2. runners[b] \in Seq(Runners) /\ Apart(runners[b])
  BY DEF IInv, TypeOK, OnePlace, Apart
<1> QED
  BY <1>1, <1>2, SortedApart

\* A call that begins is about to come to its first entry.
LEMMA BegunReady ==
  ASSUME NEW p, NEW kind \in Kinds, NEW es \in Seq(1..Len(p)), Apart(es), NEW x \in BOOLEAN
  PROVE  \A c : c = Begun(kind, es, x) =>
           /\ Ready(c, p)
           /\ kind = "parallel" => Good(c, p, disposed)
<1> SUFFICES ASSUME NEW c, c = Begun(kind, es, x)
             PROVE  Ready(c, p) /\ (kind = "parallel" => Good(c, p, disposed))
  OBVIOUS
<1>1. es \in Seq(Nat) /\ Len(es) \in Nat
  <2>1. 1..Len(p) \subseteq Nat
    OBVIOUS
  <2> QED
    BY <2>1, SeqMonotonic
<1>2. Live(c)
  BY <1>1, BegunLive
<1>3. /\ c.kind = kind /\ c.entries = es /\ c.at = 0 /\ c.pending = {} /\ c.alone = FALSE
      /\ c.fatal = FALSE /\ c.ran = <<>> /\ c.answer = <<>> /\ c.state = "running"
  BY DEF Begun, NoCall
<1>4. \A T : Keeping(<<>>, T) = <<>>
  <2> SUFFICES ASSUME NEW T PROVE Keeping(<<>>, T) = <<>>
    OBVIOUS
  <2>1. <<>> \in Seq(Nat) /\ Len(<<>>) = 0
    OBVIOUS
  <2>2. PICK f : Keeping(<<>>, T) = f[Len(<<>>)] /\ Goes(f, <<>>, T)
    BY <2>1, KeepingSteps, Zenon
  <2> QED
    BY <2>1, <2>2 DEF Goes
<1>5. Whom(<<>>) = <<>>
  BY DEF Whom
<1>6. Promised(c) = <<>>
  BY <1>3, <1>4, <1>5 DEF Promised, RanBy
<1>7. Working(c, p)
  BY <1>2, <1>3 DEF Working
<1>8. NoFatal(c) /\ Len(c.ran) = 0 /\ RanFirst(c, 0)
  BY <1>3 DEF NoFatal, RanFirst
<1>9. Ready(c, p)
  BY <1>3, <1>6, <1>7, <1>8 DEF Ready, Running, Answering
<1>10. ASSUME kind = "parallel" PROVE Good(c, p, disposed)
  <2>1. Earning(c, p)
    BY <1>3, <1>6, <1>10 DEF Earning, Orderly, Answering, Batches
  <2>2. Len(c.ran) + Cardinality(c.pending) = 0
    <3>1. Cardinality({}) = 0
      BY FS_EmptySet
    <3> QED
      BY <1>3, <1>8, <3>1
  <2>3. Under(c, p)
    BY <1>3, <1>8, <1>10, <2>2 DEF Under, Firsts
  <2> QED
    BY <1>3, <1>7, <1>10, <2>1, <2>3 DEF Good, Running, Idle
<1> QED
  BY <1>9, <1>10
-----------------------------------------------------------------------------
\* Every call is in its place, or none yet.
CallsInPlace ==
  \A k \in Calls : IF call[k].state = Idle THEN call[k] = NoCall
                   ELSE Good(call[k], plugin, disposed)
\* What a scope was opened with comes once.
ScopesApart == \A s \in Scopes : scope[s].entries \in Seq(Runners) /\ Apart(scope[s].entries)

\* A call is on a stack t at most once, and while it is run (cs are the calls);
\* one that waits for no handler is.
Runs(c) ==
  /\ Running(c)
  /\ c.kind \in SyncKinds \/ c.pending = {} \/ (c.kind = "parallel" /\ ~c.alone)
OnceStacked(t, cs) ==
  /\ \A i, j \in 1..Len(t) : t[i] \in Calls /\ t[i] = t[j] => i = j
  /\ \A i \in 1..Len(t) : t[i] \in Calls => Runs(cs[t[i]])
Awaited(t, cs) ==
  \A k \in Calls : Running(cs[k]) => cs[k].pending # {} \/ \E i \in 1..Len(t) : t[i] = k

EInv == CallsInPlace /\ ScopesApart /\ OnceStacked(stack, call) /\ Awaited(stack, call)

\* A call is on the stack exactly when it has to be.
LEMMA StackedRuns ==
  ASSUME NEW d
  PROVE  /\ Stacked(d) => Runs(d)
         /\ Running(d) => Stacked(d) \/ d.pending # {}
BY DEF Stacked, Runs, Running

\* A call that goes on in its place disturbs no other.
LEMMA BecomeEInv ==
  ASSUME IInv, EInv, NEW k \in Calls, NEW d, Good(d, plugin, disposed),
         NEW t, t \in Seq(Calls \cup Scopes), Len(t) <= Len(stack),
         \A i \in 1..Len(t) : t[i] = stack[i] /\ t[i] # k,
         \A i \in 1..Len(stack) : stack[i] # k => i <= Len(t),
         Become(k, t, d), plugin' = plugin, disposed' = disposed, scope' = scope
  PROVE  EInv'
<1>1. /\ call \in [Calls -> CallRecords] /\ call' = [call EXCEPT ![k] = d]
      /\ stack' = IF Stacked(d) THEN Append(t, k) ELSE t
      /\ stack \in Seq(Calls \cup Scopes) /\ Len(stack) \in Nat /\ Len(t) \in Nat
  BY DEF IInv, TypeOK, Become
<1>2. call'[k] = d /\ \A q \in Calls : q # k => call'[q] = call[q]
  BY <1>1
<1>3. CallsInPlace'
  <2>1. d.state # Idle
    BY DEF Good
  <2>2. ASSUME NEW q \in Calls
        PROVE  IF call'[q].state = Idle THEN call'[q] = NoCall ELSE Good(call'[q], plugin, disposed)
    <3>1. CASE q = k
      BY <1>2, <2>1, <3>1
    <3>2. CASE q # k
      BY <1>2, <3>2 DEF EInv, CallsInPlace
    <3> QED
      BY <3>1, <3>2
  <2> QED
    BY <2>2 DEF CallsInPlace
<1>4. ScopesApart'
  BY DEF EInv, ScopesApart, Scopes, Runners
<1>5. Stacked(d) => Runs(d)
  BY StackedRuns
<1>6. Running(d) => Stacked(d) \/ d.pending # {}
  BY StackedRuns
<1>7. /\ \A i, j \in 1..Len(stack) : stack[i] \in Calls /\ stack[i] = stack[j] => i = j
      /\ \A i \in 1..Len(stack) : stack[i] \in Calls => Runs(call[stack[i]])
  BY DEF EInv, OnceStacked
<1>8. \A i \in 1..Len(t) : i \in 1..Len(stack) /\ t[i] = stack[i] /\ t[i] # k
  BY <1>1
<1>9. OnceStacked(t, call') /\ \A i \in 1..Len(t) : t[i] # k
  BY <1>2, <1>7, <1>8 DEF OnceStacked
<1>10. ASSUME NEW q \in Calls, q # k, Running(call'[q])
       PROVE  call'[q].pending # {} \/ \E i \in 1..Len(t) : t[i] = q
  <2>1. call[q].pending # {} \/ \E i \in 1..Len(stack) : stack[i] = q
    BY <1>2, <1>10 DEF EInv, Awaited
  <2>2. ASSUME NEW i \in 1..Len(stack), stack[i] = q PROVE \E j \in 1..Len(t) : t[j] = q
    <3>1. i \in 1..Len(t)
      BY <1>1, <1>10, <2>2
    <3> QED
      BY <1>8, <2>2, <3>1
  <2> QED
    BY <1>2, <1>10, <2>1, <2>2
<1>11. CASE Stacked(d)
  <2> DEFINE u == Append(t, k)
             n == Len(t)
  <2>1. /\ Len(u) = n + 1 /\ u[n + 1] = k /\ n \in Nat /\ \A i \in 1..n : u[i] = t[i]
        /\ stack' = u
    BY <1>1, <1>11
  <2> HIDE DEF u, n
  <2>2. \A i \in 1..(n + 1) : i = n + 1 \/ i \in 1..n
    BY <2>1
  <2>3. /\ \A i, j \in 1..n : t[i] \in Calls /\ t[i] = t[j] => i = j
        /\ \A i \in 1..n : t[i] \in Calls => Runs(call'[t[i]])
        /\ \A i \in 1..n : t[i] # k
    BY <1>9 DEF OnceStacked, n
  <2>4. OnceStacked(u, call')
    <3>1. ASSUME NEW i \in 1..(n + 1), NEW j \in 1..(n + 1), u[i] \in Calls, u[i] = u[j]
          PROVE  i = j
      <4>1. CASE i = n + 1 /\ j \in 1..n
        BY <2>1, <2>3, <3>1, <4>1
      <4>2. CASE j = n + 1 /\ i \in 1..n
        BY <2>1, <2>3, <3>1, <4>2
      <4>3. CASE i \in 1..n /\ j \in 1..n
        BY <2>1, <2>3, <3>1, <4>3
      <4> QED
        BY <2>2, <4>1, <4>2, <4>3
    <3>2. ASSUME NEW i \in 1..(n + 1), u[i] \in Calls PROVE Runs(call'[u[i]])
      <4>1. CASE i = n + 1
        BY <1>2, <1>5, <1>11, <2>1, <4>1
      <4>2. CASE i \in 1..n
        BY <2>1, <2>3, <3>2, <4>2
      <4> QED
        BY <2>2, <4>1, <4>2
    <3> QED
      BY <2>1, <3>1, <3>2 DEF OnceStacked
  <2>5. Awaited(u, call')
    <3> SUFFICES ASSUME NEW q \in Calls, Running(call'[q])
                 PROVE  call'[q].pending # {} \/ \E i \in 1..Len(u) : u[i] = q
      BY DEF Awaited
    <3>1. CASE q = k
      <4>1. n + 1 \in 1..Len(u)
        BY <2>1
      <4> QED
        BY <2>1, <3>1, <4>1
    <3>2. CASE q # k
      <4>1. \A i \in 1..n : i \in 1..Len(u) /\ u[i] = t[i]
        BY <2>1
      <4> QED
        BY <1>10, <3>2, <4>1 DEF n
    <3> QED
      BY <3>1, <3>2
  <2> QED
    BY <1>3, <1>4, <2>1, <2>4, <2>5 DEF EInv
<1>12. CASE ~Stacked(d)
  <2>1. stack' = t
    BY <1>1, <1>12
  <2>2. Awaited(t, call')
    BY <1>2, <1>6, <1>10, <1>12 DEF Awaited
  <2> QED
    BY <1>3, <1>4, <1>9, <2>1, <2>2 DEF EInv
<1> QED
  BY <1>11, <1>12

\* A call that is idle is not on the stack.
LEMMA IdleApart ==
  ASSUME EInv, NEW k \in Calls, call[k].state = Idle
  PROVE  \A i \in 1..Len(stack) : stack[i] # k
BY DEF EInv, OnceStacked, Runs, Running, Idle

\* A call begins in its place.
LEMMA CallEInv ==
  ASSUME IInv, EInv, NEW k \in Calls, NEW b \in Containers, NEW kind \in Kinds, Call(k, b, kind)
  PROVE  EInv'
<1> DEFINE c == Begun(kind, Entries(b), FALSE)
           d == Proceed(c)
<1>1. /\ Usable(b) /\ call[k].state = Idle /\ Become(k, stack, d)
      /\ plugin' = plugin /\ disposed' = disposed /\ scope' = scope
  BY DEF Call
<1>2. Entries(b) \in Seq(1..Len(plugin)) /\ Apart(Entries(b))
  BY <1>1, EntriesApart DEF Runners
<1>3. Ready(c, plugin) /\ (kind = "parallel" => Good(c, plugin, disposed)) /\ c.kind = kind
  BY <1>2, BegunReady DEF Begun, NoCall
<1> HIDE DEF c
<1>4. Good(d, plugin, disposed)
  BY <1>3, ProceedGood
<1> HIDE DEF d
<1>5. stack \in Seq(Calls \cup Scopes) /\ Len(stack) \in Nat
  BY DEF IInv, TypeOK
<1>6. \A i \in 1..Len(stack) : stack[i] # k /\ i <= Len(stack)
  BY <1>1, IdleApart
<1> QED
  BY <1>1, <1>4, <1>5, <1>6, BecomeEInv

\* So does one inside a scope.
LEMMA DirectRunEInv ==
  ASSUME IInv, EInv, NEW k \in Calls, NEW s \in Scopes, NEW kind \in Kinds, DirectRun(k, s, kind)
  PROVE  EInv'
<1> DEFINE c == Begun(kind, scope[s].entries, TRUE)
           d == IF Finished(c) THEN Fulfil(c) ELSE Trigger(c)
<1>1. /\ call[k].state = Idle /\ Become(k, stack, d)
      /\ plugin' = plugin /\ disposed' = disposed /\ scope' = scope
  BY DEF DirectRun, members
<1>2. scope[s].entries \in Seq(1..Len(plugin)) /\ Apart(scope[s].entries)
  BY DEF EInv, ScopesApart, Runners
<1>3. Ready(c, plugin)
  BY <1>2, BegunReady
<1> HIDE DEF c
<1>4. Good(d, plugin, disposed)
  BY <1>3, TriggerGood, FinishGood
<1> HIDE DEF d
<1>5. stack \in Seq(Calls \cup Scopes) /\ Len(stack) \in Nat
  BY DEF IInv, TypeOK
<1>6. \A i \in 1..Len(stack) : stack[i] # k /\ i <= Len(stack)
  BY <1>1, IdleApart
<1> QED
  BY <1>1, <1>4, <1>5, <1>6, BecomeEInv

\* The stack without the call at its end.
LEMMA TopFront ==
  ASSUME IInv, EInv, NEW k \in Calls, Top(k)
  PROVE  \A t : t = Front(stack) =>
           /\ t \in Seq(Calls \cup Scopes) /\ Len(t) <= Len(stack)
           /\ \A i \in 1..Len(t) : t[i] = stack[i] /\ t[i] # k
           /\ \A i \in 1..Len(stack) : stack[i] # k => i <= Len(t)
           /\ Runs(call[k])
<1> DEFINE t == Front(stack)
           n == Len(stack)
<1>1. stack \in Seq(Calls \cup Scopes) /\ stack # <<>> /\ stack[n] = k /\ n \in Nat /\ n >= 1
  BY DEF IInv, TypeOK, Top, Last
<1>2. t \in Seq(Calls \cup Scopes) /\ Len(t) = n - 1 /\ \A i \in 1..(n - 1) : t[i] = stack[i]
  BY <1>1, FrontElements
<1> HIDE DEF t, n
<1>3. /\ \A i, j \in 1..n : stack[i] \in Calls /\ stack[i] = stack[j] => i = j
      /\ \A i \in 1..n : stack[i] \in Calls => Runs(call[stack[i]])
  BY DEF EInv, OnceStacked, n
<1>4. n \in 1..n /\ \A i \in 1..(n - 1) : i \in 1..n /\ i # n
  BY <1>1
<1>5. \A i \in 1..(n - 1) : stack[i] # k
  BY <1>1, <1>3, <1>4
<1>6. \A i \in 1..n : stack[i] # k => i <= n - 1
  BY <1>1
<1>7. Runs(call[k])
  BY <1>1, <1>3, <1>4
<1>8. /\ t \in Seq(Calls \cup Scopes) /\ Len(t) <= Len(stack)
      /\ \A i \in 1..Len(t) : t[i] = stack[i] /\ t[i] # k
      /\ \A i \in 1..Len(stack) : stack[i] # k => i <= Len(t)
  <2>1. Len(t) <= n
    BY <1>1, <1>2
  <2>2. \A i \in 1..Len(t) : t[i] = stack[i] /\ t[i] # k
    BY <1>2, <1>5
  <2>3. \A i \in 1..n : stack[i] # k => i <= Len(t)
    BY <1>2, <1>6
  <2> QED
    BY <1>2, <2>1, <2>2, <2>3 DEF n
<1> QED
  BY <1>7, <1>8 DEF t

\* A call comes to its next entry in its place.
LEMMA AdvanceEInv ==
  ASSUME IInv, EInv, NEW k \in Calls, Advance(k)
  PROVE  EInv'
<1> DEFINE c == call[k]
           t == Front(stack)
<1>1. /\ Top(k) /\ c.kind # "parallel" /\ c.pending = {} /\ ~Finished(c)
      /\ plugin' = plugin /\ disposed' = disposed /\ scope' = scope
      /\ \E d \in {Trigger(c)} \cup MayThrow(c) : Become(k, t, d)
  BY DEF Advance, members
<1>2. /\ t \in Seq(Calls \cup Scopes) /\ Len(t) <= Len(stack)
      /\ \A i \in 1..Len(t) : t[i] = stack[i] /\ t[i] # k
      /\ \A i \in 1..Len(stack) : stack[i] # k => i <= Len(t)
      /\ Runs(c)
  BY <1>1, TopFront
<1>3. Running(c)
  BY <1>2 DEF Runs
<1>4. Good(c, plugin, disposed)
  BY <1>3 DEF EInv, CallsInPlace, Running, Idle
<1> HIDE DEF c, t
<1>5. Ready(c, plugin)
  BY <1>1, <1>3, <1>4 DEF Good, Under, Turning
<1>6. Halting(c, plugin) /\ Answering(c)
  BY <1>5, ReadyHalting DEF Ready
<1>7. \A d \in {Trigger(c)} \cup MayThrow(c) : Good(d, plugin, disposed)
  BY <1>1, <1>5, <1>6, TriggerGood, ThrowGood
<1> QED
  BY <1>1, <1>2, <1>7, BecomeEInv

\* parallel() launches in its place.
LEMMA LaunchEInv ==
  ASSUME IInv, EInv, NEW k \in Calls, Launch(k)
  PROVE  EInv'
<1> DEFINE c == call[k]
           t == Front(stack)
<1>1. Top(k) /\ c.kind = "parallel" /\ plugin' = plugin /\ disposed' = disposed /\ scope' = scope
  BY DEF Launch, members
<1>2. /\ t \in Seq(Calls \cup Scopes) /\ Len(t) <= Len(stack)
      /\ \A i \in 1..Len(t) : t[i] = stack[i] /\ t[i] # k
      /\ \A i \in 1..Len(stack) : stack[i] # k => i <= Len(t)
      /\ Runs(c)
  BY <1>1, TopFront
<1>3. Running(c)
  BY <1>2 DEF Runs
<1>4. Good(c, plugin, disposed) /\ Len(plugin) \in Nat
  BY <1>3 DEF EInv, CallsInPlace, Running, Idle, IInv, TypeOK
<1>5. \/ (Finished(c) \/ Lone(c)) /\ Become(k, t, Drained(c))
      \/ ~Finished(c) /\ ~Lone(c) /\ call' = [call EXCEPT ![k] = Launched(c)] /\ stack' = stack
      \/ \E d \in MayThrow(c) : Become(k, t, d)
  BY DEF Launch
<1> HIDE DEF c, t
<1>10. ~c.alone
  BY <1>1, <1>2, <1>3, <1>4 DEF Runs, SyncKinds, Good, Under, Turning
<1>6. ASSUME NEW d, Good(d, plugin, disposed), Become(k, t, d) PROVE EInv'
  BY <1>1, <1>2, <1>6, BecomeEInv
<1>7. CASE Become(k, t, Drained(c))
  BY <1>1, <1>3, <1>4, <1>6, <1>7, <1>10, DrainedGood
<1>8. CASE \E d \in MayThrow(c) : Become(k, t, d)
  <2>1. Halting(c, plugin) /\ Answering(c)
    BY <1>1, <1>3, <1>4 DEF Good, Halting, Earning, Running
  <2> QED
    BY <1>6, <1>8, <2>1, ThrowGood
<1>9. CASE ~Finished(c) /\ ~Lone(c) /\ call' = [call EXCEPT ![k] = Launched(c)] /\ stack' = stack
  <2> DEFINE d == Launched(c)
  <2>1. Good(d, plugin, disposed)
    BY <1>1, <1>3, <1>4, <1>9, <1>10, LaunchedGood
  <2>2. Runs(d)
    <3>1. Live(c)
      BY <1>4 DEF Good, Working
    <3>2. d.kind = c.kind /\ d.alone = c.alone /\ d.state = c.state
      BY <3>1 DEF Launched, Live, CallRecords
    <3> QED
      BY <1>1, <1>3, <1>10, <3>2 DEF Runs, Running
  <2>3. call'[k] = d /\ \A q \in Calls : q # k => call'[q] = call[q]
    BY <1>9 DEF IInv, TypeOK
  <2> HIDE DEF d
  <2>4. CallsInPlace'
    <3>1. d.state # Idle
      BY <2>1 DEF Good
    <3>2. ASSUME NEW q \in Calls
          PROVE  IF call'[q].state = Idle THEN call'[q] = NoCall ELSE Good(call'[q], plugin, disposed)
      <4>1. CASE q = k
        BY <2>1, <2>3, <3>1, <4>1
      <4>2. CASE q # k
        BY <2>3, <4>2 DEF EInv, CallsInPlace
      <4> QED
        BY <4>1, <4>2
    <3> QED
      BY <1>1, <3>2 DEF CallsInPlace
  <2>5. ScopesApart'
    BY <1>1 DEF EInv, ScopesApart, Scopes, Runners
  <2>6. OnceStacked(stack, call')
    BY <2>2, <2>3 DEF EInv, OnceStacked
  <2>7. Awaited(stack, call')
    <3>1. \E i \in 1..Len(stack) : stack[i] = k
      <4>1. stack \in Seq(Calls \cup Scopes) /\ stack # <<>> /\ stack[Len(stack)] = k
        BY <1>1 DEF IInv, TypeOK, Top, Last
      <4>2. Len(stack) \in 1..Len(stack)
        BY <4>1
      <4> QED
        BY <4>1, <4>2
    <3> QED
      BY <2>3, <3>1 DEF EInv, Awaited
  <2> QED
    BY <1>9, <2>4, <2>5, <2>6, <2>7 DEF EInv
<1> QED
  BY <1>5, <1>7, <1>8, <1>9

\* A handler leaves its call in its place.
LEMMA HandlerEInv ==
  ASSUME IInv, EInv, NEW k \in Calls, NEW r \in call[k].pending,
         NEW o \in Outcomes[call[k].kind], Handler(k, r, o)
  PROVE  EInv'
<1> DEFINE c == call[k]
           t == IF stack = <<>> THEN stack ELSE Front(stack)
<1>1. plugin' = plugin /\ disposed' = disposed /\ scope' = scope
  BY DEF Handler, members
<1>2. c.state # Idle
  BY DEF EInv, CallsInPlace, NoCall
<1>3. Good(c, plugin, disposed) /\ Len(plugin) \in Nat
  BY <1>2 DEF EInv, CallsInPlace, IInv, TypeOK
<1>4. o \in AllOutcomes
  <2>1. c.kind \in Kinds
    BY <1>3, LiveFields DEF Good, Working
  <2> QED
    BY <2>1, ContainerAssumption
<1>5. PICK d \in Follow(c, r, o) : Become(k, t, d)
  BY DEF Handler
<1>6. Good(d, plugin, disposed)
  BY <1>3, <1>4, <1>5, FollowGood
<1>7. CASE stack = <<>>
  <2>1. t = stack /\ Len(stack) = 0 /\ stack \in Seq(Calls \cup Scopes)
    BY <1>7 DEF IInv, TypeOK
  <2> HIDE DEF t
  <2>2. /\ \A i \in 1..Len(t) : t[i] = stack[i] /\ t[i] # k
        /\ \A i \in 1..Len(stack) : stack[i] # k => i <= Len(t)
        /\ Len(t) <= Len(stack)
    BY <2>1
  <2> QED
    BY <1>1, <1>5, <1>6, <2>1, <2>2, BecomeEInv
<1>8. CASE stack # <<>>
  <2>1. t = Front(stack) /\ Top(k)
    BY <1>8 DEF Handler
  <2> HIDE DEF t
  <2>2. /\ t \in Seq(Calls \cup Scopes) /\ Len(t) <= Len(stack)
        /\ \A i \in 1..Len(t) : t[i] = stack[i] /\ t[i] # k
        /\ \A i \in 1..Len(stack) : stack[i] # k => i <= Len(t)
    BY <2>1, TopFront
  <2> QED
    BY <1>1, <1>5, <1>6, <2>2, BecomeEInv
<1> QED
  BY <1>7, <1>8

\* Calls stay in their places when plugins are registered and runners disposed.
LEMMA MoreCalls ==
  ASSUME IInv, EInv, call' = call, Len(plugin') \in Nat, Len(plugin) <= Len(plugin'),
         \A r \in 1..Len(plugin) : plugin'[r] = plugin[r], disposed \subseteq disposed'
  PROVE  CallsInPlace'
<1>1. Len(plugin) \in Nat
  BY DEF IInv, TypeOK
<1>2. ASSUME NEW k \in Calls
      PROVE  IF call[k].state = Idle THEN call[k] = NoCall
             ELSE Good(call[k], plugin', disposed')
  <2>1. IF call[k].state = Idle THEN call[k] = NoCall ELSE Good(call[k], plugin, disposed)
    BY DEF EInv, CallsInPlace
  <2> DEFINE c == call[k]
             p == plugin'
             x == disposed'
  <2>2. Good(c, plugin, disposed) => Good(c, p, x)
    <3> SUFFICES ASSUME Good(c, plugin, disposed) PROVE Good(c, p, x)
      OBVIOUS
    <3>1. disposed \subseteq x /\ Len(p) \in Nat /\ Len(plugin) <= Len(p)
          /\ \A r \in 1..Len(plugin) : p[r] = plugin[r]
      OBVIOUS
    <3> HIDE DEF c, p, x
    <3> QED
      BY <1>1, <3>1, GoodStays
  <2> QED
    BY <2>1, <2>2
<1> QED
  BY <1>2 DEF CallsInPlace

\* So does everything else.
LEMMA ChangeEInv ==
  ASSUME IInv, EInv, UNCHANGED <<stack, scope, call>>,
         Len(plugin') \in Nat, Len(plugin) <= Len(plugin'),
         \A r \in 1..Len(plugin) : plugin'[r] = plugin[r], disposed \subseteq disposed'
  PROVE  EInv'
<1>1. CallsInPlace'
  BY MoreCalls
<1>2. ScopesApart'
  BY MoreRunners DEF EInv, ScopesApart, Scopes
<1>3. OnceStacked(stack, call)' /\ Awaited(stack, call)'
  BY DEF EInv, OnceStacked, Awaited
<1> QED
  BY <1>1, <1>2, <1>3 DEF EInv

\* What changes about membership leaves the calls in their places.
LEMMA MembersEInv ==
  ASSUME IInv, EInv,
         \/ \E b \in Containers : Change(b)
         \/ \E extra \in {<<>>} \cup {<<p>> : p \in Newcomers} : Fork(extra)
         \/ UNCHANGED vars
  PROVE  EInv'
<1>1. plugin \in Seq(Plugins) /\ Len(plugin) \in Nat /\ runners \in [Containers -> Seq(1..Len(plugin))]
  BY DEF IInv, TypeOK, Runners
<1>2. ASSUME NEW b \in Containers, NEW p \in Newcomers, Register(b, p) PROVE EInv'
  <2>1. /\ plugin' = Append(plugin, p) /\ disposed' = disposed
        /\ UNCHANGED <<stack, scope, call>> /\ p \in Plugins
    BY <1>2, ContainerAssumption DEF Register
  <2>2. /\ Len(plugin') \in Nat /\ Len(plugin) <= Len(plugin')
        /\ \A r \in 1..Len(plugin) : plugin'[r] = plugin[r]
    BY <1>1, <2>1
  <2> QED
    BY <2>1, <2>2, ChangeEInv
<1>3. ASSUME NEW b \in Containers,
             (\E p \in Plugins : Withdraw(b, p)) \/ (\E p \in Precious : Protect(b, p))
               \/ Freeze(b) \/ Dispose(b)
      PROVE  EInv'
  <2>1. plugin' = plugin /\ disposed \subseteq disposed' /\ UNCHANGED <<stack, scope, call>>
    BY <1>3 DEF Withdraw, Protect, Freeze, Dispose
  <2> QED
    BY <1>1, <2>1, ChangeEInv
<1>4. ASSUME NEW extra \in {<<>>} \cup {<<p>> : p \in Newcomers}, Fork(extra) PROVE EInv'
  <2> DEFINE inherited == [i \in DOMAIN runners["root"] |-> plugin[runners["root"][i]]]
             own == inherited \o extra
  <2>1. /\ plugin' = plugin \o own /\ disposed' = disposed /\ UNCHANGED <<stack, scope, call>>
    BY <1>4 DEF Fork
  <2>2. extra \in Seq(Plugins)
    <3>1. CASE extra = <<>>
      BY <3>1
    <3>2. CASE extra # <<>>
      <4>1. PICK p \in Newcomers : extra = <<p>>
        BY <3>2
      <4>2. p \in Plugins
        BY ContainerAssumption
      <4> QED
        BY <4>1, <4>2
    <3> QED
      BY <3>1, <3>2
  <2>3. inherited \in Seq(Plugins)
    <3>1. "root" \in Containers
      BY DEF Containers
    <3>2. /\ DOMAIN runners["root"] = 1..Len(runners["root"]) /\ Len(runners["root"]) \in Nat
          /\ \A i \in 1..Len(runners["root"]) : plugin[runners["root"][i]] \in Plugins
      BY <1>1, <3>1
    <3> QED
      BY <3>2
  <2> HIDE DEF inherited
  <2>4. own \in Seq(Plugins)
    BY <2>2, <2>3
  <2> HIDE DEF own
  <2>5. /\ Len(plugin') \in Nat /\ Len(plugin) <= Len(plugin')
        /\ \A r \in 1..Len(plugin) : plugin'[r] = plugin[r]
    BY <1>1, <2>1, <2>4
  <2> QED
    BY <2>1, <2>5, ChangeEInv
<1>5. CASE UNCHANGED vars
  <2>1. plugin' = plugin /\ disposed' = disposed /\ UNCHANGED <<stack, scope, call>>
    BY <1>5 DEF vars
  <2> QED
    BY <1>1, <2>1, ChangeEInv
<1> QED
  BY <1>2, <1>3, <1>4, <1>5 DEF Change

\* A scope that opens leaves the calls alone.
LEMMA OpenScopeEInv ==
  ASSUME IInv, EInv, NEW b \in Containers, OpenScope(b)
  PROVE  EInv'
<1> DEFINE s == Cardinality({t \in Scopes : scope[t].state # Idle}) + 1
           x == [box |-> b, entries |-> Entries(b), prepared |-> 0,
                 state |-> IF Entries(b) = <<>> THEN "open" ELSE "preparing"]
<1>1. /\ Usable(b) /\ s \in Scopes /\ scope' = [scope EXCEPT ![s] = x] /\ stack' = Append(stack, s)
      /\ plugin' = plugin /\ disposed' = disposed /\ call' = call
  BY DEF OpenScope
<1>2. x.entries \in Seq(Runners) /\ Apart(x.entries)
  BY <1>1, EntriesApart
<1> HIDE DEF s, x
<1>3. /\ stack \in Seq(Calls \cup Scopes) /\ scope \in [Scopes -> ScopeRecords]
      /\ Len(plugin) \in Nat /\ s \notin Calls
  <2>1. s \in Nat /\ Calls \cap Nat = {}
    BY <1>1, ContainerAssumption DEF Scopes
  <2>2. s \notin Calls
    BY <2>1
  <2>3. /\ stack \in Seq(Calls \cup Scopes) /\ scope \in [Scopes -> ScopeRecords]
        /\ plugin \in Seq(Plugins)
    BY DEF IInv, TypeOK
  <2>4. Len(plugin) \in Nat
    BY <2>3
  <2> QED
    BY <2>2, <2>3, <2>4
<1>4. CallsInPlace'
  BY <1>1, <1>3, MoreCalls
<1>5. ScopesApart'
  <2>1. \A t \in Scopes : scope'[t] = IF t = s THEN x ELSE scope[t]
    BY <1>1, <1>3
  <2> QED
    BY <1>1, <1>2, <2>1 DEF EInv, ScopesApart, Scopes, Runners
<1> DEFINE n == Len(stack)
<1>6. /\ Len(stack') = n + 1 /\ stack'[n + 1] = s /\ n \in Nat
      /\ \A i \in 1..n : stack'[i] = stack[i]
  BY <1>1, <1>3
<1>7. \A i \in 1..(n + 1) : i = n + 1 \/ i \in 1..n
  BY <1>6
<1>8. OnceStacked(stack', call)
  <2>1. \A i \in 1..(n + 1) : stack'[i] \in Calls => i \in 1..n /\ stack'[i] = stack[i]
    BY <1>3, <1>6, <1>7
  <2> QED
    BY <1>6, <2>1 DEF EInv, OnceStacked
<1>9. Awaited(stack', call)
  <2>1. \A i \in 1..n : i \in 1..Len(stack') /\ stack'[i] = stack[i]
    BY <1>6
  <2> QED
    BY <2>1 DEF EInv, Awaited
<1> QED
  BY <1>1, <1>4, <1>5, <1>8, <1>9 DEF EInv

\* So does one that leaves the stack.
LEMMA EndedEInv ==
  ASSUME IInv, EInv, NEW s \in Scopes, Top(s), scope' = [scope EXCEPT ![s] = NoScope],
         stack' = Front(stack), plugin' = plugin, disposed \subseteq disposed', call' = call
  PROVE  EInv'
<1>1. /\ Top(s) /\ scope' = [scope EXCEPT ![s] = NoScope] /\ stack' = Front(stack)
      /\ plugin' = plugin /\ disposed \subseteq disposed' /\ call' = call
  OBVIOUS
<1>2. /\ stack \in Seq(Calls \cup Scopes) /\ scope \in [Scopes -> ScopeRecords]
      /\ Len(plugin) \in Nat /\ s \notin Calls
  <2>1. s \in Nat /\ Calls \cap Nat = {}
    BY ContainerAssumption DEF Scopes
  <2>2. s \notin Calls
    BY <2>1
  <2>3. /\ stack \in Seq(Calls \cup Scopes) /\ scope \in [Scopes -> ScopeRecords]
        /\ plugin \in Seq(Plugins)
    BY DEF IInv, TypeOK
  <2>4. Len(plugin) \in Nat
    BY <2>3
  <2> QED
    BY <2>2, <2>3, <2>4
<1>3. CallsInPlace'
  BY <1>1, <1>2, MoreCalls
<1>4. ScopesApart'
  <2>1. \A t \in Scopes : scope'[t] = IF t = s THEN NoScope ELSE scope[t]
    BY <1>1, <1>2
  <2>2. NoScope.entries \in Seq(Runners) /\ Apart(NoScope.entries)
    BY DEF NoScope, Apart
  <2> QED
    BY <1>1, <2>1, <2>2 DEF EInv, ScopesApart, Scopes, Runners
<1> DEFINE n == Len(stack)
<1>5. stack # <<>> /\ stack[n] = s /\ n \in Nat /\ n >= 1
  BY <1>1, <1>2 DEF Top, Last
<1>6. Len(stack') = n - 1 /\ \A i \in 1..(n - 1) : stack'[i] = stack[i]
  BY <1>1, <1>2, <1>5, FrontElements
<1> HIDE DEF n
<1>7. \A i \in 1..(n - 1) : i \in 1..n /\ stack'[i] = stack[i]
  BY <1>5, <1>6
<1>8. OnceStacked(stack', call)
  BY <1>6, <1>7 DEF EInv, OnceStacked, n
<1>9. Awaited(stack', call)
  <2> SUFFICES ASSUME NEW k \in Calls, NEW i \in 1..n, stack[i] = k
               PROVE  \E j \in 1..(n - 1) : stack'[j] = k
    BY <1>6 DEF EInv, Awaited, n
  <2>1. i # n
    BY <1>2, <1>5
  <2>2. i \in 1..(n - 1)
    BY <1>5, <2>1
  <2> QED
    BY <1>6, <2>2
<1> QED
  BY <1>1, <1>3, <1>4, <1>8, <1>9 DEF EInv

\* So does one that ends.
LEMMA CloseScopeEInv ==
  ASSUME IInv, EInv, NEW s \in Scopes, CloseScope(s)
  PROVE  EInv'
<1>1. /\ Top(s) /\ scope' = [scope EXCEPT ![s] = NoScope] /\ stack' = Front(stack)
      /\ plugin' = plugin /\ disposed \subseteq disposed' /\ call' = call
  BY DEF CloseScope
<1> QED
  BY <1>1, EndedEInv

\* So does one that is prepared, or given up.
LEMMA PrepareEInv ==
  ASSUME IInv, EInv, NEW s \in Scopes, Prepare(s)
  PROVE  EInv'
<1>1. Top(s) /\ plugin' = plugin /\ disposed' = disposed /\ call' = call
  BY DEF Prepare, members
<1>2. CASE scope' = [scope EXCEPT ![s] = NoScope] /\ stack' = Front(stack)
  BY <1>1, <1>2, EndedEInv
<1>3. CASE /\ \A t \in Scopes : scope'[t].entries = scope[t].entries
           /\ stack' = stack
  <2>1. Len(plugin) \in Nat
    BY DEF IInv, TypeOK
  <2>2. CallsInPlace'
    BY <1>1, <2>1, MoreCalls
  <2>3. ScopesApart'
    BY <1>1, <1>3 DEF EInv, ScopesApart, Scopes, Runners
  <2> QED
    BY <1>1, <1>3, <2>2, <2>3 DEF EInv
<1>4. ASSUME NEW n, NEW st, scope' = [scope EXCEPT ![s].prepared = n, ![s].state = st]
      PROVE  \A t \in Scopes : scope'[t].entries = scope[t].entries
  BY <1>4 DEF IInv, TypeOK, ScopeRecords
<1>5. \/ \E n, st : scope' = [scope EXCEPT ![s].prepared = n, ![s].state = st] /\ stack' = stack
      \/ scope' = [scope EXCEPT ![s] = NoScope] /\ stack' = Front(stack)
  BY DEF Prepare
<1> QED
  BY <1>2, <1>3, <1>4, <1>5

\* In the beginning nobody has called.
LEMMA InitEInv == Init => EInv
<1> SUFFICES ASSUME Init PROVE EInv
  OBVIOUS
<1>1. stack = <<>> /\ (\A s \in Scopes : scope[s] = NoScope) /\ (\A k \in Calls : call[k] = NoCall)
  BY DEF Init
<1>2. NoCall.state = Idle /\ NoScope.entries \in Seq(Runners) /\ Apart(NoScope.entries)
  BY DEF NoCall, NoScope, Apart
<1>3. CallsInPlace /\ ScopesApart
  BY <1>1, <1>2 DEF CallsInPlace, ScopesApart
<1>4. OnceStacked(stack, call) /\ Awaited(stack, call)
  BY <1>1, <1>2 DEF OnceStacked, Awaited, Running, Idle
<1> QED
  BY <1>3, <1>4 DEF EInv

\* Every step leaves every call in its place.
LEMMA StepEInv == IInv /\ EInv /\ [Next]_vars => EInv'
<1> SUFFICES ASSUME IInv, EInv, [Next]_vars PROVE EInv'
  OBVIOUS
<1>1. ASSUME NEW k \in Calls, Advance(k) \/ Launch(k) \/ Settle(k) PROVE EInv'
  BY <1>1, AdvanceEInv, LaunchEInv, HandlerEInv DEF Settle
<1>2. ASSUME NEW s \in Scopes, Prepare(s) \/ CloseScope(s) PROVE EInv'
  BY <1>2, PrepareEInv, CloseScopeEInv
<1> QED
  BY <1>1, <1>2, MembersEInv, CallEInv, DirectRunEInv, OpenScopeEInv DEF Next

\* A call in its place has earned what it is.
LEMMA GoodIsEarned ==
  ASSUME IInv, EInv
  PROVE  AnswersAreEarned
<1> SUFFICES ASSUME NEW k \in Calls, call[k].state # Idle
             PROVE  LET c == call[k]
                        stopped == RanBy(c, {"fatal"}) # <<>>
                        refused == c.fatal \/ (~Finished(c) /\ Following(c) \in disposed)
                    IN /\ IF c.kind = "parallel" THEN ByBatches(c) ELSE InTurn(c)
                       /\ c.state # "rejected" => c.answer = Promised(c)
                       /\ c.state = "fulfilled" /\ ~Contained(c) =>
                            /\ ~stopped /\ c.pending = {}
                            /\ Len(c.ran) < Len(c.entries) =>
                                 c.kind \in {"first", "firstSync"} /\ Len(c.answer) = 1
                       /\ c.state = "running" => c.pending # {} \/ Contains(stack, k)
                       /\ c.state = "rejected" =>
                            \/ stopped \/ refused
                            \/ "factory" \in Faults /\ ~c.prepared
                            \/ "reducer" \in Faults /\ c.kind \in {"reduce", "reduceSync"}
  BY DEF AnswersAreEarned
<1> DEFINE c == call[k]
<1>1. Good(c, plugin, disposed)
  BY DEF EInv, CallsInPlace
<1>2. c.state = "running" => c.pending # {} \/ Contains(stack, k)
  <2>1. Running(c) => c.pending # {} \/ \E i \in 1..Len(stack) : stack[i] = k
    BY DEF EInv, Awaited
  <2> QED
    BY <2>1 DEF Running, Contains
<1> HIDE DEF c
<1>3. RanBy(c, {"fatal"}) = <<>> <=> NoFatal(c)
  BY <1>1, NobodyFailed DEF Good, Working
<1>4. IF c.kind = "parallel" THEN ByBatches(c) ELSE InTurn(c)
  BY <1>1 DEF Good, Earning, Orderly, Batches, ByBatches
<1>5. c.state # "rejected" => c.answer = Promised(c)
  BY <1>1 DEF Good, Earning, Answering
<1>6. c.state = "fulfilled" /\ ~Contained(c) =>
        /\ ~(RanBy(c, {"fatal"}) # <<>>) /\ c.pending = {}
        /\ Len(c.ran) < Len(c.entries) => c.kind \in {"first", "firstSync"} /\ Len(c.answer) = 1
  BY <1>1, <1>3 DEF Good, Firsts
<1>7. c.state = "rejected" =>
        \/ RanBy(c, {"fatal"}) # <<>>
        \/ c.fatal \/ (~Finished(c) /\ Following(c) \in disposed)
        \/ "factory" \in Faults /\ ~c.prepared
        \/ "reducer" \in Faults /\ c.kind \in {"reduce", "reduceSync"}
  BY <1>1, <1>3 DEF Good, Cause
<1> QED
  BY <1>2, <1>4, <1>5, <1>6, <1>7 DEF c

\* A call is fulfilled when every handler came to its end or one had the answer,
\* with exactly the answer its strategy promises, and rejected for a reason
\* (PluginContainer.ts, the strategies).
THEOREM AnswersEarned == Spec => []AnswersAreEarned
<1>1. Spec => [](IInv /\ EInv)
  BY InitIInv, StepIInv, InitEInv, StepEInv, PTL DEF Spec
<1> QED
  BY <1>1, GoodIsEarned, PTL
=============================================================================
