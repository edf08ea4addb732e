-------------------------- MODULE DiagnosticsProofs --------------------------
(***************************************************************************)
(* Proofs about JSONClone, for all inputs of any size, about Telemetry,    *)
(* for any number of clients, entries, timers and marks, and about         *)
(* Validation, for validators and values that are nested to any depth.     *)
(***************************************************************************)
EXTENDS JSONClone, Telemetry, Validation, FiniteSetTheorems, SequenceTheorems, WellFoundedInduction, TLAPS

-----------------------------------------------------------------------------
(* JSONClone.  The walk keeps the way from the root on its stack, what it  *)
(* left is copied in full, and whatever has been copied so far was left or *)
(* is the next on the way.  The stack is no longer than there are          *)
(* containers, so whatever the walk comes to is reached from the root.     *)
(* The predicates speak of an input h, a stack f, the active containers a, *)
(* the ones with a copy c, the copies p and the ones left e.               *)

Frame == [node : Nodes, done : Nat]
Copies == [Nodes -> Seq(Nodes \cup {Scalar})]

InSeq(s) == {s[i] : i \in 1..Len(s)}

\* The first k entries of a container have been copied, and no more.
CopiedTo(h, p, n, k) == Len(p[n]) = k /\ \A i \in 1..k : p[n][i] = h[n].entries[i]

\* The stack holds the active containers, each once; the other copies are
\* those of the containers that were left.
Way(f, a, c, e) ==
  /\ a = {f[i].node : i \in 1..Len(f)}
  /\ \A i, j \in 1..Len(f) : i # j => f[i].node # f[j].node
  /\ c = a \cup InSeq(e) /\ a \cap InSeq(e) = {}

\* How far the copies are.
Extent(h, f, c, p, e) ==
  /\ \A i \in 1..Len(f) :
       f[i].done <= Len(h[f[i].node].entries) /\ CopiedTo(h, p, f[i].node, f[i].done)
  /\ \A n \in InSeq(e) : CopiedTo(h, p, n, Len(h[n].entries))
  /\ \A n \in Nodes \ c : p[n] = <<>>

\* What a container on the stack holds was left, or is the next on the way.
Behind(h, f, e) ==
  \A i \in 1..Len(f) : \A k \in 1..f[i].done :
    h[f[i].node].entries[k] \in Nodes =>
      \/ h[f[i].node].entries[k] \in InSeq(e)
      \/ i < Len(f) /\ h[f[i].node].entries[k] = f[i + 1].node

\* What a container holds was left before it.
After(h, e) ==
  \A r \in 1..Len(e) : \A k \in 1..Len(h[e[r]].entries) :
    h[e[r]].entries[k] \in Nodes => \E q \in 1..(r - 1) : e[q] = h[e[r]].entries[k]

Stages ==
  /\ outcome = "ready" => frames = <<>> /\ ended = <<>>
  /\ outcome = "running" => frames # <<>>
  /\ outcome = "copied" => frames = <<>>
  /\ outcome \in {"running", "copied"} => Root \in clones

CloneInv ==
  /\ CloneTypeOK
  /\ Stages
  /\ Way(frames, active, clones, ended)
  /\ outcome # "refused" =>
       /\ Extent(heap, frames, clones, copy, ended)
       /\ Behind(heap, frames, ended)
       /\ After(heap, ended)

-----------------------------------------------------------------------------
\* The entries of a container are a sequence, of a length.
LEMMA EntriesAreSequences ==
  ASSUME CloneTypeOK, NEW n \in Nodes
  PROVE  /\ heap[n].entries \in Seq(Nodes \cup {Scalar, Junk, Accessor})
         /\ Len(heap[n].entries) \in Nat
<1>1. heap \in [Nodes -> Containers]
  BY CloneAssumption DEF CloneTypeOK
<1>2. heap[n] \in Containers
  BY <1>1
<1> QED
  BY <1>2 DEF Containers

\* Any input is a good beginning.
LEMMA CloneInitIsGood == CloneInit => CloneInv
<1> SUFFICES ASSUME CloneInit PROVE CloneInv
  OBVIOUS
<1>1. CloneTypeOK
  BY DEF CloneInit, CloneTypeOK
<1>2. Len(frames) = 0 /\ Len(ended) = 0 /\ InSeq(ended) = {}
  BY DEF CloneInit, InSeq
<1>3. Way(frames, active, clones, ended)
  BY <1>2 DEF CloneInit, Way
<1>4. Stages
  BY DEF CloneInit, Stages
<1>5. Extent(heap, frames, clones, copy, ended)
  BY <1>2 DEF CloneInit, Extent
<1>6. Behind(heap, frames, ended) /\ After(heap, ended)
  BY <1>2 DEF Behind, After
<1> QED
  BY <1>1, <1>3, <1>4, <1>5, <1>6 DEF CloneInv

\* The walk begins at the root.
LEMMA BeginIsGood == CloneInv /\ Begin => CloneInv'
<1> SUFFICES ASSUME CloneInv, Begin PROVE CloneInv'
  OBVIOUS
<1>1. /\ CloneTypeOK /\ outcome = "ready" /\ frames = <<>> /\ ended = <<>>
      /\ Way(frames, active, clones, ended)
      /\ Extent(heap, frames, clones, copy, ended)
  BY DEF CloneInv, Begin, Stages
<1>2. /\ Len(frames) = 0 /\ Len(ended) = 0 /\ InSeq(ended) = {}
      /\ clones = {} /\ active = {}
  BY <1>1 DEF Way, InSeq
<1>3. CASE Readable(Root)
  <2> DEFINE r == [node |-> Root, done |-> 0]
             f == <<r>>
  <2>1. /\ frames' = f /\ active' = {Root} /\ clones' = {Root} /\ outcome' = "running"
        /\ heap' = heap /\ copy' = copy /\ ended' = ended
    BY <1>3 DEF Begin
  <2>2. r \in [node : Nodes, done : Nat] /\ Len(f) = 1 /\ f[1] = r
    BY CloneAssumption
  <2>3. CloneTypeOK'
    BY <1>1, <2>1, <2>2, CloneAssumption DEF CloneTypeOK
  <2>4. Stages'
    BY <2>1 DEF Stages
  <2>5. Way(f, {Root}, {Root}, ended)
    BY <1>2, <2>2 DEF Way
  <2>6. CopiedTo(heap, copy, Root, 0) /\ Len(heap[Root].entries) \in Nat
    BY <1>1, <1>2, EntriesAreSequences, CloneAssumption DEF Extent, CopiedTo
  <2>7. Extent(heap, f, {Root}, copy, ended)
    BY <1>1, <1>2, <2>2, <2>6 DEF Extent
  <2>8. Behind(heap, f, ended) /\ After(heap, ended)
    BY <1>2, <2>2 DEF Behind, After
  <2> QED
    BY <2>1, <2>3, <2>4, <2>5, <2>7, <2>8 DEF CloneInv
<1>4. CASE ~Readable(Root)
  <2>1. /\ outcome' = "refused"
        /\ UNCHANGED <<heap, frames, active, clones, copy, ended>>
    BY <1>4 DEF Begin
  <2>2. CloneTypeOK' /\ Stages'
    BY <1>1, <2>1 DEF CloneTypeOK, Stages
  <2> QED
    BY <1>1, <2>1, <2>2 DEF CloneInv
<1> QED
  BY <1>3, <1>4

\* What every step of the loop knows of the stack and the container at its top.
LEMMA TopIsKnown ==
  ASSUME CloneInv, outcome = "running"
  PROVE  /\ CloneTypeOK /\ Root \in clones
         /\ Way(frames, active, clones, ended)
         /\ Extent(heap, frames, clones, copy, ended)
         /\ Behind(heap, frames, ended) /\ After(heap, ended)
         /\ frames \in Seq(Frame) /\ ended \in Seq(Nodes) /\ copy \in Copies
         /\ Len(frames) \in Nat \ {0} /\ Top = frames[Len(frames)] /\ Top \in Frame
         /\ Top.node \in Nodes /\ Top.node \in active /\ Top.done \in Nat
         /\ Top.done <= Len(heap[Top.node].entries)
         /\ Len(heap[Top.node].entries) \in Nat
         /\ \A i \in 1..Len(frames) :
              /\ frames[i].node \in Nodes /\ frames[i].done \in Nat
              /\ i # Len(frames) => frames[i].node # Top.node
         /\ \A n \in InSeq(ended) : n \in Nodes /\ n # Top.node
<1>1. /\ CloneTypeOK /\ Root \in clones /\ frames # <<>>
      /\ Way(frames, active, clones, ended)
      /\ Extent(heap, frames, clones, copy, ended)
      /\ Behind(heap, frames, ended) /\ After(heap, ended)
  BY DEF CloneInv, Stages
<1>2. frames \in Seq(Frame) /\ ended \in Seq(Nodes) /\ copy \in Copies
  BY <1>1 DEF CloneTypeOK, Frame, Copies
<1>3. Len(frames) \in Nat \ {0} /\ Top = frames[Len(frames)] /\ Top \in Frame
  BY <1>1, <1>2, EmptySeq DEF Top
<1>4. Top.node \in Nodes /\ Top.done \in Nat
  BY <1>3 DEF Frame
<1>5. Top.node \in active
  BY <1>1, <1>3 DEF Way
<1>6. Len(heap[Top.node].entries) \in Nat
  BY <1>1, <1>4, EntriesAreSequences
<1>7. Top.done <= Len(heap[Top.node].entries)
  BY <1>1, <1>3 DEF Extent
<1>8. \A i \in 1..Len(frames) : frames[i].node \in Nodes /\ frames[i].done \in Nat
  <2>1. \A i \in 1..Len(frames) : frames[i] \in Frame
    BY <1>2
  <2> QED
    BY <2>1 DEF Frame
<1>9. \A i \in 1..Len(frames) : i # Len(frames) => frames[i].node # Top.node
  BY <1>1, <1>3 DEF Way
<1>10. \A n \in InSeq(ended) : n \in Nodes
  BY <1>2 DEF InSeq
<1>11. Top.node \notin InSeq(ended)
  BY <1>1, <1>5 DEF Way
<1> QED
  BY <1>1, <1>2, <1>3, <1>4, <1>5, <1>6, <1>7, <1>8, <1>9, <1>10, <1>11

\* The stack with one more entry done at the top.
LEMMA AdvancedIsKnown ==
  ASSUME CloneInv, outcome = "running"
  PROVE  /\ Advanced \in Seq(Frame) /\ Len(Advanced) = Len(frames)
         /\ Advanced[Len(frames)] = [node |-> Top.node, done |-> Top.done + 1]
         /\ \A i \in 1..Len(frames) : i # Len(frames) => Advanced[i] = frames[i]
         /\ \A i \in 1..Len(frames) : Advanced[i].node = frames[i].node
<1> DEFINE L == Len(frames)
           t == [node |-> Top.node, done |-> Top.done + 1]
<1>1. /\ frames \in Seq(Frame) /\ L \in Nat \ {0} /\ Top = frames[L] /\ Top \in Frame
      /\ Top.node \in Nodes /\ Top.done \in Nat
  BY TopIsKnown
<1>2. t \in Frame
  BY <1>1 DEF Frame
<1>3. [frames[L] EXCEPT !.done = @ + 1] = t
  BY <1>1 DEF Frame
<1>4. Advanced = [frames EXCEPT ![L] = t]
  BY <1>3 DEF Advanced
<1> HIDE DEF t
<1>5. /\ Advanced \in Seq(Frame) /\ Len(Advanced) = L /\ Advanced[L] = t
      /\ \A i \in 1..L : i # L => Advanced[i] = frames[i]
  BY <1>1, <1>2, <1>4
<1>6. t.node = frames[L].node
  BY <1>1 DEF t
<1> QED
  BY <1>5, <1>6 DEF t

\* What a copy with one more entry is, and that the others are as they were.
LEMMA DefinedIsKnown ==
  ASSUME CloneInv, outcome = "running", NEW v \in Nodes \cup {Scalar},
         Top.done < Len(heap[Top.node].entries),
         v = heap[Top.node].entries[Top.done + 1]
  PROVE  /\ Define(v) \in Copies
         /\ CopiedTo(heap, Define(v), Top.node, Top.done + 1)
         /\ \A n \in Nodes : n # Top.node => Define(v)[n] = copy[n]
<1> DEFINE T == Top.node
           D == Top.done
<1>1. /\ copy \in Copies /\ T \in Nodes /\ D \in Nat /\ Len(frames) \in Nat \ {0}
      /\ Top = frames[Len(frames)] /\ Extent(heap, frames, clones, copy, ended)
  BY TopIsKnown
<1>2. CopiedTo(heap, copy, T, D)
  BY <1>1 DEF Extent
<1>3. copy[T] \in Seq(Nodes \cup {Scalar})
  BY <1>1 DEF Copies
<1>4. Append(copy[T], v) \in Seq(Nodes \cup {Scalar})
  BY <1>3
<1>5. Define(v) = [copy EXCEPT ![T] = Append(copy[T], v)]
  BY DEF Define
<1>6. /\ Define(v) \in Copies /\ Define(v)[T] = Append(copy[T], v)
      /\ \A n \in Nodes : n # T => Define(v)[n] = copy[n]
  BY <1>1, <1>4, <1>5, ZenonT(20) DEF Copies
<1>7. CopiedTo(heap, Define(v), T, D + 1)
  <2> DEFINE w == Append(copy[T], v)
  <2>1. Len(copy[T]) = D /\ \A i \in 1..D : copy[T][i] = heap[T].entries[i]
    BY <1>2 DEF CopiedTo
  <2>2. Len(w) = D + 1 /\ w[D + 1] = v /\ \A i \in 1..D : w[i] = copy[T][i]
    BY <2>1, <1>3, <1>1
  <2> HIDE DEF w
  <2>3. \A i \in 1..(D + 1) : w[i] = heap[T].entries[i]
    BY <2>1, <2>2, <1>1
  <2> QED
    BY <2>2, <2>3, <1>6 DEF CopiedTo, w
<1> QED
  BY <1>6, <1>7

\* The next entry of the top is copied as it is: a scalar, or a container that
\* was left and has its copy.
LEMMA CopyingIsGood == CloneInv /\ (CopyScalar \/ Share) => CloneInv'
<1> SUFFICES ASSUME CloneInv, CopyScalar \/ Share PROVE CloneInv'
  OBVIOUS
<1> DEFINE L == Len(frames)
           T == Top.node
           D == Top.done
           f == Advanced
           p == Define(Entry)
<1>1. outcome = "running" /\ Looking
  BY DEF CopyScalar, Share, Looking
<1>2. /\ CloneTypeOK /\ Root \in clones /\ Way(frames, active, clones, ended)
      /\ Extent(heap, frames, clones, copy, ended)
      /\ Behind(heap, frames, ended) /\ After(heap, ended)
      /\ ended \in Seq(Nodes)
      /\ L \in Nat \ {0} /\ Top = frames[L] /\ T \in Nodes /\ T \in active /\ D \in Nat
      /\ Len(heap[T].entries) \in Nat
      /\ \A i \in 1..L :
           frames[i].node \in Nodes /\ frames[i].done \in Nat /\ (i # L => frames[i].node # T)
      /\ \A n \in InSeq(ended) : n \in Nodes /\ n # T
  BY <1>1, TopIsKnown
<1>3. D < Len(heap[T].entries) /\ Entry = heap[T].entries[D + 1]
  BY <1>1, <1>2 DEF Looking, Entry, Entries
<1>4. /\ frames' = f /\ copy' = p
      /\ UNCHANGED <<heap, active, clones, ended, outcome>>
  BY DEF CopyScalar, Share
<1>5. Entry = Scalar \/ Entry \in InSeq(ended)
  BY <1>2 DEF CopyScalar, Share, Circle, Way
<1>6. Entry \in Nodes \cup {Scalar} /\ (Entry \in Nodes => Entry \in InSeq(ended))
  BY <1>2, <1>5, CloneAssumption
<1>7. /\ f \in Seq(Frame) /\ Len(f) = L
      /\ f[L] = [node |-> T, done |-> D + 1]
      /\ \A i \in 1..L : i # L => f[i] = frames[i]
      /\ \A i \in 1..L : f[i].node = frames[i].node
  BY <1>1, AdvancedIsKnown
<1>8. /\ p \in Copies /\ CopiedTo(heap, p, T, D + 1)
      /\ \A n \in Nodes : n # T => p[n] = copy[n]
  BY <1>1, <1>3, <1>6, DefinedIsKnown
<1> HIDE DEF f, p
<1>9. CloneTypeOK'
  BY <1>2, <1>4, <1>7, <1>8 DEF CloneTypeOK, Frame, Copies
<1>10. Stages'
  BY <1>1, <1>2, <1>4, <1>7 DEF Stages
<1>11. Way(f, active, clones, ended)
  <2>1. {f[i].node : i \in 1..Len(f)} = {frames[i].node : i \in 1..L}
    BY <1>7
  <2>2. \A i, j \in 1..Len(f) : i # j => f[i].node # f[j].node
    BY <1>2, <1>7 DEF Way
  <2> QED
    BY <2>1, <2>2, <1>2 DEF Way
<1>12. Extent(heap, f, clones, p, ended)
  <2>1. ASSUME NEW i \in 1..L
        PROVE  f[i].done <= Len(heap[f[i].node].entries) /\ CopiedTo(heap, p, f[i].node, f[i].done)
    <3>1. CASE i = L
      BY <3>1, <1>2, <1>3, <1>7, <1>8
    <3>2. CASE i # L
      <4>1. frames[i].node # T /\ frames[i].node \in Nodes
        BY <3>2, <1>2
      <4>2. /\ frames[i].done <= Len(heap[frames[i].node].entries)
            /\ CopiedTo(heap, copy, frames[i].node, frames[i].done)
        BY <1>2 DEF Extent
      <4> QED
        BY <3>2, <4>1, <4>2, <1>7, <1>8 DEF CopiedTo
    <3> QED
      BY <3>1, <3>2
  <2>3. \A n \in InSeq(ended) : CopiedTo(heap, p, n, Len(heap[n].entries))
    BY <1>2, <1>8 DEF Extent, CopiedTo
  <2>4. \A n \in Nodes \ clones : p[n] = <<>>
    BY <1>2, <1>8 DEF Extent, Way
  <2> QED
    BY <2>1, <2>3, <2>4, <1>7 DEF Extent
<1>13. Behind(heap, f, ended)
  <2> SUFFICES ASSUME NEW i \in 1..L, NEW k \in 1..f[i].done,
                      heap[f[i].node].entries[k] \in Nodes
               PROVE  \/ heap[f[i].node].entries[k] \in InSeq(ended)
                      \/ i < L /\ heap[f[i].node].entries[k] = f[i + 1].node
    BY <1>7 DEF Behind
  <2>1. CASE i = L /\ k = D + 1
    BY <2>1, <1>3, <1>6, <1>7
  <2>2. CASE ~(i = L /\ k = D + 1)
    <3>1. k \in 1..frames[i].done /\ heap[frames[i].node].entries[k] \in Nodes
      <4>1. CASE i = L
        <5>1. f[i].done = D + 1 /\ frames[i].done = D
          BY <4>1, <1>2, <1>7
        <5>2. k \in 1..D
          BY <5>1, <4>1, <2>2, <1>2
        <5> QED
          BY <5>1, <5>2, <1>7
      <4>2. CASE i # L
        BY <4>2, <1>7
      <4> QED
        BY <4>1, <4>2
    <3>2. \/ heap[frames[i].node].entries[k] \in InSeq(ended)
          \/ i < L /\ heap[frames[i].node].entries[k] = frames[i + 1].node
      BY <3>1, <1>2 DEF Behind
    <3> QED
      BY <3>2, <1>2, <1>7
  <2> QED
    BY <2>1, <2>2
<1> QED
  BY <1>1, <1>2, <1>4, <1>9, <1>10, <1>11, <1>12, <1>13 DEF CloneInv

\* A container that was not met before is put on the stack, with an empty copy.
LEMMA DescendIsGood == CloneInv /\ Descend => CloneInv'
<1> SUFFICES ASSUME CloneInv, Descend PROVE CloneInv'
  OBVIOUS
<1> DEFINE L == Len(frames)
           T == Top.node
           D == Top.done
           m == Entry
           g == Advanced
           r == [node |-> m, done |-> 0]
           f == Append(g, r)
           p == Define(m)
           a == active \cup {m}
           c == clones \cup {m}
<1>1. outcome = "running" /\ Looking /\ m \in Nodes \ clones
  BY DEF Descend, Looking
<1>2. /\ CloneTypeOK /\ Root \in clones /\ Way(frames, active, clones, ended)
      /\ Extent(heap, frames, clones, copy, ended)
      /\ Behind(heap, frames, ended) /\ After(heap, ended)
      /\ L \in Nat \ {0} /\ Top = frames[L] /\ T \in Nodes /\ T \in active /\ D \in Nat
      /\ Len(heap[T].entries) \in Nat
      /\ \A i \in 1..L :
           frames[i].node \in Nodes /\ frames[i].done \in Nat /\ (i # L => frames[i].node # T)
      /\ \A n \in InSeq(ended) : n \in Nodes /\ n # T
  BY <1>1, TopIsKnown
<1>3. D < Len(heap[T].entries) /\ m = heap[T].entries[D + 1]
  BY <1>1, <1>2 DEF Looking, Entry, Entries
<1>4. /\ frames' = f /\ copy' = p /\ active' = a /\ clones' = c
      /\ UNCHANGED <<heap, ended, outcome>>
  BY DEF Descend
<1>5. /\ g \in Seq(Frame) /\ Len(g) = L
      /\ g[L] = [node |-> T, done |-> D + 1]
      /\ \A i \in 1..L : i # L => g[i] = frames[i]
      /\ \A i \in 1..L : g[i].node = frames[i].node
  BY <1>1, AdvancedIsKnown
<1>6. r \in Frame
  BY <1>1 DEF Frame
<1>7. /\ p \in Copies /\ CopiedTo(heap, p, T, D + 1)
      /\ \A n \in Nodes : n # T => p[n] = copy[n]
  BY <1>1, <1>3, DefinedIsKnown
<1>8. m \notin active /\ m \notin InSeq(ended) /\ m # T
  BY <1>1, <1>2 DEF Way
<1>9. \A i \in 1..L : frames[i].node # m
  BY <1>2, <1>8 DEF Way
<1> HIDE DEF g, p, r, m
<1>10. /\ f \in Seq(Frame) /\ Len(f) = L + 1 /\ f[L + 1] = r
       /\ \A i \in 1..L : f[i] = g[i]
  BY <1>5, <1>6, <1>2
<1>11. r.node = m /\ r.done = 0
  BY DEF r
<1> HIDE DEF f
<1>12. /\ \A i \in 1..L : f[i].node = frames[i].node
       /\ \A i \in 1..L : i # L => f[i].done = frames[i].done
       /\ f[L].done = D + 1 /\ f[L].node = T
       /\ f[L + 1].node = m /\ f[L + 1].done = 0
  BY <1>2, <1>5, <1>10, <1>11
<1>13. CloneTypeOK'
  BY <1>1, <1>2, <1>4, <1>7, <1>10 DEF CloneTypeOK, Frame, Copies
<1>14. Stages'
  <2>1. f # <<>>
    BY <1>10, <1>2
  <2> QED
    BY <2>1, <1>1, <1>2, <1>4 DEF Stages
<1>15. Way(f, a, c, ended)
  <2>1. {f[i].node : i \in 1..Len(f)} = {frames[i].node : i \in 1..L} \cup {m}
    BY <1>2, <1>10, <1>12, SMTT(20)
  <2>2. \A i, j \in 1..Len(f) : i # j => f[i].node # f[j].node
    <3> SUFFICES ASSUME NEW i \in 1..(L + 1), NEW j \in 1..(L + 1), i # j
                 PROVE  f[i].node # f[j].node
      BY <1>10
    <3>1. CASE i \in 1..L /\ j \in 1..L
      BY <3>1, <1>12, <1>2 DEF Way
    <3>2. CASE i = L + 1 \/ j = L + 1
      BY <3>2, <1>12, <1>9, <1>2
    <3> QED
      BY <3>1, <3>2, <1>2
  <2>3. active = {frames[i].node : i \in 1..L} /\ clones = active \cup InSeq(ended)
        /\ active \cap InSeq(ended) = {}
    BY <1>2 DEF Way
  <2> QED
    BY <2>1, <2>2, <2>3, <1>8 DEF Way
<1>16. Extent(heap, f, c, p, ended)
  <2>1. ASSUME NEW i \in 1..(L + 1)
        PROVE  f[i].done <= Len(heap[f[i].node].entries) /\ CopiedTo(heap, p, f[i].node, f[i].done)
    <3>1. CASE i = L
      BY <3>1, <1>2, <1>3, <1>12, <1>7
    <3>2. CASE i = L + 1
      <4>1. p[m] = <<>>
        BY <1>1, <1>2, <1>7, <1>8 DEF Extent, m
      <4>2. Len(heap[m].entries) \in Nat
        BY <1>1, <1>2, EntriesAreSequences DEF m
      <4> QED
        BY <3>2, <4>1, <4>2, <1>12 DEF CopiedTo
    <3>3. CASE i \in 1..L /\ i # L
      <4>1. /\ frames[i].done <= Len(heap[frames[i].node].entries)
            /\ CopiedTo(heap, copy, frames[i].node, frames[i].done)
        BY <3>3, <1>2 DEF Extent
      <4>2. /\ f[i].node = frames[i].node /\ f[i].done = frames[i].done
            /\ p[frames[i].node] = copy[frames[i].node]
        BY <3>3, <1>2, <1>12, <1>7
      <4>3. CopiedTo(heap, p, frames[i].node, frames[i].done)
        BY <4>1, <4>2 DEF CopiedTo
      <4> QED
        BY <4>1, <4>2, <4>3
    <3> QED
      BY <3>1, <3>2, <3>3, <1>2
  <2>2. \A n \in InSeq(ended) : CopiedTo(heap, p, n, Len(heap[n].entries))
    BY <1>2, <1>7 DEF Extent, CopiedTo
  <2>3. \A n \in Nodes \ c : p[n] = <<>>
    BY <1>2, <1>7 DEF Extent, Way
  <2> QED
    BY <2>1, <2>2, <2>3, <1>10 DEF Extent
<1>17. Behind(heap, f, ended)
  <2> SUFFICES ASSUME NEW i \in 1..(L + 1), NEW k \in 1..f[i].done,
                      heap[f[i].node].entries[k] \in Nodes
               PROVE  \/ heap[f[i].node].entries[k] \in InSeq(ended)
                      \/ i < L + 1 /\ heap[f[i].node].entries[k] = f[i + 1].node
    BY <1>10 DEF Behind
  <2>1. CASE i = L + 1
    BY <2>1, <1>12
  <2>2. CASE i = L /\ k = D + 1
    BY <2>2, <1>3, <1>12, <1>2 DEF m
  <2>3. CASE i = L /\ k # D + 1
    <3>1. k \in 1..D /\ frames[L].done = D /\ frames[L].node = T
      BY <2>3, <1>12, <1>2
    <3>2. heap[frames[L].node].entries[k] \in InSeq(ended)
      BY <3>1, <2>3, <1>2, <1>12 DEF Behind
    <3> QED
      BY <3>1, <3>2, <2>3, <1>12
  <2>4. CASE i \in 1..L /\ i # L
    <3>1. k \in 1..frames[i].done /\ heap[frames[i].node].entries[k] \in Nodes
      BY <2>4, <1>12
    <3>2. \/ heap[frames[i].node].entries[k] \in InSeq(ended)
          \/ i < L /\ heap[frames[i].node].entries[k] = frames[i + 1].node
      BY <3>1, <2>4, <1>2 DEF Behind
    <3>3. i + 1 \in 1..L
      BY <2>4, <1>2
    <3> QED
      BY <3>2, <3>3, <2>4, <1>12, <1>2
  <2> QED
    BY <2>1, <2>2, <2>3, <2>4, <1>2
<1> QED
  BY <1>1, <1>2, <1>4, <1>13, <1>14, <1>15, <1>16, <1>17 DEF CloneInv

\* The container at the top is whole, and so is all that it holds.
LEMMA LeaveIsGood == CloneInv /\ Leave => CloneInv'
<1> SUFFICES ASSUME CloneInv, Leave PROVE CloneInv'
  OBVIOUS
<1> DEFINE L == Len(frames)
           T == Top.node
           f == Front(frames)
           e == Append(ended, T)
           a == active \ {T}
<1>1. /\ outcome = "running" /\ Top.done = Len(Entries(T))
      /\ frames' = f /\ ended' = e /\ active' = a
      /\ outcome' = (IF L = 1 THEN "copied" ELSE "running")
      /\ UNCHANGED <<heap, clones, copy>>
  BY DEF Leave, Left
<1>2. /\ CloneTypeOK /\ Root \in clones /\ Way(frames, active, clones, ended)
      /\ Extent(heap, frames, clones, copy, ended)
      /\ Behind(heap, frames, ended) /\ After(heap, ended)
      /\ frames \in Seq(Frame) /\ ended \in Seq(Nodes)
      /\ L \in Nat \ {0} /\ Top = frames[L] /\ T \in Nodes /\ T \in active
      /\ Len(heap[T].entries) \in Nat
      /\ \A i \in 1..L :
           frames[i].node \in Nodes /\ frames[i].done \in Nat /\ (i # L => frames[i].node # T)
      /\ \A n \in InSeq(ended) : n \in Nodes /\ n # T
  BY <1>1, TopIsKnown
<1>3. Top.done = Len(heap[T].entries)
  BY <1>1 DEF Entries
<1>4. /\ f \in Seq(Frame) /\ Len(f) = L - 1
      /\ \A i \in 1..(L - 1) : f[i] = frames[i]
  <2>1. \A i \in 1..(L - 1) : frames[i] \in Frame
    BY <1>2
  <2>2. /\ SubSeq(frames, 1, L - 1) \in Seq(Frame)
        /\ Len(SubSeq(frames, 1, L - 1)) = IF 1 <= L - 1 THEN L - 1 ELSE 0
        /\ \A i \in 1..(L - 1) : SubSeq(frames, 1, L - 1)[i] = frames[1 + i - 1]
    BY <2>1, <1>2, SubSeqProperties
  <2>3. f = SubSeq(frames, 1, L - 1)
    BY DEF Front
  <2> HIDE DEF f
  <2> DEFINE m == L - 1
  <2>4. f \in Seq(Frame) /\ Len(f) = m
    <3>1. f \in Seq(Frame) /\ Len(f) = IF 1 <= m THEN m ELSE 0
      BY <2>2, <2>3
    <3>2. m \in Nat
      BY <1>2
    <3> HIDE DEF m
    <3> QED
      BY <3>1, <3>2
  <2>5. ASSUME NEW i \in 1..(L - 1) PROVE f[i] = frames[i]
    <3>1. 1 + i - 1 = i
      BY <1>2
    <3> QED
      BY <2>2, <2>3, <3>1
  <2> QED
    BY <2>4, <2>5
<1>5. /\ e \in Seq(Nodes) /\ Len(e) = Len(ended) + 1 /\ e[Len(ended) + 1] = T
      /\ \A i \in 1..Len(ended) : e[i] = ended[i]
      /\ Len(ended) \in Nat
  BY <1>2
<1> HIDE DEF f, e
<1>6. InSeq(e) = InSeq(ended) \cup {T}
  BY <1>5 DEF InSeq
<1>7. CloneTypeOK'
  BY <1>1, <1>2, <1>4, <1>5 DEF CloneTypeOK, Frame
<1>8. Stages'
  <2>1. L = 1 => f = <<>>
    BY <1>4, EmptySeq
  <2>2. L # 1 => f # <<>>
    BY <1>4, <1>2
  <2> QED
    BY <2>1, <2>2, <1>1, <1>2 DEF Stages
<1>9. Way(f, a, clones, e)
  <2>1. /\ active = {frames[i].node : i \in 1..L}
        /\ \A i, j \in 1..L : i # j => frames[i].node # frames[j].node
        /\ clones = active \cup InSeq(ended) /\ active \cap InSeq(ended) = {}
    BY <1>2 DEF Way
  <2>2. a = {frames[i].node : i \in 1..(L - 1)}
    BY <2>1, <1>2
  <2>3. {f[i].node : i \in 1..Len(f)} = {frames[i].node : i \in 1..(L - 1)}
    BY <1>4
  <2>4. \A i, j \in 1..Len(f) : i # j => f[i].node # f[j].node
    BY <2>1, <1>4, <1>2
  <2>5. clones = a \cup InSeq(e) /\ a \cap InSeq(e) = {}
    BY <2>1, <1>6, <1>2
  <2> QED
    BY <2>2, <2>3, <2>4, <2>5 DEF Way
<1>10. Extent(heap, f, clones, copy, e)
  <2>1. CopiedTo(heap, copy, T, Len(heap[T].entries))
    BY <1>2, <1>3 DEF Extent
  <2> QED
    BY <2>1, <1>2, <1>4, <1>6 DEF Extent
<1>11. Behind(heap, f, e)
  <2> SUFFICES ASSUME NEW i \in 1..(L - 1), NEW k \in 1..f[i].done,
                      heap[f[i].node].entries[k] \in Nodes
               PROVE  \/ heap[f[i].node].entries[k] \in InSeq(e)
                      \/ i < L - 1 /\ heap[f[i].node].entries[k] = f[i + 1].node
    BY <1>4 DEF Behind
  <2>1. f[i] = frames[i] /\ i \in 1..L
    BY <1>4, <1>2
  <2>2. \/ heap[frames[i].node].entries[k] \in InSeq(ended)
        \/ i < L /\ heap[frames[i].node].entries[k] = frames[i + 1].node
    BY <2>1, <1>2 DEF Behind
  <2>3. CASE i = L - 1
    BY <2>1, <2>2, <2>3, <1>2, <1>6
  <2>4. CASE i # L - 1
    <3>1. i + 1 \in 1..(L - 1)
      BY <2>4, <1>2
    <3> QED
      BY <3>1, <2>1, <2>2, <1>4, <1>6
  <2> QED
    BY <2>3, <2>4
<1>12. After(heap, e)
  <2> SUFFICES ASSUME NEW r \in 1..(Len(ended) + 1), NEW k \in 1..Len(heap[e[r]].entries),
                      heap[e[r]].entries[k] \in Nodes
               PROVE  \E q \in 1..(r - 1) : e[q] = heap[e[r]].entries[k]
    BY <1>5 DEF After
  <2>1. CASE r \in 1..Len(ended)
    <3>1. PICK q \in 1..(r - 1) : ended[q] = heap[ended[r]].entries[k]
      BY <2>1, <1>2, <1>5 DEF After
    <3>2. q \in 1..Len(ended) /\ e[q] = ended[q] /\ e[r] = ended[r]
      BY <2>1, <1>5
    <3> QED
      BY <3>1, <3>2
  <2>2. CASE r = Len(ended) + 1
    <3>1. e[r] = T /\ frames[L].node = T /\ k \in 1..frames[L].done
      BY <2>2, <1>2, <1>3, <1>5
    <3>2. heap[T].entries[k] \in InSeq(ended)
      BY <3>1, <1>2 DEF Behind
    <3>3. PICK q \in 1..Len(ended) : ended[q] = heap[T].entries[k]
      BY <3>2 DEF InSeq
    <3>4. q \in 1..(r - 1) /\ e[q] = ended[q]
      BY <2>2, <1>5
    <3> QED
      BY <3>1, <3>3, <3>4
  <2> QED
    BY <2>1, <2>2, <1>5
<1> QED
  BY <1>1, <1>2, <1>7, <1>8, <1>9, <1>10, <1>11, <1>12 DEF CloneInv

\* A refusal leaves the stack as the way to where it happened.
LEMMA RefuseIsGood == CloneInv /\ Refuse => CloneInv'
<1> SUFFICES ASSUME CloneInv, Refuse PROVE CloneInv'
  OBVIOUS
<1>1. /\ outcome = "running" /\ outcome' = "refused" /\ frames' = Advanced
      /\ UNCHANGED <<heap, active, clones, copy, ended>>
  BY DEF Refuse, Looking
<1>2. CloneTypeOK /\ Way(frames, active, clones, ended) /\ Len(frames) \in Nat \ {0}
  BY <1>1, TopIsKnown
<1>3. /\ Advanced \in Seq(Frame) /\ Len(Advanced) = Len(frames)
      /\ \A i \in 1..Len(frames) : Advanced[i].node = frames[i].node
  BY <1>1, AdvancedIsKnown
<1>4. CloneTypeOK'
  BY <1>1, <1>2, <1>3 DEF CloneTypeOK, Frame
<1>5. {Advanced[i].node : i \in 1..Len(Advanced)} = {frames[i].node : i \in 1..Len(frames)}
  BY <1>3
<1>6. Way(Advanced, active, clones, ended)
  BY <1>2, <1>3, <1>5 DEF Way
<1>7. Stages'
  BY <1>1 DEF Stages
<1> QED
  BY <1>1, <1>4, <1>6, <1>7 DEF CloneInv

\* Nothing happens.
LEMMA StutterIsGood == CloneInv /\ UNCHANGED cloneVars => CloneInv'
<1> SUFFICES ASSUME CloneInv, UNCHANGED cloneVars PROVE CloneInv'
  OBVIOUS
<1>1. UNCHANGED <<heap, frames, active, clones, copy, ended, outcome>>
  BY DEF cloneVars
<1>2. CloneTypeOK' /\ Stages'
  BY <1>1 DEF CloneInv, CloneTypeOK, Stages
<1> QED
  BY <1>1, <1>2 DEF CloneInv

\* The invariant of the walk.
THEOREM CloneInductive == CloneSpec => []CloneInv
<1>1. CloneInv /\ [CloneNext]_cloneVars => CloneInv'
  BY BeginIsGood, CopyingIsGood, DescendIsGood, LeaveIsGood, RefuseIsGood, StutterIsGood
     DEF CloneNext
<1> QED
  BY CloneInitIsGood, <1>1, PTL DEF CloneSpec

\* What is accepted was copied in full, and holds nothing but copies.
THEOREM CopiesAreWhole == CloneSpec => []CopyIsWhole
<1>1. CloneInv => CopyIsWhole
  <2> SUFFICES ASSUME CloneInv, outcome = "copied"
               PROVE  /\ Root \in clones
                      /\ \A n \in clones : copy[n] = Entries(n) /\ Held(n) \subseteq clones
    BY DEF CopyIsWhole
  <2>1. /\ CloneTypeOK /\ frames = <<>> /\ Root \in clones
        /\ Way(frames, active, clones, ended)
        /\ Extent(heap, frames, clones, copy, ended) /\ After(heap, ended)
    BY DEF CloneInv, Stages
  <2>2. clones = InSeq(ended) /\ ended \in Seq(Nodes)
    BY <2>1 DEF Way, CloneTypeOK
  <2>3. ASSUME NEW n \in clones
        PROVE  copy[n] = Entries(n) /\ Held(n) \subseteq clones
    <3>1. PICK r \in 1..Len(ended) : ended[r] = n
      BY <2>2 DEF InSeq
    <3>2. n \in Nodes /\ CopiedTo(heap, copy, n, Len(heap[n].entries))
      BY <2>1, <2>2, <3>1 DEF Extent
    <3>3. /\ copy[n] \in Seq(Nodes \cup {Scalar})
          /\ heap[n].entries \in Seq(Nodes \cup {Scalar, Junk, Accessor})
      BY <2>1, <3>2, EntriesAreSequences DEF CloneTypeOK
    <3>4. copy[n] = heap[n].entries
      BY <3>2, <3>3, SeqEqual DEF CopiedTo
    <3>5. \A k \in 1..Len(heap[n].entries) :
            heap[n].entries[k] \in Nodes => heap[n].entries[k] \in clones
      <4> SUFFICES ASSUME NEW k \in 1..Len(heap[n].entries), heap[n].entries[k] \in Nodes
                   PROVE  heap[n].entries[k] \in clones
        OBVIOUS
      <4>1. PICK q \in 1..(r - 1) : ended[q] = heap[n].entries[k]
        BY <2>1, <3>1 DEF After
      <4>2. q \in 1..Len(ended)
        BY <2>2
      <4> QED
        BY <4>1, <4>2, <2>2 DEF InSeq
    <3>6. DOMAIN Entries(n) = 1..Len(heap[n].entries)
      BY <3>3 DEF Entries
    <3> QED
      BY <3>4, <3>5, <3>6 DEF Entries, Held
  <2> QED
    BY <2>1, <2>3
<1> QED
  BY <1>1, CloneInductive, PTL

\* What is accepted has no circle: all that a container holds was left before.
THEOREM CirclesAreRefused == CloneSpec => []NoCircleIsCopied
<1>1. CloneInv => NoCircleIsCopied
  <2> SUFFICES ASSUME CloneInv, outcome = "copied"
               PROVE  /\ \A n \in clones : \E i \in DOMAIN ended : ended[i] = n
                      /\ \A i \in DOMAIN ended : \A m \in Held(ended[i]) :
                           \E j \in 1..(i - 1) : ended[j] = m
    BY DEF NoCircleIsCopied
  <2>1. /\ CloneTypeOK /\ frames = <<>> /\ Way(frames, active, clones, ended) /\ After(heap, ended)
    BY DEF CloneInv, Stages
  <2>2. clones = InSeq(ended) /\ ended \in Seq(Nodes) /\ DOMAIN ended = 1..Len(ended)
    BY <2>1 DEF Way, CloneTypeOK
  <2>3. \A n \in clones : \E i \in DOMAIN ended : ended[i] = n
    BY <2>2 DEF InSeq
  <2>4. ASSUME NEW i \in DOMAIN ended, NEW m \in Held(ended[i])
        PROVE  \E j \in 1..(i - 1) : ended[j] = m
    <3>1. heap[ended[i]].entries \in Seq(Nodes \cup {Scalar, Junk, Accessor})
      BY <2>1, <2>2, EntriesAreSequences
    <3>2. PICK k \in 1..Len(heap[ended[i]].entries) : heap[ended[i]].entries[k] = m /\ m \in Nodes
      BY <3>1 DEF Held, Entries
    <3> QED
      BY <3>2, <2>1, <2>2 DEF After
  <2> QED
    BY <2>3, <2>4
<1> QED
  BY <1>1, CloneInductive, PTL

-----------------------------------------------------------------------------
(* The causes of a refusal. *)

\* A set of natural numbers has a least one.
LEMMA LeastNat ==
  ASSUME NEW T, T \subseteq Nat, T # {}
  PROVE  \E x \in T : \A y \in T : x <= y
<1> DEFINE R == {p \in Nat \X Nat : p[1] < p[2]}
<1>1. IsWellFoundedOn(R, Nat)
  BY NatLessThanWellFounded, Zenon DEF OpToRel
<1>2. PICK x \in T : \A y \in T : ~ (<<y, x>> \in R)
  BY <1>1, WFMin
<1>3. \A y \in T : x \in Nat /\ y \in Nat /\ ~(y < x)
  BY <1>2
<1> QED
  BY <1>3

\* Induction up to a bound.
LEMMA BoundedInduction ==
  ASSUME NEW m \in Nat, NEW P, 0 \in P, \A n \in 1..m : n - 1 \in P => n \in P
  PROVE  \A n \in 0..m : n \in P
<1> DEFINE T == {n \in 0..m : n \notin P}
<1> SUFFICES ASSUME T # {} PROVE FALSE
  OBVIOUS
<1>1. T \subseteq Nat
  OBVIOUS
<1>2. PICK x \in T : \A y \in T : x <= y
  BY <1>1, LeastNat
<1>3. x \in 0..m /\ x \notin P /\ x # 0
  BY <1>2
<1>4. x \in 1..m /\ x - 1 \in 0..m /\ ~(x <= x - 1)
  BY <1>3
<1>5. x - 1 \in P
  BY <1>2, <1>4
<1> QED
  BY <1>3, <1>4, <1>5

Size == Cardinality(Nodes)

\* r[k] is what at most k steps reach.
Steps(r, from) ==
  /\ r[0] = from
  /\ \A k \in 1..Size : r[k] = r[k - 1] \cup UNION {Held(n) : n \in r[k - 1]}

\* There are finitely many containers.
LEMMA SizeIsNat == Size \in Nat
BY CloneAssumption, FS_CardinalityType DEF Size

\* What is reached is reached step by step.
LEMMA ReachedSteps ==
  ASSUME NEW from
  PROVE  \E r : Reached(from) = r[Size] /\ Steps(r, from)
<1> DEFINE N == Size
           More(S) == S \cup UNION {Held(n) : n \in S}
           Upto(k, f) == f[0] = from /\ \A i \in 1..k : f[i] = More(f[i - 1])
           D == {k \in 0..N : \E f : Upto(k, f)}
           Body(f) == [k \in 0..N |-> IF k = 0 THEN from ELSE More(f[k - 1])]
<1>1. N \in Nat
  BY SizeIsNat
<1>2. Reached(from) = LET f == CHOOSE f1 : f1 = Body(f1) IN f[N]
  BY DEF Reached, Size
<1> HIDE DEF N, More
<1>3. 0 \in D
  <2>1. Upto(0, [i \in 0..0 |-> from])
    OBVIOUS
  <2>2. \E f : Upto(0, f)
    BY <2>1
  <2>3. 0 \in 0..N
    BY <1>1
  <2> HIDE DEF Upto
  <2> QED
    BY <2>2, <2>3
<1>4. ASSUME NEW n \in 1..N, n - 1 \in D PROVE n \in D
  <2>1. PICK f : Upto(n - 1, f)
    BY <1>4
  <2> DEFINE g == [i \in 0..n |-> IF i = n THEN More(f[n - 1]) ELSE f[i]]
  <2>2. /\ g[n] = More(f[n - 1]) /\ n - 1 \in 0..(n - 1) /\ 0 \in 0..(n - 1)
        /\ \A i \in 0..(n - 1) : g[i] = f[i]
    BY <1>1
  <2> HIDE DEF g
  <2>3. ASSUME NEW i \in 1..n PROVE g[i] = More(g[i - 1])
    <3>1. CASE i = n
      BY <2>2, <3>1
    <3>2. CASE i # n
      <4>1. i \in 1..(n - 1) /\ i \in 0..(n - 1) /\ i - 1 \in 0..(n - 1)
        BY <1>1, <3>2
      <4> QED
        BY <2>1, <2>2, <4>1
    <3> QED
      BY <3>1, <3>2
  <2>4. g[0] = from
    BY <2>1, <2>2
  <2>5. \E f1 : Upto(n, f1)
    BY <2>3, <2>4, Zenon
  <2>6. n \in 0..N
    BY <1>1
  <2> QED
    BY <2>5, <2>6
<1>5. N \in D
  <2> HIDE DEF D
  <2>1. \A n \in 0..N : n \in D
    BY <1>1, <1>3, <1>4, BoundedInduction
  <2> QED
    BY <1>1, <2>1
<1>6. PICK f : f = Body(f)
  <2>1. PICK f : Upto(N, f)
    BY <1>5
  <2> DEFINE g == [i \in 0..N |-> f[i]]
  <2>2. g = [i \in 0..N |-> g[i]] /\ \A i \in 0..N : g[i] = f[i]
    OBVIOUS
  <2> HIDE DEF g
  <2>3. ASSUME NEW i \in 0..N PROVE g[i] = Body(g)[i]
    <3>1. CASE i = 0
      BY <2>1, <2>2, <3>1
    <3>2. CASE i # 0
      <4>1. i \in 1..N /\ i - 1 \in 0..N
        BY <1>1, <3>2
      <4> QED
        BY <2>1, <2>2, <4>1
    <3> QED
      BY <3>1, <3>2
  <2>4. g = Body(g)
    BY <2>2, <2>3
  <2> QED
    BY <2>4
<1> DEFINE r == CHOOSE f1 : f1 = Body(f1)
<1>7. r = Body(r)
  BY <1>6
<1>8. Reached(from) = r[N]
  BY <1>2
<1> HIDE DEF r
<1>9. r[0] = from /\ \A k \in 1..N : r[k] = More(r[k - 1])
  <2>1. 0 \in 0..N /\ \A k \in 1..N : k \in 0..N /\ k # 0
    BY <1>1
  <2>2. \A k \in 0..N : Body(r)[k] = IF k = 0 THEN from ELSE More(r[k - 1])
    OBVIOUS
  <2> HIDE DEF Body
  <2>3. \A k \in 0..N : r[k] = IF k = 0 THEN from ELSE More(r[k - 1])
    BY <1>7, <2>2
  <2> QED
    BY <2>1, <2>3
<1>10. Steps(r, from)
  BY <1>9 DEF Steps, More, N
<1> QED
  BY <1>8, <1>10 DEF N

\* The end of a way that is not longer than there are containers is reached.
LEMMA WayReaches ==
  ASSUME NEW from, NEW p, NEW l \in Nat, l <= Size, p[0] \in from,
         \A k \in 1..l : p[k] \in Held(p[k - 1])
  PROVE  p[l] \in Reached(from)
<1>1. PICK r : Reached(from) = r[Size] /\ Steps(r, from)
  BY ReachedSteps
<1>2. Size \in Nat
  BY SizeIsNat
<1> DEFINE P == {k \in 0..Size : (k <= l => p[k] \in r[k]) /\ (l <= k => p[l] \in r[k])}
<1>3. 0 \in P
  BY <1>1, <1>2 DEF Steps
<1>4. ASSUME NEW k \in 1..Size, k - 1 \in P PROVE k \in P
  <2>1. r[k] = r[k - 1] \cup UNION {Held(n) : n \in r[k - 1]}
    BY <1>1 DEF Steps
  <2>2. CASE k <= l
    <3>1. p[k - 1] \in r[k - 1] /\ k \in 1..l
      BY <1>2, <1>4, <2>2
    <3>2. p[k] \in Held(p[k - 1])
      BY <3>1
    <3> QED
      BY <1>2, <2>1, <2>2, <3>1, <3>2
  <2>3. CASE ~(k <= l)
    <3>1. l <= k - 1
      BY <1>2, <2>3
    <3> QED
      BY <1>2, <1>4, <2>1, <2>3, <3>1
  <2> QED
    BY <2>2, <2>3
<1> HIDE DEF P
<1>5. \A k \in 0..Size : k \in P
  BY <1>2, <1>3, <1>4, BoundedInduction
<1>6. Size \in P
  BY <1>2, <1>5
<1> QED
  BY <1>1, <1>2, <1>6 DEF P

\* The stack is a way from the root, where each container holds the next one.
Trail(f) ==
  /\ Len(f) # 0 => f[1].node = Root
  /\ \A i \in 1..(Len(f) - 1) : f[i + 1].node \in Held(f[i].node)

CInv == CloneInv /\ Trail(frames) /\ RefusedForCause

\* The way is no longer than there are containers, and shorter if one is not on it.
LEMMA WayIsShort ==
  ASSUME frames \in Seq(Frame), Way(frames, active, clones, ended)
  PROVE  /\ Len(frames) <= Size
         /\ \A n \in Nodes \ active : Len(frames) + 1 <= Size
<1> DEFINE L == Len(frames)
           f == [i \in 1..L |-> frames[i].node]
<1>1. L \in Nat /\ \A i \in 1..L : frames[i].node \in Nodes /\ frames[i].node \in active
  <2>1. \A i \in 1..L : frames[i] \in Frame
    OBVIOUS
  <2> QED
    BY <2>1 DEF Frame, Way
<1>2. IsFiniteSet(Nodes) /\ Size \in Nat
  BY CloneAssumption, SizeIsNat
<1>3. Cardinality(1..L) = L
  <2>1. 1 \in Int /\ L \in Int /\ (IF 1 > L THEN 0 ELSE L - 1 + 1) = L
    BY <1>1
  <2> QED
    BY <2>1, FS_Interval
<1>4. \A i, j \in 1..L : f[i] = f[j] => i = j
  BY DEF Way
<1>5. L <= Size
  <2>1. f \in Injection(1..L, Nodes)
    BY <1>1, <1>4 DEF Injection, IsInjective
  <2> QED
    BY <1>2, <1>3, <2>1, FS_Injection DEF Size
<1>6. ASSUME NEW n \in Nodes \ active PROVE L + 1 <= Size
  <2>1. f \in [1..L -> Nodes \ {n}]
    BY <1>1
  <2>2. f \in Injection(1..L, Nodes \ {n})
    BY <1>4, <2>1 DEF Injection, IsInjective
  <2>3. IsFiniteSet(Nodes \ {n}) /\ Cardinality(Nodes \ {n}) = Size - 1
    BY <1>2, FS_RemoveElement DEF Size
  <2> HIDE DEF f
  <2>4. Cardinality(1..L) <= Cardinality(Nodes \ {n})
    BY <2>2, <2>3, FS_Injection
  <2> QED
    BY <1>1, <1>2, <1>3, <2>3, <2>4
<1> QED
  BY <1>5, <1>6

\* Every container on the stack is reached from the root, and from any that is
\* before it.
LEMMA TrailReaches ==
  ASSUME frames \in Seq(Frame), Trail(frames), NEW i \in 1..Len(frames), NEW from,
         frames[i].node \in from, NEW n
  PROVE  /\ Len(frames) <= Size => Top.node \in Reached(from)
         /\ n \in Held(Top.node) /\ (Len(frames) - i) + 1 <= Size => n \in Reached(from)
<1> DEFINE L == Len(frames)
           p == [k \in 0..((L - i) + 1) |-> IF k = (L - i) + 1 THEN n ELSE frames[i + k].node]
<1>1. L \in Nat /\ Size \in Nat /\ L - i \in Nat /\ (L - i) + 1 \in Nat
  BY SizeIsNat
<1>2. /\ p[(L - i) + 1] = n
      /\ \A k \in 0..(L - i) : p[k] = frames[i + k].node
  BY <1>1
<1> HIDE DEF p
<1>3. \A k \in 1..(L - i) : p[k] \in Held(p[k - 1])
  <2> SUFFICES ASSUME NEW k \in 1..(L - i) PROVE p[k] \in Held(p[k - 1])
    OBVIOUS
  <2>1. /\ k \in 0..(L - i) /\ k - 1 \in 0..(L - i) /\ i + (k - 1) \in 1..(L - 1)
        /\ (i + (k - 1)) + 1 = i + k
    BY <1>1
  <2>2. frames[(i + (k - 1)) + 1].node \in Held(frames[i + (k - 1)].node)
    BY <2>1 DEF Trail
  <2> QED
    BY <1>2, <2>1, <2>2
<1>4. n \in Held(Top.node) => p[(L - i) + 1] \in Held(p[((L - i) + 1) - 1])
  <2>1. ((L - i) + 1) - 1 = L - i /\ L - i \in 0..(L - i) /\ i + (L - i) = L
    BY <1>1
  <2> QED
    BY <1>2, <2>1 DEF Top
<1>5. p[0] = frames[i].node /\ p[L - i] = Top.node
  <2>1. 0 \in 0..(L - i) /\ L - i \in 0..(L - i) /\ i + 0 = i /\ i + (L - i) = L
    BY <1>1
  <2> QED
    BY <1>2, <2>1 DEF Top
<1>6. ASSUME L <= Size PROVE Top.node \in Reached(from)
  <2>1. L - i <= Size
    BY <1>1, <1>6
  <2>2. p[L - i] \in Reached(from)
    BY <1>1, <1>3, <1>5, <1>6, <2>1, WayReaches
  <2> QED
    BY <1>5, <2>2
<1>7. ASSUME n \in Held(Top.node), (L - i) + 1 <= Size PROVE n \in Reached(from)
  <2>1. \A k \in 1..((L - i) + 1) : p[k] \in Held(p[k - 1])
    <3> SUFFICES ASSUME NEW k \in 1..((L - i) + 1) PROVE p[k] \in Held(p[k - 1])
      OBVIOUS
    <3>1. CASE k = (L - i) + 1
      BY <1>4, <1>7, <3>1
    <3>2. CASE k # (L - i) + 1
      <4>1. k \in 1..(L - i)
        BY <1>1, <3>2
      <4> QED
        BY <1>3, <4>1
    <3> QED
      BY <3>1, <3>2
  <2>2. p[(L - i) + 1] \in Reached(from)
    BY <1>1, <1>5, <1>7, <2>1, WayReaches
  <2> QED
    BY <1>2, <2>2
<1> QED
  BY <1>6, <1>7

\* The entry that the loop looks at is one of the container at the top.
LEMMA EntryIsHeld ==
  ASSUME CloneInv, Looking
  PROVE  /\ \E i \in 1..Len(Entries(Top.node)) : Entries(Top.node)[i] = Entry
         /\ Entry \in Nodes => Entry \in Held(Top.node)
<1>1. /\ CloneTypeOK /\ Top.node \in Nodes /\ Top.done \in Nat
      /\ Len(Entries(Top.node)) \in Nat /\ Top.done < Len(Entries(Top.node))
  BY TopIsKnown DEF Looking, Entries
<1>2. DOMAIN Entries(Top.node) = 1..Len(Entries(Top.node))
  BY <1>1, EntriesAreSequences DEF Entries
<1>3. Top.done + 1 \in 1..Len(Entries(Top.node)) /\ Entry = Entries(Top.node)[Top.done + 1]
  BY <1>1 DEF Entry
<1> QED
  BY <1>2, <1>3 DEF Held

\* A refusal in the middle of the walk has a cause.
LEMMA RefuseHasCause ==
  ASSUME CInv, Refuse
  PROVE  \E n \in Reached({Root}) :
           ~Readable(n) \/ Contains(Entries(n), Junk) \/ n \in Reached(Held(n))
<1> DEFINE L == Len(frames)
<1>1. /\ CloneInv /\ Trail(frames) /\ Looking /\ outcome = "running"
  BY DEF CInv, Refuse, Looking
<1>2. /\ frames \in Seq(Frame) /\ Way(frames, active, clones, ended)
      /\ L \in Nat \ {0} /\ Top = frames[L] /\ Top.node \in Nodes
  BY <1>1, TopIsKnown
<1>3. L <= Size /\ (\A n \in Nodes \ active : L + 1 <= Size) /\ Size \in Nat
  BY <1>2, WayIsShort, SizeIsNat
<1>4. frames[1].node = Root /\ 1 \in 1..L
  BY <1>1, <1>2 DEF Trail
<1>5. \A i \in 1..L : \A n, from :
        frames[i].node \in from =>
          /\ Top.node \in Reached(from)
          /\ n \in Held(Top.node) /\ (L - i) + 1 <= Size => n \in Reached(from)
  BY <1>1, <1>2, <1>3, TrailReaches
<1>6. Top.node \in Reached({Root})
  BY <1>4, <1>5
<1>7. /\ \E i \in 1..Len(Entries(Top.node)) : Entries(Top.node)[i] = Entry
      /\ Entry \in Nodes => Entry \in Held(Top.node)
  BY <1>1, EntryIsHeld
<1>8. CASE Entry = Junk
  <2>1. Contains(Entries(Top.node), Junk)
    BY <1>7, <1>8 DEF Contains
  <2> QED
    BY <1>6, <2>1
<1>9. CASE Entry \in Nodes /\ Circle(Entry)
  <2>1. PICK i \in 1..L : frames[i].node = Entry
    BY <1>2, <1>9 DEF Circle, Way
  <2>2. Entry \in Held(Top.node) /\ (L - i) + 1 <= Size
    BY <1>2, <1>3, <1>7, <1>9
  <2>3. Entry \in Reached(Held(Entry))
    <3>1. CASE i = L
      <4>1. Entry \in Held(Entry) /\ frames[L].node \in Held(Entry) /\ L \in 1..L /\ (L - L) + 1 <= Size
        BY <1>2, <1>3, <2>1, <2>2, <3>1
      <4> QED
        BY <1>5, <2>2, <4>1
    <3>2. CASE i # L
      <4>1. i \in 1..(L - 1) /\ i + 1 \in 1..L /\ (L - (i + 1)) + 1 <= Size
        BY <1>2, <1>3, <3>2
      <4>2. frames[i + 1].node \in Held(Entry)
        BY <1>1, <2>1, <4>1 DEF Trail
      <4> QED
        BY <1>5, <2>2, <4>1, <4>2
    <3> QED
      BY <3>1, <3>2
  <2>4. Entry \in Reached({Root})
    <3>1. (L - 1) + 1 <= Size
      BY <1>2, <1>3
    <3> QED
      BY <1>4, <1>5, <2>2, <3>1
  <2> QED
    BY <2>3, <2>4
<1>10. CASE Entry \in Nodes \ clones /\ ~Readable(Entry)
  <2>1. Entry \in Nodes \ active
    BY <1>2, <1>10 DEF Way
  <2>2. Entry \in Held(Top.node) /\ (L - 1) + 1 <= Size
    BY <1>2, <1>3, <1>7, <2>1
  <2>3. Entry \in Reached({Root})
    BY <1>4, <1>5, <2>2
  <2> QED
    BY <1>10, <2>3
<1> QED
  BY <1>8, <1>9, <1>10 DEF Refuse

\* The way stays one, whatever the loop does.
LEMMA TrailStays ==
  ASSUME CInv, CloneNext
  PROVE  Trail(frames')
<1>1. CloneInv /\ Trail(frames)
  BY DEF CInv
<1>2. CASE Begin
  <2>1. CASE Readable(Root)
    <3>1. frames' = <<[node |-> Root, done |-> 0]>>
      BY <1>2, <2>1 DEF Begin
    <3>2. Len(frames') = 1 /\ frames'[1].node = Root
      BY <3>1
    <3> QED
      BY <3>2 DEF Trail
  <2>2. CASE ~Readable(Root)
    BY <1>1, <1>2, <2>2 DEF Begin
  <2> QED
    BY <2>1, <2>2
<1>3. ASSUME outcome = "running"
      PROVE  /\ Len(frames) \in Nat \ {0} /\ frames \in Seq(Frame) /\ Top = frames[Len(frames)]
             /\ Advanced \in Seq(Frame) /\ Len(Advanced) = Len(frames)
             /\ \A i \in 1..Len(frames) : Advanced[i].node = frames[i].node
  BY <1>1, <1>3, TopIsKnown, AdvancedIsKnown
<1>4. CASE CopyScalar \/ Share \/ Refuse
  <2>1. frames' = Advanced /\ outcome = "running"
    BY <1>4 DEF CopyScalar, Share, Refuse, Looking
  <2>2. /\ Len(frames') = Len(frames) /\ Len(frames) \in Nat
        /\ \A i \in 1..Len(frames) : frames'[i].node = frames[i].node
    BY <1>3, <2>1
  <2> QED
    BY <1>1, <2>2 DEF Trail
<1>5. CASE Descend
  <2> DEFINE L == Len(frames)
             x == [node |-> Entry, done |-> 0]
  <2>1. frames' = Append(Advanced, x) /\ outcome = "running" /\ Looking /\ Entry \in Nodes
    BY <1>5 DEF Descend, Looking
  <2>2. Entry \in Held(Top.node)
    BY <1>1, <2>1, EntryIsHeld
  <2>3. x.node = Entry
    OBVIOUS
  <2> HIDE DEF x
  <2>4. /\ Len(frames') = L + 1 /\ L \in Nat \ {0} /\ frames'[L + 1].node = Entry
        /\ \A i \in 1..L : frames'[i].node = frames[i].node
    BY <1>3, <2>1, <2>3
  <2>5. ASSUME NEW i \in 1..L PROVE frames'[i + 1].node \in Held(frames'[i].node)
    <3>1. CASE i = L
      BY <1>3, <2>1, <2>2, <2>4, <3>1
    <3>2. CASE i # L
      <4>1. i \in 1..(L - 1) /\ i + 1 \in 1..L
        BY <2>4, <3>2
      <4> QED
        BY <1>1, <2>4, <4>1 DEF Trail
    <3> QED
      BY <3>1, <3>2
  <2> QED
    BY <1>1, <2>4, <2>5 DEF Trail
<1>6. CASE Leave
  <2>1. frames' = Front(frames) /\ outcome = "running"
    BY <1>6 DEF Leave
  <2>2. /\ Len(frames') = Len(frames) - 1 /\ Len(frames) \in Nat \ {0}
        /\ \A i \in 1..(Len(frames) - 1) : frames'[i] = frames[i]
    BY <1>3, <2>1 DEF Front
  <2>3. \A i \in 1..(Len(frames') - 1) : i \in 1..(Len(frames) - 1) /\ i + 1 \in 1..(Len(frames) - 1)
    BY <2>2
  <2> QED
    BY <1>1, <2>2, <2>3 DEF Trail
<1> QED
  BY <1>2, <1>4, <1>5, <1>6 DEF CloneNext

\* The causes of a refusal in an input h.
HeldIn(h, n) == {h[n].entries[i] : i \in DOMAIN h[n].entries} \cap Nodes

ReachedIn(h, from) ==
  LET reach[k \in 0..Cardinality(Nodes)] ==
        IF k = 0 THEN from ELSE reach[k - 1] \cup UNION {HeldIn(h, n) : n \in reach[k - 1]}
  IN reach[Cardinality(Nodes)]

Cause(h) ==
  \E n \in ReachedIn(h, {Root}) :
    \/ ~(h[n].ordinary /\ \A i \in DOMAIN h[n].entries : h[n].entries[i] # Accessor)
    \/ Contains(h[n].entries, Junk)
    \/ n \in ReachedIn(h, HeldIn(h, n))

\* The property speaks of the causes in the input.
LEMMA CausesOfInput ==
  RefusedForCause = (outcome = "refused" => Cause(heap))
BY DEF RefusedForCause, Cause, ReachedIn, HeldIn, Reached, Readable, Entries, Held

\* The same, of the next state.
LEMMA CausesOfNext ==
  ASSUME heap' = heap, outcome' = "refused" => Cause(heap)
  PROVE  RefusedForCause'
<1>1. RefusedForCause' = (outcome' = "refused" => Cause(heap'))
  BY DEF RefusedForCause, Cause, ReachedIn, HeldIn, Reached, Readable, Entries, Held
<1> QED
  BY <1>1

\* A refusal has a cause in what the root reaches; sharing is none.
THEOREM CausesOfRefusal == CloneSpec => []RefusedForCause
<1>1. CloneInit => CInv
  <2> SUFFICES ASSUME CloneInit PROVE CInv
    OBVIOUS
  <2>1. CloneInv
    BY CloneInitIsGood
  <2>2. Len(frames) = 0 /\ outcome # "refused"
    BY DEF CloneInit
  <2> QED
    BY <2>1, <2>2 DEF CInv, Trail, RefusedForCause
<1>2. CInv /\ [CloneNext]_cloneVars => CInv'
  <2> SUFFICES ASSUME CInv, [CloneNext]_cloneVars PROVE CInv'
    OBVIOUS
  <2>1. CloneInv'
    BY BeginIsGood, CopyingIsGood, DescendIsGood, LeaveIsGood, RefuseIsGood, StutterIsGood
       DEF CInv, CloneNext
  <2>2. Trail(frames)'
    <3>1. Trail(frames')
      <4>1. CASE UNCHANGED cloneVars
        BY <4>1 DEF CInv, cloneVars
      <4> QED
        BY <4>1, TrailStays
    <3>2. heap' = heap
      BY DEF CloneNext, cloneVars, Begin, Leave, CopyScalar, Refuse, Share, Descend
    <3> QED
      BY <3>1, <3>2 DEF Trail, Held, Entries
  <2>3. RefusedForCause'
    <3>1. heap' = heap
      BY DEF CloneNext, cloneVars, Begin, Leave, CopyScalar, Refuse, Share, Descend
    <3>2. CASE UNCHANGED cloneVars
      BY <3>1, <3>2, CausesOfInput, CausesOfNext DEF CInv, cloneVars
    <3>3. CASE Begin /\ ~Readable(Root)
      <4>2. Root \in Reached({Root})
        <5> DEFINE p == [k \in {0} |-> Root]
        <5>2. p[0] \in {Root} /\ 0 \in Nat /\ 0 <= Size /\ \A k \in 1..0 : FALSE
          BY SizeIsNat
        <5>3. p[0] \in Reached({Root})
          <6> HIDE DEF p
          <6> QED
            BY <5>2, WayReaches
        <5> QED
          BY <5>3
      <4>3. \E n \in Reached({Root}) :
              ~Readable(n) \/ Contains(Entries(n), Junk) \/ n \in Reached(Held(n))
        BY <3>3, <4>2
      <4>4. Cause(heap)
        BY <4>3 DEF Cause, ReachedIn, HeldIn, Reached, Readable, Entries, Held
      <4> QED
        BY <3>1, <4>4, CausesOfNext
    <3>4. CASE Refuse
      <4>1. \E n \in Reached({Root}) :
              ~Readable(n) \/ Contains(Entries(n), Junk) \/ n \in Reached(Held(n))
        BY <3>4, RefuseHasCause
      <4>2. Cause(heap)
        BY <4>1 DEF Cause, ReachedIn, HeldIn, Reached, Readable, Entries, Held
      <4> QED
        BY <3>1, <4>2, CausesOfNext
    <3>5. CASE outcome' # "refused"
      BY <3>5 DEF RefusedForCause
    <3>6. outcome' = "refused" => (Begin /\ ~Readable(Root)) \/ Refuse \/ UNCHANGED cloneVars
      BY DEF CloneNext, Begin, Leave, CopyScalar, Share, Descend, Looking
    <3> QED
      BY <3>2, <3>3, <3>4, <3>5, <3>6
  <2> QED
    BY <2>1, <2>2, <2>3 DEF CInv
<1>3. CInv => RefusedForCause
  BY DEF CInv
<1> QED
  BY <1>1, <1>2, <1>3, PTL DEF CloneSpec

-----------------------------------------------------------------------------
(* Telemetry.  Entries wait in order, in the queue of their client or in    *)
(* the one frame that took it, behind what was sent; a frame that is not   *)
(* the innermost waits for a listener or has nothing to send.  The links   *)
(* agree, so a client that is disposed can let go of all it has.  The      *)
(* predicates speak of queues q, owners o, entries sent m, a stack st, the *)
(* disposed ds and a tree t.                                               *)

\* What the parts of a telemetry client are.
FlushFrames ==
  [client : Clients, seen : SUBSET Clients, own : BOOLEAN, todo : Seq(Nat),
   busy : BOOLEAN, failed : BOOLEAN]
TimerHandles ==
  [client : Clients, mark : Nat, state : {"running", "over"}]
TimerMarks == [client : Clients, name : Names, cleared : BOOLEAN]

TreeTyped(t) ==
  /\ t.emitter \in [Clients -> Clients \cup {NoOne}] /\ t.up \in [Clients -> Clients \cup {NoOne}]
  /\ t.children \in [Clients -> Seq(Clients)]
EntriesTyped(q, o, m) ==
  q \in [Clients -> Seq(Nat)] /\ o \in Seq(Clients) /\ m \in Seq(Nat)
ClientsTyped(b, f, d) == f \subseteq b /\ d \subseteq b /\ b \subseteq Clients
TimersTyped(hs, ms, n) ==
  /\ hs \in Seq(TimerHandles) /\ ms \in Seq(TimerMarks)
  /\ n \in [Clients -> [Names -> 0..Len(ms)]]

ClientTyped ==
  /\ TreeTyped(Tree) /\ EntriesTyped(queue, owner, sent) /\ ClientsTyped(born, frozen, disposed)
  /\ TimersTyped(handles, marks, named) /\ stack \in Seq(FlushFrames)

\* A client is flushed once at a time.  A frame that has not taken the queue has
\* nothing to send; one that has waits for a listener, unless it is the innermost.
Shaped(st) ==
  /\ \A i, j \in 1..Len(st) : st[i].client = st[j].client => i = j
  /\ \A i \in 1..Len(st) : ~st[i].own => st[i].todo = <<>> /\ ~st[i].busy
  /\ \A i \in 1..(Len(st) - 1) : st[i].own => st[i].busy

\* The entries of s were recorded with c, in this order.
Recorded(s, c, o) ==
  /\ \A i \in 1..Len(s) : s[i] \in 1..Len(o) /\ o[s[i]] = c
  /\ \A i, j \in 1..Len(s) : i < j => s[i] < s[j]

\* What c has sent comes before the entries of s.
SentBefore(m, o, c, s) ==
  \A i \in 1..Len(m) : o[m[i]] = c => \A j \in 1..Len(s) : m[i] < s[j]

\* What is taken comes before what is queued.
TakenBefore(s, t) == \A i \in 1..Len(s), j \in 1..Len(t) : s[i] < t[j]

Awaits(s, c, o, m) == Recorded(s, c, o) /\ SentBefore(m, o, c, s)

Sending(st, e, c) == \E i \in 1..Len(st) : st[i].client = c /\ e \in ToSet(st[i].todo)

\* Entries wait in order behind what was sent, and none is missing.
Flow(q, o, m, st, ds) ==
  /\ \A c \in Clients : Awaits(q[c], c, o, m)
  /\ \A i \in 1..Len(st) : /\ Awaits(st[i].todo, st[i].client, o, m)
                           /\ TakenBefore(st[i].todo, q[st[i].client])
  /\ \A i \in 1..Len(m) : m[i] \in 1..Len(o)
  /\ \A i, j \in 1..Len(m) : i < j /\ o[m[i]] = o[m[j]] => m[i] < m[j]
  /\ \A e \in 1..Len(o) :
       e \in ToSet(m) \/ e \in ToSet(q[o[e]]) \/ Sending(st, e, o[e]) \/ o[e] \in ds

FlowInv == ClientTyped /\ Shaped(stack) /\ Flow(queue, owner, sent, stack, disposed)

\* The three places that know of a link agree.
Linked(t) ==
  \A p, c \in Clients :
    /\ Contains(t.children[p], c) <=> t.up[c] = p
    /\ t.emitter[c] = p <=> t.up[c] = p

LinkInv == FlowInv /\ Linked(Tree)

\* Nothing of a disposed client works, not even a mark to measure from.
Gone(c, q, hs, ms) ==
  /\ q[c] = <<>>
  /\ \A h \in 1..Len(hs) : hs[h].client = c => hs[h].state # "running"
  /\ \A m \in 1..Len(ms) : ms[m].client = c => ms[m].cleared

GoneInv == FlowInv /\ \A c \in disposed : Gone(c, queue, handles, marks)

-----------------------------------------------------------------------------
(* Lists of clients. *)

\* f walks m steps from e.
Walks(f, m, e, step) == f[0] = e /\ \A i \in 1..m : f[i] = step[i][f[i - 1]]

\* Whatever the steps are, there is a function that walks them.
LEMMA WalkExists ==
  ASSUME NEW m \in Nat, NEW X, NEW e \in X, NEW step \in [1..m -> [X -> X]]
  PROVE  \E f \in [0..m -> X] : Walks(f, m, e, step)
<1> DEFINE Upto(n, f) == f \in [0..n -> X] /\ Walks(f, n, e, step)
           D == {n \in 0..m : \E f : Upto(n, f)}
<1>1. 0 \in D
  <2>1. Upto(0, [i \in 0..0 |-> e])
    BY DEF Walks
  <2> QED
    BY <2>1
<1>2. ASSUME NEW n \in 1..m, n - 1 \in D PROVE n \in D
  <2>1. PICK f : Upto(n - 1, f)
    BY <1>2
  <2>2. /\ f \in [0..(n - 1) -> X] /\ f[0] = e
        /\ \A i \in 1..(n - 1) : f[i] = step[i][f[i - 1]]
    BY <2>1 DEF Walks
  <2> DEFINE g == [i \in 0..n |-> IF i = n THEN step[n][f[n - 1]] ELSE f[i]]
  <2>3. \A i \in 0..(n - 1) : g[i] = f[i]
    OBVIOUS
  <2>4. g[n] = step[n][f[n - 1]]
    OBVIOUS
  <2>5. f[n - 1] \in X /\ step[n][f[n - 1]] \in X
    BY <2>2
  <2>6. g \in [0..n -> X]
    <3>1. \A i \in 0..n : i # n => i \in 0..(n - 1)
      OBVIOUS
    <3>2. ASSUME NEW i \in 0..n
          PROVE  (IF i = n THEN step[n][f[n - 1]] ELSE f[i]) \in X
      BY <2>2, <2>5, <3>1
    <3> QED
      BY <3>2
  <2> HIDE DEF g
  <2>7. ASSUME NEW i \in 1..n PROVE g[i] = step[i][g[i - 1]]
    <3>1. i - 1 \in 0..(n - 1) /\ (i # n => i \in 1..(n - 1) /\ i \in 0..(n - 1))
      OBVIOUS
    <3>2. g[i - 1] = f[i - 1]
      BY <2>3, <3>1
    <3>3. CASE i = n
      BY <2>4, <3>2, <3>3
    <3>4. CASE i # n
      BY <2>2, <2>3, <3>1, <3>2, <3>4
    <3> QED
      BY <3>3, <3>4
  <2>8. g[0] = e
    <3>1. 0 \in 0..(n - 1)
      OBVIOUS
    <3> QED
      BY <2>2, <2>3, <3>1
  <2>9. Upto(n, g)
    BY <2>6, <2>7, <2>8 DEF Walks
  <2> HIDE DEF Upto
  <2> QED
    BY <2>9
<1>3. m \in D
  <2> HIDE DEF D
  <2>1. \A n \in 0..m : n \in D
    BY <1>1, <1>2, BoundedInduction
  <2> QED
    BY <2>1
<1> QED
  BY <1>3

\* What is left of a list is what was in it, without the one.
LEMMA WithoutElements ==
  ASSUME NEW s \in Seq(Clients), NEW c
  PROVE  \A t : t = Without(s, c) =>
           t \in Seq(Clients) /\ \A x : Contains(t, x) <=> Contains(s, x) /\ x # c
<1> DEFINE m == Len(s)
           Drop(x, n) == IF s[n] = c THEN x ELSE Append(x, s[n])
           step == [n \in 1..m |-> [x \in Seq(Clients) |-> Drop(x, n)]]
           Body(f) == [n \in 0..m |->
                         IF n = 0 THEN <<>>
                         ELSE IF s[n] = c THEN f[n - 1] ELSE Append(f[n - 1], s[n])]
           g == CHOOSE f : f = Body(f)
<1>1. m \in Nat /\ \A n \in 1..m : s[n] \in Clients
  OBVIOUS
<1>2. Without(s, c) = g[m]
  BY DEF Without
<1>3. g = Body(g)
  <2>1. \A x \in Seq(Clients), n \in 1..m : Drop(x, n) \in Seq(Clients)
    BY <1>1
  <2>2. step \in [1..m -> [Seq(Clients) -> Seq(Clients)]] /\ <<>> \in Seq(Clients)
    BY <2>1
  <2>3. PICK f \in [0..m -> Seq(Clients)] : Walks(f, m, <<>>, step)
    <3> HIDE DEF step, m
    <3> QED
      BY <1>1, <2>2, WalkExists
  <2>4. f[0] = <<>> /\ \A n \in 1..m : f[n] = Drop(f[n - 1], n)
    <3>1. ASSUME NEW n \in 1..m PROVE f[n] = Drop(f[n - 1], n)
      <4>1. n - 1 \in 0..m
        OBVIOUS
      <4>2. f[n - 1] \in Seq(Clients)
        BY <2>3, <4>1
      <4>3. f[n] = step[n][f[n - 1]]
        BY <2>3 DEF Walks
      <4> HIDE DEF Drop
      <4> QED
        BY <4>2, <4>3
    <3>2. f[0] = <<>>
      BY <2>3 DEF Walks
    <3> QED
      BY <3>1, <3>2
  <2>5. \A n \in 0..m : n # 0 => n \in 1..m
    OBVIOUS
  <2>6. \A n \in 0..m : f[n] = IF n = 0 THEN <<>>
                               ELSE IF s[n] = c THEN f[n - 1] ELSE Append(f[n - 1], s[n])
    BY <2>4, <2>5
  <2>7. f = [n \in 0..m |-> f[n]]
    BY <2>3
  <2>8. f = Body(f)
    BY <2>6, <2>7, Zenon
  <2> QED
    BY <2>8
<1> HIDE DEF g, m
<1>4. g[0] = <<>> /\ \A n \in 1..m : g[n] = Drop(g[n - 1], n)
  <2>1. \A n \in 0..m : g[n] = IF n = 0 THEN <<>>
                               ELSE IF s[n] = c THEN g[n - 1] ELSE Append(g[n - 1], s[n])
    BY <1>3
  <2>2. 0 \in 0..m /\ \A n \in 1..m : n \in 0..m /\ n # 0
    BY <1>1
  <2> QED
    BY <2>1, <2>2
<1> DEFINE Good(t, n) == t \in Seq(Clients)
                         /\ \A x : Contains(t, x) <=> (\E i \in 1..n : s[i] = x) /\ x # c
           P == {n \in 0..m : Good(g[n], n)}
<1>5. 0 \in P
  <2>1. Good(<<>>, 0)
    BY DEF Contains
  <2>2. 0 \in 0..m
    BY <1>1
  <2> HIDE DEF Good
  <2> QED
    BY <1>4, <2>1, <2>2
<1>6. ASSUME NEW n \in 1..m, n - 1 \in P PROVE n \in P
  <2>1. PICK t : t = g[n - 1]
    OBVIOUS
  <2>2. Good(t, n - 1)
    BY <1>6, <2>1
  <2>3. /\ n \in 0..m /\ s[n] \in Clients /\ \A i \in 1..n : i \in 1..(n - 1) \/ i = n
        /\ n \in 1..n /\ \A i \in 1..(n - 1) : i \in 1..n
    BY <1>1
  <2>4. CASE s[n] = c
    <3>1. g[n] = t
      BY <1>4, <2>1, <2>4
    <3>2. Good(t, n)
      BY <2>2, <2>3, <2>4
    <3> HIDE DEF Good
    <3> QED
      BY <2>3, <3>1, <3>2
  <2>5. CASE s[n] # c
    <3>1. PICK u : u = Append(t, s[n])
      OBVIOUS
    <3>2. g[n] = u
      BY <1>4, <2>1, <2>5, <3>1
    <3>3. t \in Seq(Clients) /\ u \in Seq(Clients)
      BY <2>2, <2>3, <3>1
    <3>4. \A x : Contains(u, x) <=> Contains(t, x) \/ x = s[n]
      <4>1. /\ Len(u) = Len(t) + 1 /\ u[Len(t) + 1] = s[n] /\ Len(t) \in Nat
            /\ \A i \in 1..Len(t) : u[i] = t[i]
        BY <2>3, <3>1, <3>3
      <4>2. \A i \in 1..Len(u) : i \in 1..Len(t) \/ i = Len(t) + 1
        BY <4>1
      <4>3. Len(t) + 1 \in 1..Len(u) /\ \A i \in 1..Len(t) : i \in 1..Len(u)
        BY <4>1
      <4> QED
        BY <4>1, <4>2, <4>3 DEF Contains
    <3>5. ASSUME NEW x PROVE Contains(u, x) <=> (\E i \in 1..n : s[i] = x) /\ x # c
      BY <2>2, <2>3, <2>5, <3>4
    <3>6. Good(u, n)
      BY <3>3, <3>5
    <3> HIDE DEF Good
    <3> QED
      BY <2>3, <3>2, <3>6
  <2> QED
    BY <2>4, <2>5
<1>7. m \in P
  <2> HIDE DEF P
  <2>1. \A n \in 0..m : n \in P
    BY <1>1, <1>5, <1>6, BoundedInduction
  <2>2. m \in 0..m
    BY <1>1
  <2> QED
    BY <2>1, <2>2
<1>8. Good(g[m], m)
  BY <1>7
<1>9. \A x : Contains(s, x) <=> \E i \in 1..m : s[i] = x
  BY DEF Contains, m
<1> QED
  BY <1>2, <1>8, <1>9

\* Appending puts one more in the list.
LEMMA AppendElements ==
  ASSUME NEW s \in Seq(Clients), NEW c \in Clients
  PROVE  \A t : t = (IF Contains(s, c) THEN s ELSE Append(s, c)) =>
           t \in Seq(Clients) /\ \A x : Contains(t, x) <=> Contains(s, x) \/ x = c
<1>1. CASE Contains(s, c)
  BY <1>1
<1>2. CASE ~Contains(s, c)
  <2>1. PICK t : t = Append(s, c)
    OBVIOUS
  <2>2. /\ Len(t) = Len(s) + 1 /\ t[Len(s) + 1] = c /\ Len(s) \in Nat
        /\ \A i \in 1..Len(s) : t[i] = s[i]
        /\ t \in Seq(Clients)
    BY <2>1
  <2>3. \A i \in 1..Len(t) : i \in 1..Len(s) \/ i = Len(s) + 1
    BY <2>2
  <2>4. Len(s) + 1 \in 1..Len(t) /\ \A i \in 1..Len(s) : i \in 1..Len(t)
    BY <2>2
  <2>5. \A x : Contains(t, x) <=> Contains(s, x) \/ x = c
    BY <2>2, <2>3, <2>4 DEF Contains
  <2> QED
    BY <1>2, <2>1, <2>2, <2>5
<1> QED
  BY <1>1, <1>2

\* A list that holds no client is empty.
LEMMA NoElements ==
  ASSUME NEW s \in Seq(Clients), \A x \in Clients : ~Contains(s, x)
  PROVE  s = <<>>
<1>1. Len(s) \in Nat /\ \A i \in 1..Len(s) : s[i] \in Clients /\ Contains(s, s[i])
  BY DEF Contains
<1>2. Len(s) = 0
  <2>1. Len(s) # 0 => 1 \in 1..Len(s)
    BY <1>1
  <2> QED
    BY <1>1, <2>1
<1> QED
  BY <1>2
-----------------------------------------------------------------------------
(* The tree. *)

\* d is t after c has left p.
Lost(d, t, p, c) ==
  /\ TreeTyped(d)
  /\ d.emitter[c] = (IF t.emitter[c] = p THEN NoOne ELSE t.emitter[c]) /\ d.up[c] = NoOne
  /\ \A x \in Clients : x # c => d.emitter[x] = t.emitter[x] /\ d.up[x] = t.up[x]
  /\ \A q, x \in Clients :
       Contains(d.children[q], x) <=> Contains(t.children[q], x) /\ ~(q = p /\ x = c)

\* d is t after c has come to p.
Gained(d, t, p, c) ==
  /\ TreeTyped(d)
  /\ d.emitter[c] = p /\ d.up[c] = p
  /\ \A x \in Clients : x # c => d.emitter[x] = t.emitter[x] /\ d.up[x] = t.up[x]
  /\ \A q, x \in Clients :
       Contains(d.children[q], x) <=>
         (Contains(t.children[q], x) /\ (x = c => q = p \/ q # t.emitter[c])) \/ (q = p /\ x = c)

\* removeChild() takes c out of the list of p, and leaves it no parent.
LEMMA DetachedIsLost ==
  ASSUME NEW t, TreeTyped(t), NEW p \in Clients, NEW c \in Clients
  PROVE  Lost(Detached(p, c, t), t, p, c)
<1> DEFINE d == Detached(p, c, t)
<1>1. /\ t.emitter \in [Clients -> Clients \cup {NoOne}] /\ t.up \in [Clients -> Clients \cup {NoOne}]
      /\ t.children \in [Clients -> Seq(Clients)]
  BY DEF TreeTyped
<1>2. /\ d.emitter = IF t.emitter[c] = p THEN [t.emitter EXCEPT ![c] = NoOne] ELSE t.emitter
      /\ d.up = [t.up EXCEPT ![c] = NoOne]
      /\ d.children = [t.children EXCEPT ![p] = Without(t.children[p], c)]
  BY DEF Detached
<1>3. PICK w : w = Without(t.children[p], c)
  OBVIOUS
<1>4. w \in Seq(Clients) /\ \A x : Contains(w, x) <=> Contains(t.children[p], x) /\ x # c
  <2>1. t.children[p] \in Seq(Clients)
    BY <1>1
  <2> QED
    BY <1>3, <2>1, WithoutElements
<1> HIDE DEF d
<1>5. /\ d.children \in [Clients -> Seq(Clients)] /\ d.children[p] = w
      /\ \A q \in Clients : q # p => d.children[q] = t.children[q]
  BY <1>1, <1>2, <1>3, <1>4
<1>6. /\ d.up \in [Clients -> Clients \cup {NoOne}] /\ d.up[c] = NoOne
      /\ \A x \in Clients : x # c => d.up[x] = t.up[x]
  BY <1>1, <1>2
<1>7. /\ d.emitter \in [Clients -> Clients \cup {NoOne}]
      /\ d.emitter[c] = (IF t.emitter[c] = p THEN NoOne ELSE t.emitter[c])
      /\ \A x \in Clients : x # c => d.emitter[x] = t.emitter[x]
  BY <1>1, <1>2
<1>8. \A q, x \in Clients :
        Contains(d.children[q], x) <=> Contains(t.children[q], x) /\ ~(q = p /\ x = c)
  BY <1>4, <1>5
<1>9. Lost(d, t, p, c)
  BY <1>5, <1>6, <1>7, <1>8 DEF Lost, TreeTyped
<1> QED
  BY <1>9 DEF d

\* addChild() takes c out of the list of a former parent and puts it into that of p.
LEMMA AttachedIsGained ==
  ASSUME NEW t, TreeTyped(t), NEW p \in Clients, NEW c \in Clients
  PROVE  Gained(Attached(p, c, t), t, p, c)
<1> DEFINE old == t.emitter[c]
           free == IF old \notin {NoOne, p} THEN Detached(old, c, t) ELSE t
           list == IF Contains(free.children[p], c) THEN free.children[p]
                   ELSE Append(free.children[p], c)
           d == Attached(p, c, t)
<1>1. /\ d.emitter = [free.emitter EXCEPT ![c] = p] /\ d.up = [free.up EXCEPT ![c] = p]
      /\ d.children = [free.children EXCEPT ![p] = list]
  BY DEF Attached
<1>2. NoOne \notin Clients /\ old \in Clients \cup {NoOne}
  BY TelemetryAssumption DEF TreeTyped
<1>3. /\ TreeTyped(free)
      /\ \A x \in Clients : x # c => free.emitter[x] = t.emitter[x] /\ free.up[x] = t.up[x]
      /\ \A q, x \in Clients :
           Contains(free.children[q], x) <=>
             Contains(t.children[q], x) /\ (x = c => q = p \/ q # t.emitter[c])
  <2>1. CASE old \notin {NoOne, p}
    <3>1. Lost(Detached(old, c, t), t, old, c) /\ free = Detached(old, c, t)
      BY <1>2, <2>1, DetachedIsLost
    <3> HIDE DEF free
    <3> QED
      BY <2>1, <3>1 DEF Lost
  <2>2. CASE old \in {NoOne, p}
    <3>1. free = t
      BY <2>2
    <3> HIDE DEF free
    <3>2. \A q \in Clients : q = p \/ q # old
      BY <1>2, <2>2
    <3> QED
      BY <3>1, <3>2
  <2> QED
    BY <2>1, <2>2
<1> HIDE DEF d, free
<1>4. /\ free.emitter \in [Clients -> Clients \cup {NoOne}]
      /\ free.up \in [Clients -> Clients \cup {NoOne}]
      /\ free.children \in [Clients -> Seq(Clients)] /\ free.children[p] \in Seq(Clients)
  BY <1>3 DEF TreeTyped
<1>5. list \in Seq(Clients) /\ \A x : Contains(list, x) <=> Contains(free.children[p], x) \/ x = c
  <2>1. PICK s \in Seq(Clients) : s = free.children[p]
    BY <1>4
  <2>2. list = (IF Contains(s, c) THEN s ELSE Append(s, c))
    BY <2>1
  <2> HIDE DEF list
  <2>3. list \in Seq(Clients) /\ \A x : Contains(list, x) <=> Contains(s, x) \/ x = c
    BY <2>2, AppendElements
  <2> QED
    BY <2>1, <2>3
<1> HIDE DEF list
<1>6. /\ d.children \in [Clients -> Seq(Clients)] /\ d.children[p] = list
      /\ \A q \in Clients : q # p => d.children[q] = free.children[q]
  BY <1>1, <1>4, <1>5
<1>7. /\ d.up \in [Clients -> Clients \cup {NoOne}] /\ d.up[c] = p
      /\ \A x \in Clients : x # c => d.up[x] = free.up[x]
  BY <1>1, <1>4
<1>8. /\ d.emitter \in [Clients -> Clients \cup {NoOne}] /\ d.emitter[c] = p
      /\ \A x \in Clients : x # c => d.emitter[x] = free.emitter[x]
  BY <1>1, <1>4
<1>9. ASSUME NEW q \in Clients, NEW x \in Clients
      PROVE  Contains(d.children[q], x) <=>
               (Contains(t.children[q], x) /\ (x = c => q = p \/ q # t.emitter[c])) \/ (q = p /\ x = c)
  <2>1. Contains(free.children[q], x) <=>
          Contains(t.children[q], x) /\ (x = c => q = p \/ q # t.emitter[c])
    BY <1>3
  <2>2. CASE q = p
    <3>1. Contains(d.children[q], x) <=> Contains(free.children[q], x) \/ x = c
      BY <1>5, <1>6, <2>2
    <3> HIDE DEF old
    <3> QED
      BY <2>1, <2>2, <3>1, Zenon
  <2>3. CASE q # p
    <3>1. d.children[q] = free.children[q]
      BY <1>6, <2>3
    <3> HIDE DEF old
    <3> QED
      BY <2>1, <2>3, <3>1, Zenon
  <2> QED
    BY <2>2, <2>3
<1>10. Gained(d, t, p, c)
  BY <1>3, <1>6, <1>7, <1>8, <1>9 DEF Gained, TreeTyped
<1> QED
  BY <1>10 DEF d

\* The links still agree when c leaves its parent, or has none,
LEMMA LostIsLinked ==
  ASSUME NEW d, NEW t, NEW p \in Clients, NEW c \in Clients, Lost(d, t, p, c), Linked(t),
         t.up[c] \in {p, NoOne}
  PROVE  Linked(d)
<1>1. NoOne \notin Clients
  BY TelemetryAssumption
<1> SUFFICES ASSUME NEW q \in Clients, NEW x \in Clients
             PROVE  /\ Contains(d.children[q], x) <=> d.up[x] = q
                    /\ d.emitter[x] = q <=> d.up[x] = q
  BY DEF Linked
<1>2. /\ Contains(t.children[q], x) <=> t.up[x] = q
      /\ t.emitter[x] = q <=> t.up[x] = q
      /\ t.emitter[c] = q <=> t.up[c] = q
      /\ t.emitter[c] = p <=> t.up[c] = p
  BY DEF Linked
<1>3. CASE x # c
  BY <1>2, <1>3 DEF Lost
<1>4. CASE x = c
  <2>1. d.up[c] = NoOne /\ d.up[c] # q
    BY <1>1 DEF Lost
  <2>2. ~Contains(d.children[q], c)
    BY <1>1, <1>2, <1>4 DEF Lost
  <2>3. d.emitter[c] # q
    BY <1>1, <1>2 DEF Lost
  <2> QED
    BY <1>4, <2>1, <2>2, <2>3
<1> QED
  BY <1>3, <1>4

\* and when it comes to a parent.
LEMMA GainedIsLinked ==
  ASSUME NEW d, NEW t, NEW p \in Clients, NEW c \in Clients, Gained(d, t, p, c), Linked(t)
  PROVE  Linked(d)
<1> SUFFICES ASSUME NEW q \in Clients, NEW x \in Clients
             PROVE  /\ Contains(d.children[q], x) <=> d.up[x] = q
                    /\ d.emitter[x] = q <=> d.up[x] = q
  BY DEF Linked
<1>1. /\ Contains(t.children[q], x) <=> t.up[x] = q
      /\ t.emitter[x] = q <=> t.up[x] = q
  BY DEF Linked
<1>2. Contains(d.children[q], x) <=>
        (Contains(t.children[q], x) /\ (x = c => q = p \/ q # t.emitter[c])) \/ (q = p /\ x = c)
  BY DEF Gained
<1>3. CASE x # c
  <2>1. d.emitter[x] = t.emitter[x] /\ d.up[x] = t.up[x]
    BY <1>3 DEF Gained
  <2> QED
    BY <1>1, <1>2, <1>3, <2>1, Zenon
<1>4. CASE x = c
  <2>1. d.emitter[c] = p /\ d.up[c] = p
    BY DEF Gained
  <2> QED
    BY <1>1, <1>2, <1>4, <2>1
<1> QED
  BY <1>3, <1>4

\* Who has no children and no parent, or leaves it, has none when c leaves p.
LEMMA LostAlone ==
  ASSUME NEW d, NEW t, NEW p, NEW c, Lost(d, t, p, c), NEW x \in Clients,
         t.children[x] = <<>>, t.up[x] = NoOne \/ x = c
  PROVE  d.children[x] = <<>> /\ d.up[x] = NoOne
<1>1. d.children[x] \in Seq(Clients)
  BY DEF Lost, TreeTyped
<1>2. ASSUME NEW y \in Clients PROVE ~Contains(d.children[x], y)
  <2>1. ~Contains(<<>>, y)
    BY DEF Contains
  <2> QED
    BY <2>1 DEF Lost
<1>3. \A s \in Seq(Clients) : (\A y \in Clients : ~Contains(s, y)) => s = <<>>
  BY NoElements
<1>4. d.children[x] = <<>>
  BY <1>1, <1>2, <1>3
<1> QED
  BY <1>4 DEF Lost

\* A client lets go of all its children.
LEMMA ChildlessTree ==
  ASSUME TreeTyped(Tree), NEW c \in Clients
  PROVE  /\ TreeTyped(Childless(c))
         /\ Linked(Tree) => Linked(Childless(c))
         /\ Childless(c).children[c] = <<>>
         /\ Childless(c).up[c] \in {up[c], NoOne}
         /\ \A x \in Clients : children[x] = <<>> /\ up[x] = NoOne =>
              Childless(c).children[x] = <<>> /\ Childless(c).up[x] = NoOne
<1> DEFINE d == Childless(c)
           gone == ToSet(children[c])
<1>1. /\ emitter \in [Clients -> Clients \cup {NoOne}] /\ up \in [Clients -> Clients \cup {NoOne}]
      /\ children \in [Clients -> Seq(Clients)]
  BY DEF TreeTyped, Tree
<1>2. /\ d.emitter = [x \in Clients |-> IF x \in gone /\ emitter[x] = c THEN NoOne ELSE emitter[x]]
      /\ d.up = [x \in Clients |-> IF x \in gone THEN NoOne ELSE up[x]]
      /\ d.children = [children EXCEPT ![c] = <<>>]
  BY DEF Childless
<1>3. \A x : x \in gone <=> Contains(children[c], x)
  <2>1. DOMAIN children[c] = 1..Len(children[c])
    BY <1>1
  <2> QED
    BY <2>1 DEF ToSet, Contains
<1> HIDE DEF d, gone
<1>4. /\ d.emitter \in [Clients -> Clients \cup {NoOne}] /\ d.up \in [Clients -> Clients \cup {NoOne}]
      /\ d.children \in [Clients -> Seq(Clients)] /\ d.children[c] = <<>>
      /\ \A q \in Clients : q # c => d.children[q] = children[q]
  BY <1>1, <1>2
<1>5. TreeTyped(d)
  BY <1>4 DEF TreeTyped
<1>6. ASSUME Linked(Tree) PROVE Linked(d)
  <2>1. NoOne \notin Clients
    BY TelemetryAssumption
  <2> SUFFICES ASSUME NEW q \in Clients, NEW x \in Clients
               PROVE  /\ Contains(d.children[q], x) <=> d.up[x] = q
                      /\ d.emitter[x] = q <=> d.up[x] = q
    BY DEF Linked
  <2>2. /\ Contains(children[q], x) <=> up[x] = q
        /\ emitter[x] = q <=> up[x] = q
        /\ Contains(children[c], x) <=> up[x] = c
        /\ emitter[x] = c <=> up[x] = c
    BY <1>6 DEF Linked, Tree
  <2>3. ~Contains(<<>>, x)
    BY DEF Contains
  <2>4. CASE x \in gone
    BY <1>2, <1>3, <1>4, <2>1, <2>2, <2>3, <2>4
  <2>5. CASE x \notin gone
    <3>1. d.up[x] = up[x] /\ d.emitter[x] = emitter[x]
      BY <1>2, <2>5
    <3>2. CASE q = c
      BY <1>3, <1>4, <2>2, <2>3, <2>5, <3>1, <3>2
    <3>3. CASE q # c
      BY <1>4, <2>2, <3>1, <3>3
    <3> QED
      BY <3>2, <3>3
  <2> QED
    BY <2>4, <2>5
<1>7. d.up[c] \in {up[c], NoOne}
  BY <1>2
<1>8. \A x \in Clients : children[x] = <<>> /\ up[x] = NoOne =>
        d.children[x] = <<>> /\ d.up[x] = NoOne
  BY <1>2, <1>4
<1> QED
  BY <1>4, <1>5, <1>6, <1>7, <1>8 DEF d

-----------------------------------------------------------------------------
(* The stack of flushes. *)

\* Frames of s and st differ in what they have seen and in nothing else.
Alike(s, st) ==
  /\ Len(s) = Len(st)
  /\ \A i \in 1..Len(st) : /\ s[i].client = st[i].client /\ s[i].own = st[i].own
                           /\ s[i].todo = st[i].todo /\ s[i].busy = st[i].busy

\* What waits in the frames of st waits in those of s, with the same client.
Carries(s, st) ==
  /\ \A i \in 1..Len(s) :
       \/ s[i].todo = <<>>
       \/ \E j \in 1..Len(st) : s[i].client = st[j].client /\ s[i].todo = st[j].todo
  /\ \A j \in 1..Len(st) :
       \/ st[j].todo = <<>>
       \/ \E i \in 1..Len(s) : s[i].client = st[j].client /\ s[i].todo = st[j].todo

\* A stack of frames that can follow st.
Kept(s, st) == s \in Seq(FlushFrames) /\ Shaped(s) /\ Carries(s, st)

\* Unseen() touches what frames have seen.
LEMMA UnseenIsAlike ==
  ASSUME stack \in Seq(FlushFrames), NEW away
  PROVE  \A s : s = Unseen(away) => s \in Seq(FlushFrames) /\ Alike(s, stack)
<1> DEFINE n == Len(stack)
           F(f) == [f EXCEPT !.seen = @ \ away[f.client]]
<1>1. n \in Nat /\ DOMAIN stack = 1..n /\ \A i \in 1..n : stack[i] \in FlushFrames
  OBVIOUS
<1>2. ASSUME NEW f \in FlushFrames
      PROVE  /\ F(f) \in FlushFrames
             /\ F(f).client = f.client /\ F(f).own = f.own
             /\ F(f).todo = f.todo /\ F(f).busy = f.busy
  BY DEF FlushFrames
<1>3. Unseen(away) = [i \in 1..n |-> F(stack[i])]
  BY <1>1 DEF Unseen
<1> HIDE DEF F
<1> SUFFICES ASSUME NEW s, s = [i \in 1..n |-> F(stack[i])]
             PROVE  s \in Seq(FlushFrames) /\ Alike(s, stack)
  BY <1>3
<1>4. /\ s \in Seq(FlushFrames) /\ Len(s) = n
      /\ \A i \in 1..n : s[i] = F(stack[i])
  <2>1. \A i \in 1..n : F(stack[i]) \in FlushFrames
    BY <1>1, <1>2
  <2> HIDE DEF n
  <2> QED
    BY <1>1, <2>1
<1> QED
  BY <1>1, <1>2, <1>4 DEF Alike

\* Such stacks are as good as one another.
LEMMA AlikeIsKept ==
  ASSUME NEW st \in Seq(FlushFrames), Shaped(st), NEW s \in Seq(FlushFrames), Alike(s, st)
  PROVE  Kept(s, st)
<1>1. Shaped(s)
  BY DEF Shaped, Alike
<1>2. Carries(s, st)
  BY DEF Carries, Alike
<1> QED
  BY <1>1, <1>2 DEF Kept

\* The frame on top changes.
LEMMA TopReplaced ==
  ASSUME NEW st \in Seq(FlushFrames), st # <<>>, NEW f \in FlushFrames
  PROVE  \A s : s = [st EXCEPT ![Len(st)] = f] =>
           /\ s \in Seq(FlushFrames) /\ Len(s) = Len(st) /\ Len(st) \in Nat \ {0}
           /\ s[Len(st)] = f /\ \A i \in 1..(Len(st) - 1) : s[i] = st[i]
  OBVIOUS

\* It may as long as it is of the same client.
LEMMA ReplacedIsShaped ==
  ASSUME NEW st \in Seq(FlushFrames), st # <<>>, Shaped(st), NEW f \in FlushFrames,
         f.client = st[Len(st)].client, ~f.own => f.todo = <<>> /\ ~f.busy
  PROVE  Shaped([st EXCEPT ![Len(st)] = f])
<1>1. PICK s : s = [st EXCEPT ![Len(st)] = f]
  OBVIOUS
<1>2. PICK n : n = Len(st)
  OBVIOUS
<1>3. /\ s \in Seq(FlushFrames) /\ Len(s) = n /\ n \in Nat \ {0}
      /\ s[n] = f /\ \A i \in 1..(n - 1) : s[i] = st[i]
  BY <1>1, <1>2, TopReplaced
<1>4. \A i \in 1..n : i \in 1..(n - 1) \/ i = n
  BY <1>3
<1>5. \A i \in 1..n : s[i].client = st[i].client
  BY <1>2, <1>3, <1>4
<1>6. \A i, j \in 1..n : s[i].client = s[j].client => i = j
  BY <1>2, <1>5 DEF Shaped
<1>7. \A i \in 1..(n - 1) : i \in 1..n
  BY <1>3
<1>8. \A i \in 1..n : ~s[i].own => s[i].todo = <<>> /\ ~s[i].busy
  <2>1. \A i \in 1..n : ~st[i].own => st[i].todo = <<>> /\ ~st[i].busy
    BY <1>2 DEF Shaped
  <2> QED
    BY <1>3, <1>4, <2>1
<1>9. \A i \in 1..(n - 1) : s[i].own => s[i].busy
  BY <1>2, <1>3 DEF Shaped
<1>10. Shaped(s)
  BY <1>3, <1>6, <1>8, <1>9 DEF Shaped
<1> QED
  BY <1>1, <1>10

\* Nothing else follows when what it has to send stays.
LEMMA ReplacedIsKept ==
  ASSUME NEW st \in Seq(FlushFrames), st # <<>>, Shaped(st), NEW f \in FlushFrames,
         f.client = st[Len(st)].client, ~f.own => ~f.busy,
         f.todo = st[Len(st)].todo, st[Len(st)].own => f.own
  PROVE  Kept([st EXCEPT ![Len(st)] = f], st)
<1>1. PICK s : s = [st EXCEPT ![Len(st)] = f]
  OBVIOUS
<1>2. PICK n : n = Len(st)
  OBVIOUS
<1>3. /\ s \in Seq(FlushFrames) /\ Len(s) = n /\ n \in Nat \ {0}
      /\ s[n] = f /\ \A i \in 1..(n - 1) : s[i] = st[i]
  BY <1>1, <1>2, TopReplaced
<1>4. \A i \in 1..n : i \in 1..(n - 1) \/ i = n
  BY <1>3
<1>5. \A i \in 1..n : s[i].client = st[i].client /\ s[i].todo = st[i].todo
  BY <1>2, <1>3, <1>4
<1>6. Carries(s, st)
  BY <1>2, <1>3, <1>5 DEF Carries
<1>7. ~f.own => f.todo = <<>> /\ ~f.busy
  BY <1>2, <1>3 DEF Shaped
<1>8. Shaped(s)
  BY <1>1, <1>7, ReplacedIsShaped
<1> QED
  BY <1>1, <1>3, <1>6, <1>8 DEF Kept

\* A flush begins on top of frames that wait for a listener or for a child.
LEMMA PushedIsKept ==
  ASSUME NEW st \in Seq(FlushFrames), Shaped(st), NEW c \in Clients,
         \A i \in 1..Len(st) : st[i].client # c, \A i \in 1..Len(st) : st[i].own => st[i].busy
  PROVE  Kept(Append(st, Begun(c)), st)
<1>1. PICK f : f = Begun(c)
  OBVIOUS
<1>2. f \in FlushFrames /\ f.client = c /\ f.todo = <<>> /\ ~f.own /\ ~f.busy
  BY <1>1 DEF Begun, FlushFrames
<1>3. PICK s : s = Append(st, f)
  OBVIOUS
<1>4. PICK n : n = Len(st)
  OBVIOUS
<1>5. /\ s \in Seq(FlushFrames) /\ n \in Nat /\ Len(s) = n + 1
      /\ s[n + 1] = f /\ \A i \in 1..n : s[i] = st[i]
  BY <1>2, <1>3, <1>4
<1>6. /\ \A i \in 1..(n + 1) : i \in 1..n \/ i = n + 1
      /\ \A i \in 1..n : i \in 1..(n + 1) /\ i # n + 1
      /\ n + 1 - 1 = n
  BY <1>5
<1>7. ASSUME NEW i \in 1..(n + 1), NEW j \in 1..(n + 1), s[i].client = s[j].client PROVE i = j
  <2>1. CASE i = n + 1 /\ j = n + 1
    BY <2>1
  <2>2. CASE i # n + 1 /\ j = n + 1
    BY <1>2, <1>4, <1>5, <1>6, <1>7, <2>2
  <2>3. CASE i = n + 1 /\ j # n + 1
    BY <1>2, <1>4, <1>5, <1>6, <1>7, <2>3
  <2>4. CASE i # n + 1 /\ j # n + 1
    <3>1. i \in 1..n /\ j \in 1..n /\ st[i].client = st[j].client
      BY <1>5, <1>6, <1>7, <2>4
    <3> QED
      BY <1>4, <3>1 DEF Shaped
  <2> QED
    BY <2>1, <2>2, <2>3, <2>4
<1>8. \A i \in 1..(n + 1) : ~s[i].own => s[i].todo = <<>> /\ ~s[i].busy
  <2>1. \A i \in 1..n : ~st[i].own => st[i].todo = <<>> /\ ~st[i].busy
    BY <1>4 DEF Shaped
  <2> QED
    BY <1>2, <1>5, <1>6, <2>1
<1>9. \A i \in 1..n : s[i].own => s[i].busy
  BY <1>4, <1>5
<1>10. Shaped(s)
  BY <1>5, <1>6, <1>7, <1>8, <1>9 DEF Shaped
<1>11. Carries(s, st)
  BY <1>2, <1>4, <1>5, <1>6 DEF Carries
<1> QED
  BY <1>1, <1>3, <1>5, <1>10, <1>11 DEF Kept

\* Flushes end from the top, when they have nothing left to send.
LEMMA CutIsKept ==
  ASSUME NEW st \in Seq(FlushFrames), Shaped(st), NEW m \in 0..Len(st),
         \A i \in (m + 1)..Len(st) : st[i].todo = <<>>
  PROVE  Kept(SubSeq(st, 1, m), st)
<1>1. PICK s : s = SubSeq(st, 1, m)
  OBVIOUS
<1>2. PICK n : n = Len(st)
  OBVIOUS
<1>3. n \in Nat /\ m \in Nat /\ m <= n /\ \A i \in 1..n : st[i] \in FlushFrames
  BY <1>2
<1>4. s \in Seq(FlushFrames) /\ Len(s) = m /\ \A i \in 1..m : s[i] = st[i]
  BY <1>1, <1>2, <1>3
<1>5. /\ \A i \in 1..m : i \in 1..n
      /\ \A i \in 1..(m - 1) : i \in 1..(n - 1) /\ i \in 1..m
      /\ \A i \in 1..n : i \in 1..m \/ i \in (m + 1)..n
  BY <1>3
<1>6. Shaped(s)
  BY <1>2, <1>4, <1>5 DEF Shaped
<1>7. Carries(s, st)
  BY <1>2, <1>4, <1>5 DEF Carries
<1> QED
  BY <1>1, <1>4, <1>6, <1>7 DEF Kept

\* A bounded set of natural numbers has a greatest one.
LEMMA GreatestNat ==
  ASSUME NEW n \in Nat, NEW S, S \subseteq 0..n, S # {}
  PROVE  Max(S) \in S /\ \A y \in S : y <= Max(S)
<1> DEFINE T == {z \in 0..n : n - z \in S}
<1>1. \A y \in S : n - y \in 0..n /\ n - (n - y) = y
  OBVIOUS
<1>2. T \subseteq Nat /\ T # {} /\ \A y \in S : n - y \in T
  <2>1. \A y \in S : n - y \in T
    BY <1>1
  <2>2. T # {}
    BY <2>1
  <2> QED
    BY <2>1, <2>2
<1>3. PICK z \in T : \A y \in T : z <= y
  BY <1>2, LeastNat
<1> DEFINE x == n - z
<1>4. ASSUME NEW y \in S PROVE x >= y
  <2>1. z <= n - y /\ z \in 0..n /\ y \in 0..n
    BY <1>2, <1>3
  <2> QED
    BY <2>1
<1>5. \E u \in S : \A y \in S : u >= y
  BY <1>3, <1>4
<1>6. PICK w : w = Max(S)
  OBVIOUS
<1>7. w \in S /\ \A y \in S : w >= y
  BY <1>5, <1>6 DEF Max
<1> QED
  BY <1>6, <1>7

\* A flush that fails takes with it only those that have nothing to send.
LEMMA UnwoundIsKept ==
  ASSUME stack \in Seq(FlushFrames), stack # <<>>, Shaped(stack), Innermost.todo = <<>>
  PROVE  Kept(Unwound, stack)
<1> DEFINE S == {0} \cup {i \in 1..Len(stack) - 1 : stack[i].busy}
<1>1. PICK n : n = Len(stack)
  OBVIOUS
<1>2. n \in Nat \ {0}
  BY <1>1
<1>3. S \subseteq 0..(n - 1) /\ S # {} /\ n - 1 \in Nat
  BY <1>1, <1>2
<1>4. PICK m : m = Max(S)
  OBVIOUS
<1>5. m \in S /\ \A y \in S : y <= m
  <2> HIDE DEF S
  <2> QED
    BY <1>3, <1>4, GreatestNat
<1>6. m \in 0..(n - 1) /\ m \in 0..n
  BY <1>2, <1>3, <1>5
<1>7. ASSUME NEW i \in (m + 1)..n PROVE stack[i].todo = <<>>
  <2>1. CASE i = n
    BY <1>1, <2>1 DEF Innermost, Last
  <2>2. CASE i # n
    <3>1. i \in 1..(n - 1) /\ i \in 1..n /\ ~(i <= m)
      BY <1>2, <1>6, <2>2
    <3>2. ~stack[i].busy
      BY <1>1, <1>5, <3>1
    <3>3. ~stack[i].own
      BY <1>1, <3>1, <3>2 DEF Shaped
    <3> QED
      BY <1>1, <3>1, <3>3 DEF Shaped
  <2> QED
    BY <2>1, <2>2
<1>8. Kept(SubSeq(stack, 1, m), stack)
  BY <1>1, <1>6, <1>7, CutIsKept
<1> QED
  BY <1>4, <1>8 DEF Unwound

\* One that ends leaves those below it.
LEMMA FrontIsKept ==
  ASSUME stack \in Seq(FlushFrames), stack # <<>>, Shaped(stack), Innermost.todo = <<>>
  PROVE  Kept(Front(stack), stack)
<1>1. Len(stack) \in Nat \ {0}
  OBVIOUS
<1>2. Len(stack) - 1 \in 0..Len(stack) /\ \A i \in (Len(stack) - 1 + 1)..Len(stack) : i = Len(stack)
  BY <1>1
<1>3. Kept(SubSeq(stack, 1, Len(stack) - 1), stack)
  BY <1>2, CutIsKept DEF Innermost, Last
<1> QED
  BY <1>3 DEF Front

-----------------------------------------------------------------------------
(* The entries on their way. *)

\* What is in a list.
LEMMA Members ==
  ASSUME NEW T, NEW s \in Seq(T)
  PROVE  \A e : e \in ToSet(s) <=> \E i \in 1..Len(s) : s[i] = e
<1>1. DOMAIN s = 1..Len(s)
  OBVIOUS
<1> QED
  BY <1>1 DEF ToSet

\* The flow is about what the frames have to send, whatever else they hold.
LEMMA CarriedFlow ==
  ASSUME NEW q, NEW o \in Seq(Clients), NEW m, NEW ds, NEW st \in Seq(FlushFrames), NEW s,
         Flow(q, o, m, st, ds), Kept(s, st)
  PROVE  Flow(q, o, m, s, ds)
<1>1. Carries(s, st) /\ s \in Seq(FlushFrames)
  BY DEF Kept
<1>2. ASSUME NEW i \in 1..Len(s)
      PROVE  Awaits(s[i].todo, s[i].client, o, m) /\ TakenBefore(s[i].todo, q[s[i].client])
  <2>1. CASE s[i].todo = <<>>
    <3>1. Awaits(<<>>, s[i].client, o, m)
      BY DEF Awaits, Recorded, SentBefore
    <3>2. TakenBefore(<<>>, q[s[i].client])
      BY DEF TakenBefore
    <3> QED
      BY <2>1, <3>1, <3>2
  <2>2. CASE s[i].todo # <<>>
    <3>1. PICK j \in 1..Len(st) : s[i].client = st[j].client /\ s[i].todo = st[j].todo
      BY <1>1, <2>2 DEF Carries
    <3>2. Awaits(st[j].todo, st[j].client, o, m) /\ TakenBefore(st[j].todo, q[st[j].client])
      BY <3>1 DEF Flow
    <3> QED
      BY <3>1, <3>2
  <2> QED
    BY <2>1, <2>2
<1>3. ASSUME NEW e, NEW c, Sending(st, e, c) PROVE Sending(s, e, c)
  <2>1. PICK j \in 1..Len(st) : st[j].client = c /\ e \in ToSet(st[j].todo)
    BY <1>3 DEF Sending
  <2>2. st[j].todo # <<>>
    BY <2>1 DEF ToSet
  <2> QED
    BY <1>1, <2>1, <2>2 DEF Carries, Sending
<1> QED
  BY <1>2, <1>3 DEF Flow

\* An entry is queued behind all there are.
LEMMA EnqueuedFlow ==
  ASSUME NEW q \in [Clients -> Seq(Nat)], NEW o \in Seq(Clients), NEW m \in Seq(Nat), NEW ds,
         NEW st \in Seq(FlushFrames), Flow(q, o, m, st, ds), NEW c \in Clients,
         NEW q2, NEW o2, q2 = [q EXCEPT ![c] = Append(@, Len(o) + 1)], o2 = Append(o, c)
  PROVE  Flow(q2, o2, m, st, ds)
<1>1. PICK n : n = Len(o)
  OBVIOUS
<1>2. /\ n \in Nat /\ o2 \in Seq(Clients) /\ Len(o2) = n + 1 /\ o2[n + 1] = c
      /\ \A e \in 1..n : o2[e] = o[e] /\ e \in 1..(n + 1) /\ e < n + 1
      /\ \A e \in 1..(n + 1) : e \in 1..n \/ e = n + 1
      /\ n + 1 \in 1..(n + 1)
  BY <1>1
<1>3. /\ q2 \in [Clients -> Seq(Nat)] /\ q2[c] = Append(q[c], n + 1)
      /\ \A x \in Clients : x # c => q2[x] = q[x]
  BY <1>1, <1>2
<1>4. \A i \in 1..Len(m) : m[i] \in 1..n /\ o2[m[i]] = o[m[i]]
  BY <1>1, <1>2 DEF Flow
<1>5. ASSUME NEW s, NEW x, Awaits(s, x, o, m) PROVE Awaits(s, x, o2, m)
  <2>1. Recorded(s, x, o2)
    BY <1>1, <1>2, <1>5 DEF Awaits, Recorded
  <2>2. SentBefore(m, o2, x, s)
    BY <1>4, <1>5 DEF Awaits, SentBefore
  <2> QED
    BY <2>1, <2>2 DEF Awaits
<1>6. PICK t : t = q[c]
  OBVIOUS
<1>7. PICK u : u = q2[c]
  OBVIOUS
<1>8. PICK k : k = Len(t)
  OBVIOUS
<1>9. /\ t \in Seq(Nat) /\ k \in Nat /\ Len(u) = k + 1 /\ u[k + 1] = n + 1
      /\ \A i \in 1..k : u[i] = t[i] /\ i \in 1..(k + 1) /\ i < k + 1
      /\ \A i \in 1..(k + 1) : i \in 1..k \/ i = k + 1
      /\ k + 1 \in 1..(k + 1) /\ u \in Seq(Nat)
  <2>1. t \in Seq(Nat) /\ u = Append(t, n + 1) /\ n + 1 \in Nat
    BY <1>2, <1>3, <1>6, <1>7
  <2>2. /\ k \in Nat /\ Len(u) = k + 1 /\ u[k + 1] = n + 1 /\ u \in Seq(Nat)
        /\ \A i \in 1..k : u[i] = t[i]
    BY <1>8, <2>1
  <2>3. /\ \A i \in 1..k : i \in 1..(k + 1) /\ i < k + 1
        /\ \A i \in 1..(k + 1) : i \in 1..k \/ i = k + 1
        /\ k + 1 \in 1..(k + 1)
    BY <2>2
  <2> QED
    BY <2>1, <2>2, <2>3
<1>10. Awaits(t, c, o2, m) /\ \A i \in 1..k : t[i] \in 1..n
  <2>1. Awaits(t, c, o, m)
    BY <1>6 DEF Flow
  <2>2. \A i \in 1..k : t[i] \in 1..n
    BY <1>1, <1>8, <2>1 DEF Awaits, Recorded
  <2> QED
    BY <1>5, <2>1, <2>2
<1>11. Awaits(u, c, o2, m)
  <2>1. ASSUME NEW i \in 1..(k + 1) PROVE u[i] \in 1..(n + 1) /\ o2[u[i]] = c
    <3>1. CASE i = k + 1
      BY <1>2, <1>9, <3>1
    <3>2. CASE i # k + 1
      <4>1. i \in 1..k /\ u[i] = t[i]
        BY <1>9, <3>2
      <4> QED
        BY <1>2, <1>8, <1>10, <4>1 DEF Awaits, Recorded
    <3> QED
      BY <3>1, <3>2
  <2>2. ASSUME NEW i \in 1..(k + 1), NEW j \in 1..(k + 1), i < j PROVE u[i] < u[j]
    <3>1. i \in 1..k /\ u[i] = t[i] /\ t[i] \in 1..n
      BY <1>9, <1>10, <2>2
    <3>2. CASE j = k + 1
      BY <1>2, <1>9, <3>1, <3>2
    <3>3. CASE j # k + 1
      <4>1. j \in 1..k /\ u[j] = t[j]
        BY <1>9, <3>3
      <4> QED
        BY <1>8, <1>10, <2>2, <3>1, <4>1 DEF Awaits, Recorded
    <3> QED
      BY <3>2, <3>3
  <2>3. Recorded(u, c, o2)
    BY <1>2, <1>9, <2>1, <2>2 DEF Recorded
  <2>4. ASSUME NEW i \in 1..Len(m), o2[m[i]] = c, NEW j \in 1..(k + 1) PROVE m[i] < u[j]
    <3>1. CASE j = k + 1
      BY <1>2, <1>4, <1>9, <3>1
    <3>2. CASE j # k + 1
      BY <1>8, <1>9, <1>10, <2>4, <3>2 DEF Awaits, SentBefore
    <3> QED
      BY <3>1, <3>2
  <2>5. SentBefore(m, o2, c, u)
    BY <1>9, <2>4 DEF SentBefore
  <2> QED
    BY <2>3, <2>5 DEF Awaits
<1>12. ASSUME NEW x \in Clients PROVE Awaits(q2[x], x, o2, m)
  <2>1. CASE x = c
    BY <1>7, <1>11, <2>1
  <2>2. CASE x # c
    <3>1. Awaits(q[x], x, o, m)
      BY DEF Flow
    <3> QED
      BY <1>3, <1>5, <2>2, <3>1
  <2> QED
    BY <2>1, <2>2
<1>13. ASSUME NEW i \in 1..Len(st)
       PROVE  Awaits(st[i].todo, st[i].client, o2, m) /\ TakenBefore(st[i].todo, q2[st[i].client])
  <2>1. st[i] \in FlushFrames
    OBVIOUS
  <2>2. PICK x \in Clients : x = st[i].client
    BY <2>1 DEF FlushFrames
  <2>3. PICK s \in Seq(Nat) : s = st[i].todo
    BY <2>1 DEF FlushFrames
  <2>4. Awaits(s, x, o, m) /\ TakenBefore(s, q[x])
    BY <2>2, <2>3 DEF Flow
  <2>5. CASE x # c
    BY <1>3, <1>5, <2>2, <2>3, <2>4, <2>5
  <2>6. CASE x = c
    <3>1. \A a \in 1..Len(s) : s[a] \in 1..n
      BY <1>1, <2>4 DEF Awaits, Recorded
    <3>2. ASSUME NEW a \in 1..Len(s), NEW b \in 1..(k + 1) PROVE s[a] < u[b]
      <4>1. CASE b = k + 1
        BY <1>2, <1>9, <3>1, <4>1
      <4>2. CASE b # k + 1
        <5>1. b \in 1..k /\ u[b] = t[b]
          BY <1>9, <4>2
        <5> QED
          BY <1>6, <1>8, <2>4, <2>6, <5>1 DEF TakenBefore
      <4> QED
        BY <4>1, <4>2
    <3>3. TakenBefore(s, u)
      BY <1>9, <3>2 DEF TakenBefore
    <3> QED
      BY <1>5, <1>7, <2>2, <2>3, <2>4, <2>6, <3>3
  <2> QED
    BY <2>5, <2>6
<1>14. \A i, j \in 1..Len(m) : i < j /\ o2[m[i]] = o2[m[j]] => m[i] < m[j]
  BY <1>4 DEF Flow
<1>15. ASSUME NEW e \in 1..(n + 1)
       PROVE  e \in ToSet(m) \/ e \in ToSet(q2[o2[e]]) \/ Sending(st, e, o2[e]) \/ o2[e] \in ds
  <2>1. CASE e = n + 1
    <3>1. e \in ToSet(u)
      BY <1>9, <2>1, Members
    <3> QED
      BY <1>2, <1>7, <2>1, <3>1
  <2>2. CASE e # n + 1
    <3>1. e \in 1..n /\ o2[e] = o[e]
      BY <1>2, <2>2
    <3>2. PICK x \in Clients : x = o[e]
      BY <1>1, <3>1
    <3>3. e \in ToSet(m) \/ e \in ToSet(q[x]) \/ Sending(st, e, x) \/ x \in ds
      BY <1>1, <3>1, <3>2 DEF Flow
    <3>4. ASSUME e \in ToSet(q[x]) PROVE e \in ToSet(q2[x])
      <4>1. CASE x # c
        BY <1>3, <3>4, <4>1
      <4>2. CASE x = c
        <5>1. PICK i \in 1..k : t[i] = e
          BY <1>6, <1>8, <1>9, <3>4, <4>2, Members
        <5>2. u[i] = e /\ i \in 1..Len(u)
          BY <1>9, <5>1
        <5>3. e \in ToSet(u)
          BY <1>9, <5>2, Members
        <5> QED
          BY <1>7, <4>2, <5>3
      <4> QED
        BY <4>1, <4>2
    <3> QED
      BY <3>1, <3>2, <3>3, <3>4
  <2> QED
    BY <2>1, <2>2
<1>16. \A i \in 1..Len(m) : m[i] \in 1..Len(o2)
  BY <1>2, <1>4
<1> QED
  BY <1>2, <1>12, <1>13, <1>14, <1>15, <1>16 DEF Flow

\* A queue is dropped with its client.
LEMMA DroppedFlow ==
  ASSUME NEW q \in [Clients -> Seq(Nat)], NEW o \in Seq(Clients), NEW m, NEW ds, NEW st,
         Flow(q, o, m, st, ds), st \in Seq(FlushFrames), NEW c \in Clients
  PROVE  Flow([q EXCEPT ![c] = <<>>], o, m, st, ds \cup {c})
<1>1. PICK q2 : q2 = [q EXCEPT ![c] = <<>>]
  OBVIOUS
<1>2. q2[c] = <<>> /\ \A x \in Clients : x # c => q2[x] = q[x]
  BY <1>1
<1>3. ASSUME NEW x \in Clients PROVE Awaits(q2[x], x, o, m)
  <2>1. Awaits(<<>>, x, o, m)
    BY DEF Awaits, Recorded, SentBefore
  <2>2. Awaits(q[x], x, o, m)
    BY DEF Flow
  <2> QED
    BY <1>2, <2>1, <2>2
<1>4. ASSUME NEW i \in 1..Len(st)
      PROVE  Awaits(st[i].todo, st[i].client, o, m) /\ TakenBefore(st[i].todo, q2[st[i].client])
  <2>1. st[i] \in FlushFrames
    OBVIOUS
  <2>2. PICK x \in Clients : x = st[i].client
    BY <2>1 DEF FlushFrames
  <2>3. Awaits(st[i].todo, x, o, m) /\ TakenBefore(st[i].todo, q[x])
    BY <2>2 DEF Flow
  <2>4. TakenBefore(st[i].todo, <<>>)
    BY DEF TakenBefore
  <2>5. TakenBefore(st[i].todo, q2[x])
    BY <1>2, <2>3, <2>4
  <2> QED
    BY <2>2, <2>3, <2>5
<1>5. ASSUME NEW e \in 1..Len(o)
      PROVE  e \in ToSet(m) \/ e \in ToSet(q2[o[e]]) \/ Sending(st, e, o[e]) \/ o[e] \in ds \cup {c}
  <2>1. PICK x \in Clients : x = o[e]
    OBVIOUS
  <2>2. e \in ToSet(m) \/ e \in ToSet(q[x]) \/ Sending(st, e, x) \/ x \in ds
    BY <2>1 DEF Flow
  <2> QED
    BY <1>2, <2>1, <2>2
<1>6. /\ \A i \in 1..Len(m) : m[i] \in 1..Len(o)
      /\ \A i, j \in 1..Len(m) : i < j /\ o[m[i]] = o[m[j]] => m[i] < m[j]
  BY DEF Flow
<1>7. Flow(q2, o, m, st, ds \cup {c})
  BY <1>3, <1>4, <1>5, <1>6 DEF Flow
<1> QED
  BY <1>1, <1>7

\* A queue is taken by the frame on top.
LEMMA TakenFlow ==
  ASSUME NEW q \in [Clients -> Seq(Nat)], NEW o \in Seq(Clients), NEW m, NEW ds,
         NEW st \in Seq(FlushFrames), st # <<>>, Shaped(st), Flow(q, o, m, st, ds),
         NEW f \in FlushFrames, f.client = st[Len(st)].client, f.todo = q[f.client],
         st[Len(st)].todo = <<>>
  PROVE  Flow([q EXCEPT ![f.client] = <<>>], o, m, [st EXCEPT ![Len(st)] = f], ds)
<1>1. PICK c \in Clients : c = f.client
  BY DEF FlushFrames
<1>2. PICK q2 : q2 = [q EXCEPT ![c] = <<>>]
  OBVIOUS
<1>3. q2[c] = <<>> /\ \A x \in Clients : x # c => q2[x] = q[x]
  BY <1>2
<1>4. PICK s : s = [st EXCEPT ![Len(st)] = f]
  OBVIOUS
<1>5. PICK n : n = Len(st)
  OBVIOUS
<1>6. /\ s \in Seq(FlushFrames) /\ Len(s) = n /\ n \in Nat \ {0}
      /\ s[n] = f /\ \A i \in 1..(n - 1) : s[i] = st[i]
  BY <1>4, <1>5, TopReplaced
<1>7. /\ \A i \in 1..n : i \in 1..(n - 1) \/ i = n
      /\ \A i \in 1..(n - 1) : i \in 1..n /\ i # n
      /\ n \in 1..n
  BY <1>6
<1>8. ASSUME NEW x \in Clients PROVE Awaits(q2[x], x, o, m)
  <2>1. Awaits(<<>>, x, o, m)
    BY DEF Awaits, Recorded, SentBefore
  <2>2. Awaits(q[x], x, o, m)
    BY DEF Flow
  <2> QED
    BY <1>3, <2>1, <2>2
<1>9. ASSUME NEW i \in 1..n
      PROVE  Awaits(s[i].todo, s[i].client, o, m) /\ TakenBefore(s[i].todo, q2[s[i].client])
  <2>1. CASE i = n
    <3>1. s[i].todo = q[c] /\ s[i].client = c
      BY <1>1, <1>6, <2>1
    <3>2. Awaits(q[c], c, o, m)
      BY DEF Flow
    <3>3. TakenBefore(q[c], <<>>)
      BY DEF TakenBefore
    <3> QED
      BY <1>3, <3>1, <3>2, <3>3
  <2>2. CASE i # n
    <3>1. s[i] = st[i] /\ i \in 1..(n - 1)
      BY <1>6, <1>7, <2>2
    <3>2. PICK x \in Clients : x = st[i].client
      <4>1. st[i] \in FlushFrames
        BY <1>5
      <4> QED
        BY <4>1 DEF FlushFrames
    <3>3. x # c
      BY <1>1, <1>5, <1>7, <2>2, <3>2 DEF Shaped
    <3>4. Awaits(st[i].todo, x, o, m) /\ TakenBefore(st[i].todo, q[x])
      BY <1>5, <3>2 DEF Flow
    <3> QED
      BY <1>3, <3>1, <3>2, <3>3, <3>4
  <2> QED
    BY <2>1, <2>2
<1>10. ASSUME NEW e \in 1..Len(o)
       PROVE  e \in ToSet(m) \/ e \in ToSet(q2[o[e]]) \/ Sending(s, e, o[e]) \/ o[e] \in ds
  <2>1. PICK x \in Clients : x = o[e]
    OBVIOUS
  <2>2. e \in ToSet(m) \/ e \in ToSet(q[x]) \/ Sending(st, e, x) \/ x \in ds
    BY <2>1 DEF Flow
  <2>3. ASSUME e \in ToSet(q[x]) PROVE e \in ToSet(q2[x]) \/ Sending(s, e, x)
    <3>1. CASE x # c
      BY <1>3, <2>3, <3>1
    <3>2. CASE x = c
      BY <1>1, <1>6, <1>7, <2>3, <3>2 DEF Sending
    <3> QED
      BY <3>1, <3>2
  <2>4. ASSUME Sending(st, e, x) PROVE Sending(s, e, x)
    <3>1. PICK i \in 1..n : st[i].client = x /\ e \in ToSet(st[i].todo)
      BY <1>5, <2>4 DEF Sending
    <3>2. i # n
      BY <1>5, <3>1 DEF ToSet
    <3> QED
      BY <1>6, <1>7, <3>1, <3>2 DEF Sending
  <2> QED
    BY <2>1, <2>2, <2>3, <2>4
<1>11. /\ \A i \in 1..Len(m) : m[i] \in 1..Len(o)
       /\ \A i, j \in 1..Len(m) : i < j /\ o[m[i]] = o[m[j]] => m[i] < m[j]
  BY DEF Flow
<1>12. Flow(q2, o, m, s, ds)
  BY <1>6, <1>8, <1>9, <1>10, <1>11 DEF Flow
<1> QED
  BY <1>1, <1>2, <1>4, <1>12

\* The frame on top sends the first of what it took.
LEMMA SentFlow ==
  ASSUME NEW q \in [Clients -> Seq(Nat)], NEW o \in Seq(Clients), NEW m \in Seq(Nat), NEW ds,
         NEW st \in Seq(FlushFrames), st # <<>>, Shaped(st), Flow(q, o, m, st, ds),
         NEW t \in Seq(Nat), t = st[Len(st)].todo, t # <<>>,
         NEW f \in FlushFrames, f.client = st[Len(st)].client, f.todo = Tail(t)
  PROVE  Flow(q, o, Append(m, Head(t)), [st EXCEPT ![Len(st)] = f], ds)
<1>1. PICK c \in Clients : c = f.client
  BY DEF FlushFrames
<1>2. PICK s : s = [st EXCEPT ![Len(st)] = f]
  OBVIOUS
<1>3. PICK n : n = Len(st)
  OBVIOUS
<1>4. /\ s \in Seq(FlushFrames) /\ Len(s) = n /\ n \in Nat \ {0}
      /\ s[n] = f /\ \A i \in 1..(n - 1) : s[i] = st[i]
  BY <1>2, <1>3, TopReplaced
<1>5. /\ \A i \in 1..n : i \in 1..(n - 1) \/ i = n
      /\ \A i \in 1..(n - 1) : i \in 1..n /\ i # n
      /\ n \in 1..n
  BY <1>4
<1>6. PICK e1 : e1 = Head(t)
  OBVIOUS
<1>7. PICK w : w = Tail(t)
  OBVIOUS
<1>8. PICK k : k = Len(t)
  OBVIOUS
<1>9. /\ k \in Nat \ {0} /\ e1 = t[1] /\ w \in Seq(Nat) /\ Len(w) = k - 1
      /\ \A i \in 1..(k - 1) : w[i] = t[i + 1] /\ i + 1 \in 1..k /\ 1 < i + 1
      /\ 1 \in 1..k /\ e1 \in Nat
      /\ \A i \in 1..k : i = 1 \/ (i - 1 \in 1..(k - 1) /\ i - 1 + 1 = i)
  BY <1>6, <1>7, <1>8
<1>10. Awaits(t, c, o, m) /\ TakenBefore(t, q[c])
  BY <1>1, <1>3, <1>5 DEF Flow
<1>11. e1 \in 1..Len(o) /\ o[e1] = c /\ \A i \in 1..(k - 1) : e1 < w[i]
  <2>1. e1 \in 1..Len(o) /\ o[e1] = c
    BY <1>8, <1>9, <1>10 DEF Awaits, Recorded
  <2>2. ASSUME NEW i \in 1..(k - 1) PROVE e1 < w[i]
    <3>1. t[1] < t[i + 1]
      BY <1>8, <1>9, <1>10 DEF Awaits, Recorded
    <3> QED
      BY <1>9, <3>1
  <2> QED
    BY <2>1, <2>2
<1>12. PICK m2 : m2 = Append(m, e1)
  OBVIOUS
<1>13. PICK l : l = Len(m)
  OBVIOUS
<1>14. /\ l \in Nat /\ m2 \in Seq(Nat) /\ Len(m2) = l + 1 /\ m2[l + 1] = e1
       /\ \A i \in 1..l : m2[i] = m[i]
  <2>1. e1 \in Nat
    BY <1>9
  <2> QED
    BY <1>12, <1>13, <2>1
<1>15. /\ \A i \in 1..l : i \in 1..(l + 1) /\ i < l + 1
       /\ \A i \in 1..(l + 1) : i \in 1..l \/ i = l + 1
       /\ l + 1 \in 1..(l + 1)
  BY <1>14
<1>16. ASSUME NEW x, NEW v, Awaits(v, x, o, m), x = c => \A j \in 1..Len(v) : e1 < v[j]
       PROVE  Awaits(v, x, o, m2)
  <2>1. SentBefore(m2, o, x, v)
    <3>1. ASSUME NEW i \in 1..(l + 1), o[m2[i]] = x, NEW j \in 1..Len(v) PROVE m2[i] < v[j]
      <4>1. CASE i = l + 1
        BY <1>11, <1>14, <1>16, <3>1, <4>1
      <4>2. CASE i # l + 1
        BY <1>13, <1>14, <1>15, <1>16, <3>1, <4>2 DEF Awaits, SentBefore
      <4> QED
        BY <4>1, <4>2
    <3> QED
      BY <1>14, <3>1 DEF SentBefore
  <2> QED
    BY <1>16, <2>1 DEF Awaits
<1>17. ASSUME NEW x \in Clients PROVE Awaits(q[x], x, o, m2)
  <2>1. Awaits(q[x], x, o, m)
    BY DEF Flow
  <2>2. x = c => \A j \in 1..Len(q[x]) : e1 < q[x][j]
    BY <1>8, <1>9, <1>10 DEF TakenBefore
  <2> QED
    BY <1>16, <2>1, <2>2
<1>18. Awaits(w, c, o, m2) /\ TakenBefore(w, q[c])
  <2>1. Recorded(w, c, o)
    <3>1. \A i \in 1..(k - 1) : w[i] \in 1..Len(o) /\ o[w[i]] = c
      <4>1. \A i \in 1..k : t[i] \in 1..Len(o) /\ o[t[i]] = c
        BY <1>8, <1>10 DEF Awaits, Recorded
      <4> QED
        BY <1>9, <4>1
    <3>2. ASSUME NEW i \in 1..(k - 1), NEW j \in 1..(k - 1), i < j PROVE w[i] < w[j]
      <4>1. i + 1 < j + 1 /\ i + 1 \in 1..k /\ j + 1 \in 1..k
        BY <1>9, <3>2
      <4>2. t[i + 1] < t[j + 1]
        BY <1>8, <1>10, <4>1 DEF Awaits, Recorded
      <4> QED
        BY <1>9, <4>2
    <3> QED
      BY <1>9, <3>1, <3>2 DEF Recorded
  <2>2. SentBefore(m, o, c, w)
    BY <1>8, <1>9, <1>10 DEF Awaits, SentBefore
  <2>3. TakenBefore(w, q[c])
    BY <1>8, <1>9, <1>10 DEF TakenBefore
  <2>4. Awaits(w, c, o, m)
    BY <2>1, <2>2 DEF Awaits
  <2> QED
    BY <1>9, <1>11, <1>16, <2>3, <2>4
<1>19. ASSUME NEW i \in 1..n
       PROVE  Awaits(s[i].todo, s[i].client, o, m2) /\ TakenBefore(s[i].todo, q[s[i].client])
  <2>1. CASE i = n
    BY <1>1, <1>4, <1>7, <1>18, <2>1
  <2>2. CASE i # n
    <3>1. s[i] = st[i] /\ i \in 1..(n - 1)
      BY <1>4, <1>5, <2>2
    <3>2. PICK x : x = st[i].client
      OBVIOUS
    <3>3. x # c
      BY <1>1, <1>3, <1>5, <2>2, <3>2 DEF Shaped
    <3>4. Awaits(st[i].todo, x, o, m) /\ TakenBefore(st[i].todo, q[x])
      BY <1>3, <3>2 DEF Flow
    <3>5. Awaits(st[i].todo, x, o, m2)
      BY <1>16, <3>3, <3>4
    <3> QED
      BY <3>1, <3>2, <3>4, <3>5
  <2> QED
    BY <2>1, <2>2
<1>20. ASSUME NEW i \in 1..(l + 1) PROVE m2[i] \in 1..Len(o)
  <2>1. CASE i = l + 1
    BY <1>11, <1>14, <2>1
  <2>2. CASE i # l + 1
    <3>1. i \in 1..l /\ m2[i] = m[i]
      BY <1>14, <1>15, <2>2
    <3> QED
      BY <1>13, <3>1 DEF Flow
  <2> QED
    BY <2>1, <2>2
<1>21. ASSUME NEW i \in 1..(l + 1), NEW j \in 1..(l + 1), i < j, o[m2[i]] = o[m2[j]]
       PROVE  m2[i] < m2[j]
  <2>1. i \in 1..l /\ m2[i] = m[i]
    <3>1. l \in Nat /\ i < j
      BY <1>14, <1>21
    <3>2. i \in 1..l
      BY <3>1
    <3> QED
      BY <1>14, <3>2
  <2>2. CASE j = l + 1
    <3>1. o[m[i]] = c
      <4>1. m2[j] = e1 /\ o[e1] = c
        BY <1>11, <1>14, <2>2
      <4> QED
        BY <1>21, <2>1, <4>1
    <3>2. m[i] < t[1]
      BY <1>8, <1>9, <1>10, <1>13, <2>1, <3>1 DEF Awaits, SentBefore
    <3> QED
      BY <1>9, <1>14, <2>1, <2>2, <3>2
  <2>3. CASE j # l + 1
    BY <1>13, <1>14, <1>15, <1>21, <2>1, <2>3 DEF Flow
  <2> QED
    BY <2>2, <2>3
<1>22. ASSUME NEW e \in 1..Len(o)
       PROVE  e \in ToSet(m2) \/ e \in ToSet(q[o[e]]) \/ Sending(s, e, o[e]) \/ o[e] \in ds
  <2>1. PICK x \in Clients : x = o[e]
    OBVIOUS
  <2>2. e \in ToSet(m) \/ e \in ToSet(q[x]) \/ Sending(st, e, x) \/ x \in ds
    BY <2>1 DEF Flow
  <2>3. \A a : a \in ToSet(m2) <=> \E i \in 1..(l + 1) : m2[i] = a
    <3>1. m2 \in Seq(Nat) /\ Len(m2) = l + 1
      BY <1>14
    <3>2. \A a : a \in ToSet(m2) <=> \E i \in 1..Len(m2) : m2[i] = a
      BY <3>1, Members
    <3> QED
      BY <3>1, <3>2
  <2>4. ASSUME e \in ToSet(m) PROVE e \in ToSet(m2)
    <3>1. PICK i \in 1..l : m[i] = e
      BY <1>13, <2>4, Members
    <3> QED
      BY <1>14, <1>15, <2>3, <3>1
  <2>5. ASSUME Sending(st, e, x) PROVE e \in ToSet(m2) \/ Sending(s, e, x)
    <3>1. PICK i \in 1..n : st[i].client = x /\ e \in ToSet(st[i].todo)
      BY <1>3, <2>5 DEF Sending
    <3>2. CASE i # n
      BY <1>4, <1>5, <3>1, <3>2 DEF Sending
    <3>3. CASE i = n
      <4>1. PICK a \in 1..k : t[a] = e
        BY <1>3, <1>8, <3>1, <3>3, Members
      <4>2. CASE a = 1
        BY <1>9, <1>14, <1>15, <2>3, <4>1, <4>2
      <4>3. CASE a # 1
        <5>1. a - 1 \in 1..(k - 1) /\ w[a - 1] = e
          BY <1>9, <4>1, <4>3
        <5>2. e \in ToSet(w)
          BY <1>9, <5>1, Members
        <5> QED
          BY <1>1, <1>3, <1>4, <1>5, <1>7, <3>1, <3>3, <5>2 DEF Sending
      <4> QED
        BY <4>2, <4>3
    <3> QED
      BY <3>2, <3>3
  <2> QED
    BY <2>1, <2>2, <2>4, <2>5
<1>23. \A x \in Clients : Awaits(q[x], x, o, m2)
  BY <1>17
<1>24. Flow(q, o, m2, s, ds)
  BY <1>4, <1>14, <1>19, <1>20, <1>21, <1>22, <1>23 DEF Flow
<1> QED
  BY <1>2, <1>6, <1>12, <1>24

-----------------------------------------------------------------------------
(* The operations. *)

\* What Become() sets is what Tree is next.
LEMMA BecomeTree ==
  ASSUME NEW t, Become(t)
  PROVE  /\ TreeTyped(t) => TreeTyped(Tree)'
         /\ Linked(t) => Linked(Tree)'
         /\ \A x \in Clients : t.children[x] = <<>> /\ t.up[x] = NoOne =>
              children'[x] = <<>> /\ up'[x] = NoOne
  BY DEF Become, TreeTyped, Linked, Tree

\* Every operation leaves a tree.
LEMMA TreeStep ==
  ASSUME ClientTyped, [Next]_vars
  PROVE  TreeTyped(Tree)'
<1>1. TreeTyped(Tree) /\ \A x \in Clients : up[x] \in Clients \cup {NoOne}
  BY DEF ClientTyped, TreeTyped, Tree
<1>2. ASSUME NEW p \in Clients, NEW c \in Clients, AddChild(p, c) \/ Fork(p, c)
      PROVE  TreeTyped(Tree)'
  <2>1. Gained(Attached(p, c, Tree), Tree, p, c)
    BY <1>1, AttachedIsGained
  <2>2. Become(Attached(p, c, Tree))
    BY <1>2 DEF AddChild, Fork
  <2> QED
    BY <2>1, <2>2, BecomeTree DEF Gained
<1>3. ASSUME NEW p \in Clients, NEW c \in Clients, RemoveChild(p, c) PROVE TreeTyped(Tree)'
  <2>1. Lost(Detached(p, c, Tree), Tree, p, c)
    BY <1>1, DetachedIsLost
  <2>2. Become(Detached(p, c, Tree))
    BY <1>3 DEF RemoveChild
  <2> QED
    BY <2>1, <2>2, BecomeTree DEF Lost
<1>4. ASSUME NEW c \in Clients, Dispose(c) PROVE TreeTyped(Tree)'
  <2>1. TreeTyped(Childless(c))
    BY <1>1, ChildlessTree
  <2>2. CASE up[c] = NoOne
    <3>1. Become(Childless(c))
      BY <1>4, <2>2 DEF Dispose
    <3> QED
      BY <2>1, <3>1, BecomeTree
  <2>3. CASE up[c] # NoOne
    <3>1. up[c] \in Clients
      BY <1>1, <2>3
    <3>2. Lost(Detached(up[c], c, Childless(c)), Childless(c), up[c], c)
      BY <2>1, <3>1, DetachedIsLost
    <3>3. Become(Detached(up[c], c, Childless(c)))
      BY <1>4, <2>3 DEF Dispose
    <3> QED
      BY <3>2, <3>3, BecomeTree DEF Lost
  <2> QED
    BY <2>2, <2>3
<1>5. CASE UNCHANGED tree
  <2>1. Tree' = Tree
    BY <1>5 DEF Tree, tree
  <2> QED
    BY <1>1, <1>5 DEF TreeTyped, Tree, tree
<1>6. ASSUME NEW c \in Clients, Record(c) \/ StartTimer(c) \/ Freeze(c) \/ Flush(c)
      PROVE  UNCHANGED tree
  BY <1>6 DEF Record, StartTimer, Freeze, Flush
<1>7. ASSUME NEW c, NEW n, NEW m, Mark(c, n) \/ Measure(c, n, m) PROVE UNCHANGED tree
  BY <1>7 DEF Mark, Measure
<1>8. ASSUME NEW m, MeasureFrom(m) \/ ClearMark(m) \/ Stop(m) \/ Cancel(m) PROVE UNCHANGED tree
  BY <1>8 DEF MeasureFrom, ClearMark, Stop, Cancel
<1>9. ASSUME FlushChild \/ TakeQueue \/ Send \/ FinishFlush PROVE UNCHANGED tree
  BY <1>9 DEF FlushChild, TakeQueue, Send, FinishFlush
<1>10. ASSUME NEW throws, Sent(throws) PROVE UNCHANGED tree
  BY <1>10 DEF Sent
<1>11. UNCHANGED vars => UNCHANGED tree
  BY DEF vars, tree
<1> QED
  BY <1>2, <1>3, <1>4, <1>5, <1>6, <1>7, <1>8, <1>9, <1>10, <1>11 DEF Next, Use

\* A mark that is forgotten is not found.
LEMMA ForgetTyped ==
  ASSUME TimersTyped(handles, marks, named), NEW m \in DOMAIN marks
  PROVE  Forget(m) \in [Clients -> [Names -> 0..Len(marks)]]
<1>1. marks[m] \in TimerMarks
  BY DEF TimersTyped
<1>2. PICK c \in Clients, n \in Names : c = marks[m].client /\ n = marks[m].name
  BY <1>1 DEF TimerMarks
<1>3. named \in [Clients -> [Names -> 0..Len(marks)]] /\ Len(marks) \in Nat
  BY DEF TimersTyped
<1>4. Forget(m) = [named EXCEPT ![c] = [named[c] EXCEPT ![n] = IF @ = m THEN 0 ELSE @]]
  BY <1>2, <1>3 DEF Forget
<1>5. 0 \in 0..Len(marks)
  BY <1>3
<1>6. PICK v \in [Names -> 0..Len(marks)] : v = [named[c] EXCEPT ![n] = IF @ = m THEN 0 ELSE @]
  BY <1>3, <1>5
<1> QED
  BY <1>3, <1>4, <1>6

\* A handle is over, or a mark cleared: the others are what they were.
LEMMA EndedTyped ==
  ASSUME NEW T, NEW s \in Seq(T), NEW h \in DOMAIN s, NEW f \in T
  PROVE  [s EXCEPT ![h] = f] \in Seq(T)
  OBVIOUS

\* Every operation leaves handles, marks and what is found by name.
LEMMA TimersStep ==
  ASSUME ClientTyped, [Next]_vars
  PROVE  TimersTyped(handles, marks, named)'
<1>1. /\ TimersTyped(handles, marks, named)
      /\ handles \in Seq(TimerHandles) /\ marks \in Seq(TimerMarks)
      /\ named \in [Clients -> [Names -> 0..Len(marks)]] /\ Len(marks) \in Nat
  BY DEF ClientTyped, TimersTyped
<1>2. CASE UNCHANGED timers
  BY <1>1, <1>2 DEF timers, TimersTyped
<1>3. ASSUME NEW c \in Clients, StartTimer(c) PROVE TimersTyped(handles, marks, named)'
  <2>1. Handle(c, 0) \in TimerHandles
    BY DEF Handle, TimerHandles
  <2>2. handles' = Append(handles, Handle(c, 0)) /\ marks' = marks /\ named' = named
    BY <1>3 DEF StartTimer
  <2>3. handles' \in Seq(TimerHandles)
    BY <1>1, <2>1, <2>2
  <2> QED
    BY <1>1, <2>2, <2>3 DEF TimersTyped
<1>4. ASSUME NEW m \in DOMAIN marks, MeasureFrom(m) PROVE TimersTyped(handles, marks, named)'
  <2>1. marks[m] \in TimerMarks /\ m \in Nat
    BY <1>1
  <2>2. Handle(marks[m].client, m) \in TimerHandles
    BY <2>1 DEF Handle, TimerHandles, TimerMarks
  <2>3. handles' = Append(handles, Handle(marks[m].client, m)) /\ marks' = marks /\ named' = named
    BY <1>4 DEF MeasureFrom
  <2>4. handles' \in Seq(TimerHandles)
    BY <1>1, <2>2, <2>3
  <2> QED
    BY <1>1, <2>3, <2>4 DEF TimersTyped
<1>5. ASSUME NEW c \in Clients, NEW n \in Names, Mark(c, n)
      PROVE  TimersTyped(handles, marks, named)'
  <2>1. [client |-> c, name |-> n, cleared |-> FALSE] \in TimerMarks
    BY DEF TimerMarks
  <2>2. /\ handles' = handles
        /\ marks' = Append(marks, [client |-> c, name |-> n, cleared |-> FALSE])
        /\ named' = [named EXCEPT ![c][n] = Len(marks')]
    BY <1>5 DEF Mark
  <2>3. marks' \in Seq(TimerMarks) /\ Len(marks') = Len(marks) + 1
    BY <1>1, <2>1, <2>2
  <2>4. \A k \in 0..Len(marks) : k \in 0..Len(marks')
    BY <1>1, <2>3
  <2>5. named \in [Clients -> [Names -> 0..Len(marks')]]
    BY <1>1, <2>4
  <2>6. Len(marks') \in 0..Len(marks')
    BY <1>1, <2>3
  <2>7. named' \in [Clients -> [Names -> 0..Len(marks')]]
    BY <2>2, <2>5, <2>6
  <2> QED
    BY <1>1, <2>2, <2>3, <2>7 DEF TimersTyped
<1>6. ASSUME NEW m \in DOMAIN marks, ClearMark(m) PROVE TimersTyped(handles, marks, named)'
  <2>1. /\ handles' = handles /\ marks' = [marks EXCEPT ![m].cleared = TRUE]
        /\ named' = Forget(m)
    BY <1>6 DEF ClearMark
  <2>2. marks[m] \in TimerMarks
    BY <1>1
  <2>3. PICK f \in TimerMarks : f = [marks[m] EXCEPT !.cleared = TRUE]
    BY <2>2 DEF TimerMarks
  <2>4. marks' = [marks EXCEPT ![m] = f]
    BY <2>1, <2>3
  <2>5. marks' \in Seq(TimerMarks) /\ Len(marks') = Len(marks)
    BY <1>1, <2>4
  <2>6. named' \in [Clients -> [Names -> 0..Len(marks)]]
    BY <1>1, <2>1, ForgetTyped
  <2> QED
    BY <1>1, <2>1, <2>5, <2>6 DEF TimersTyped
<1>7. ASSUME NEW h \in DOMAIN handles, Stop(h) \/ Cancel(h)
      PROVE  TimersTyped(handles, marks, named)'
  <2>1. handles' = [handles EXCEPT ![h].state = "over"]
    BY <1>7 DEF Stop, Cancel
  <2>2. marks' = marks /\ named' = named
    BY <1>7 DEF Stop, Cancel
  <2>3. handles[h] \in TimerHandles
    BY <1>1
  <2>4. PICK f \in TimerHandles : f = [handles[h] EXCEPT !.state = "over"]
    BY <2>3 DEF TimerHandles
  <2>5. handles' = [handles EXCEPT ![h] = f]
    BY <2>1, <2>4
  <2>6. handles' \in Seq(TimerHandles)
    BY <1>1, <2>5
  <2> QED
    BY <1>1, <2>2, <2>6 DEF TimersTyped
<1>8. ASSUME NEW c \in Clients, Dispose(c) PROVE TimersTyped(handles, marks, named)'
  <2>1. /\ handles' = [h \in DOMAIN handles |->
                         IF handles[h].client = c /\ handles[h].state = "running"
                         THEN [handles[h] EXCEPT !.state = "over"] ELSE handles[h]]
        /\ marks' = ClearedBy(c)
        /\ named' = [named EXCEPT ![c] = [n \in Names |-> 0]]
    BY <1>8 DEF Dispose
  <2>2. \A f \in TimerHandles : [f EXCEPT !.state = "over"] \in TimerHandles
    BY DEF TimerHandles
  <2>3. \A f \in TimerMarks : [f EXCEPT !.cleared = TRUE] \in TimerMarks
    BY DEF TimerMarks
  <2>4. handles' \in Seq(TimerHandles)
    <3>1. DOMAIN handles = 1..Len(handles) /\ Len(handles) \in Nat
      BY <1>1
    <3>2. \A h \in 1..Len(handles) : handles[h] \in TimerHandles
      BY <1>1
    <3>3. handles' \in [1..Len(handles) -> TimerHandles]
      BY <2>1, <2>2, <3>1, <3>2
    <3> QED
      BY <3>1, <3>3
  <2>5. marks' \in Seq(TimerMarks) /\ Len(marks') = Len(marks)
    <3>1. DOMAIN marks = 1..Len(marks)
      BY <1>1
    <3>2. \A m \in 1..Len(marks) : marks[m] \in TimerMarks
      BY <1>1
    <3>3. marks' \in [1..Len(marks) -> TimerMarks]
      BY <2>1, <2>3, <3>1, <3>2 DEF ClearedBy
    <3>4. PICK k \in Nat : k = Len(marks)
      BY <1>1
    <3>5. marks' \in [1..k -> TimerMarks]
      BY <3>3, <3>4
    <3>6. marks' \in Seq(TimerMarks) /\ Len(marks') = k
      BY <3>5
    <3> QED
      BY <3>4, <3>6
  <2>6. named' \in [Clients -> [Names -> 0..Len(marks)]]
    <3>1. [n \in Names |-> 0] \in [Names -> 0..Len(marks)]
      BY <1>1
    <3> QED
      BY <1>1, <2>1, <3>1
  <2> QED
    BY <2>4, <2>5, <2>6 DEF TimersTyped
<1>9. ASSUME NEW p, NEW c, AddChild(p, c) \/ RemoveChild(p, c) \/ Fork(p, c) PROVE UNCHANGED timers
  BY <1>9 DEF AddChild, RemoveChild, Fork
<1>10. ASSUME NEW c, Record(c) \/ Freeze(c) \/ Flush(c) PROVE UNCHANGED timers
  BY <1>10 DEF Record, Freeze, Flush
<1>11. ASSUME NEW c, NEW n, NEW m, Measure(c, n, m) PROVE UNCHANGED timers
  BY <1>11 DEF Measure
<1>12. ASSUME FlushChild \/ TakeQueue \/ Send \/ FinishFlush PROVE UNCHANGED timers
  BY <1>12 DEF FlushChild, TakeQueue, Send, FinishFlush
<1>13. ASSUME NEW throws, Sent(throws) PROVE UNCHANGED timers
  BY <1>13 DEF Sent
<1>14. UNCHANGED vars => UNCHANGED timers
  BY DEF vars, timers
<1> QED
  BY <1>2, <1>3, <1>4, <1>5, <1>6, <1>7, <1>8, <1>9, <1>10, <1>11, <1>12, <1>13, <1>14
  DEF Next, Use

\* Every operation leaves clients that are frozen or disposed among those that exist.
LEMMA ClientsStep ==
  ASSUME ClientTyped, [Next]_vars
  PROVE  ClientsTyped(born, frozen, disposed)' /\ disposed \subseteq disposed'
<1>1. ClientsTyped(born, frozen, disposed)
  BY DEF ClientTyped
<1>2. CASE UNCHANGED <<born, frozen, disposed>>
  BY <1>1, <1>2 DEF ClientsTyped
<1>3. ASSUME NEW p \in Clients, NEW c \in Clients, AddChild(p, c) \/ RemoveChild(p, c) \/ Fork(p, c)
      PROVE  ClientsTyped(born, frozen, disposed)' /\ disposed \subseteq disposed'
  BY <1>1, <1>3 DEF AddChild, RemoveChild, Fork, ClientsTyped
<1>4. ASSUME NEW c \in Clients, Freeze(c) \/ Dispose(c)
      PROVE  ClientsTyped(born, frozen, disposed)' /\ disposed \subseteq disposed'
  BY <1>1, <1>4 DEF Freeze, Dispose, Live, ClientsTyped
<1>5. ASSUME NEW c, Record(c) \/ StartTimer(c) \/ Flush(c)
      PROVE  UNCHANGED <<born, frozen, disposed>>
  BY <1>5 DEF Record, StartTimer, Flush
<1>6. ASSUME NEW c, NEW n, NEW m, Mark(c, n) \/ Measure(c, n, m)
      PROVE  UNCHANGED <<born, frozen, disposed>>
  BY <1>6 DEF Mark, Measure
<1>7. ASSUME NEW m, MeasureFrom(m) \/ ClearMark(m) \/ Stop(m) \/ Cancel(m)
      PROVE  UNCHANGED <<born, frozen, disposed>>
  BY <1>7 DEF MeasureFrom, ClearMark, Stop, Cancel
<1>8. ASSUME FlushChild \/ TakeQueue \/ Send \/ FinishFlush
      PROVE  UNCHANGED <<born, frozen, disposed>>
  BY <1>8 DEF FlushChild, TakeQueue, Send, FinishFlush
<1>9. ASSUME NEW throws, Sent(throws) PROVE UNCHANGED <<born, frozen, disposed>>
  BY <1>9 DEF Sent
<1>10. UNCHANGED vars => UNCHANGED <<born, frozen, disposed>>
  BY DEF vars
<1> QED
  BY <1>2, <1>3, <1>4, <1>5, <1>6, <1>7, <1>8, <1>9, <1>10 DEF Next, Use

\* What the flow is made of, next.
Onward ==
  /\ EntriesTyped(queue', owner', sent') /\ stack' \in Seq(FlushFrames) /\ Shaped(stack')
  /\ Flow(queue', owner', sent', stack', disposed')

\* An operation that only changes the frames on the stack lets the entries flow.
LEMMA StackStep ==
  ASSUME FlowInv, Kept(stack', stack), UNCHANGED <<queue, owner, sent, disposed>>
  PROVE  Onward
<1>1. /\ EntriesTyped(queue, owner, sent) /\ stack \in Seq(FlushFrames)
      /\ Flow(queue, owner, sent, stack, disposed) /\ owner \in Seq(Clients)
  BY DEF FlowInv, ClientTyped, EntriesTyped
<1>2. Flow(queue, owner, sent, stack', disposed)
  BY <1>1, CarriedFlow
<1>3. Shaped(stack') /\ stack' \in Seq(FlushFrames)
  BY DEF Kept
<1> QED
  BY <1>1, <1>2, <1>3 DEF Onward

\* So does one that does not even do that,
LEMMA QuietStep ==
  ASSUME FlowInv, UNCHANGED <<queue, owner, sent, disposed, stack>>
  PROVE  Onward
  BY DEF FlowInv, ClientTyped, Onward

\* and one that records.
LEMMA EnqueueStep ==
  ASSUME FlowInv, NEW c \in Clients, Enqueue(c), UNCHANGED <<sent, disposed, stack>>
  PROVE  Onward
<1>1. /\ queue \in [Clients -> Seq(Nat)] /\ owner \in Seq(Clients) /\ sent \in Seq(Nat)
      /\ stack \in Seq(FlushFrames) /\ Shaped(stack)
      /\ Flow(queue, owner, sent, stack, disposed)
  BY DEF FlowInv, ClientTyped, EntriesTyped
<1>2. /\ queue' = [queue EXCEPT ![c] = Append(@, Len(owner) + 1)]
      /\ owner' = Append(owner, c)
  BY DEF Enqueue
<1>3. Flow(queue', owner', sent, stack, disposed)
  BY <1>1, <1>2, EnqueuedFlow
<1>4. EntriesTyped(queue', owner', sent)
  <2>1. Append(queue[c], Len(owner) + 1) \in Seq(Nat)
    BY <1>1
  <2> QED
    BY <1>1, <1>2, <2>1 DEF EntriesTyped
<1> QED
  BY <1>1, <1>3, <1>4 DEF Onward

\* Sets walked as they are: forgetting what was seen changes nothing else.
LEMMA UnseenIsKept ==
  ASSUME FlowInv, NEW away, stack' = Unseen(away)
  PROVE  Kept(stack', stack)
<1>1. stack \in Seq(FlushFrames) /\ Shaped(stack)
  BY DEF FlowInv, ClientTyped
<1>2. stack' \in Seq(FlushFrames) /\ Alike(stack', stack)
  BY <1>1, UnseenIsAlike
<1> QED
  BY <1>1, <1>2, AlikeIsKept

\* What is carried twice is carried.
LEMMA CarriedOn ==
  ASSUME NEW r, NEW s, NEW st, Carries(r, s), Carries(s, st)
  PROVE  Carries(r, st)
<1>1. ASSUME NEW i \in 1..Len(r), r[i].todo # <<>>
      PROVE  \E j \in 1..Len(st) : r[i].client = st[j].client /\ r[i].todo = st[j].todo
  <2>1. PICK k \in 1..Len(s) : r[i].client = s[k].client /\ r[i].todo = s[k].todo
    BY <1>1 DEF Carries
  <2>2. PICK j \in 1..Len(st) : s[k].client = st[j].client /\ s[k].todo = st[j].todo
    BY <1>1, <2>1 DEF Carries
  <2> QED
    BY <2>1, <2>2
<1>2. ASSUME NEW j \in 1..Len(st), st[j].todo # <<>>
      PROVE  \E i \in 1..Len(r) : r[i].client = st[j].client /\ r[i].todo = st[j].todo
  <2>1. PICK k \in 1..Len(s) : s[k].client = st[j].client /\ s[k].todo = st[j].todo
    BY <1>2 DEF Carries
  <2>2. PICK i \in 1..Len(r) : r[i].client = s[k].client /\ r[i].todo = s[k].todo
    BY <1>2, <2>1 DEF Carries
  <2> QED
    BY <2>1, <2>2
<1> QED
  BY <1>1, <1>2 DEF Carries

\* A flush of a child begins, or has nothing to do, or fails.
LEMMA FlushChildIsKept ==
  ASSUME FlowInv, FlushChild
  PROVE  Kept(stack', stack)
<1>1. /\ stack \in Seq(FlushFrames) /\ Shaped(stack) /\ stack # <<>>
      /\ ~Innermost.own /\ ~Innermost.busy /\ Innermost = stack[Len(stack)]
      /\ children \in [Clients -> Seq(Clients)]
  BY DEF FlowInv, ClientTyped, TreeTyped, Tree, FlushChild, Turn, Innermost, Last
<1>2. PICK n : n = Len(stack)
  OBVIOUS
<1>3. /\ n \in Nat \ {0} /\ n \in 1..n /\ stack[n] \in FlushFrames
      /\ \A i \in 1..n : i \in 1..(n - 1) \/ i = n
  BY <1>1, <1>2
<1>4. PICK f \in FlushFrames : f = Innermost
  BY <1>1, <1>2, <1>3
<1>5. f.todo = <<>> /\ f.client \in Clients /\ f.seen \subseteq Clients
  BY <1>1, <1>2, <1>3, <1>4 DEF Shaped, FlushFrames
<1>6. PICK c : /\ \E i \in DOMAIN Listed : c = Listed[i]
               /\ stack' = IF c \in disposed THEN Unwound
                           ELSE IF Flushing(c)
                                THEN [stack EXCEPT ![Len(stack)].seen = @ \cup {c}]
                                ELSE Append([stack EXCEPT ![Len(stack)].seen = @ \cup {c}], Begun(c))
  BY DEF FlushChild
<1>7. c \in Clients
  BY <1>1, <1>4, <1>5, <1>6 DEF Listed
<1>8. PICK g \in FlushFrames : g = [f EXCEPT !.seen = @ \cup {c}]
  BY <1>5, <1>7 DEF FlushFrames
<1>9. /\ g.client = f.client /\ g.own = f.own /\ g.busy = f.busy /\ g.todo = f.todo
  BY <1>8 DEF FlushFrames
<1>10. PICK below : below = [stack EXCEPT ![n] = g]
  OBVIOUS
<1>11. below = [stack EXCEPT ![Len(stack)].seen = @ \cup {c}]
  BY <1>1, <1>2, <1>4, <1>8, <1>10
<1>12. Kept(below, stack)
  BY <1>1, <1>2, <1>4, <1>9, <1>10, ReplacedIsKept
<1>13. CASE c \in disposed
  <2>1. stack' = Unwound
    BY <1>6, <1>13
  <2> QED
    BY <1>1, <1>4, <1>5, <2>1, UnwoundIsKept
<1>14. CASE c \notin disposed /\ Flushing(c)
  BY <1>6, <1>11, <1>12, <1>14
<1>15. CASE c \notin disposed /\ ~Flushing(c)
  <2>1. stack' = Append(below, Begun(c))
    BY <1>6, <1>11, <1>15
  <2>2. /\ Len(below) = n /\ below[n] = g /\ below \in Seq(FlushFrames)
        /\ \A i \in 1..(n - 1) : below[i] = stack[i]
    BY <1>1, <1>2, <1>10, TopReplaced
  <2>3. \A i \in 1..n : stack[i].client # c
    BY <1>1, <1>2, <1>15 DEF Flushing
  <2>4. \A i \in 1..n : below[i].client # c
    BY <1>1, <1>2, <1>3, <1>4, <1>9, <2>2, <2>3
  <2>5. \A i \in 1..n : below[i].own => below[i].busy
    <3>1. \A i \in 1..(n - 1) : stack[i].own => stack[i].busy
      BY <1>1, <1>2 DEF Shaped
    <3> QED
      BY <1>1, <1>3, <1>4, <1>9, <2>2, <3>1
  <2>6. Shaped(below)
    BY <1>12 DEF Kept
  <2>7. Kept(Append(below, Begun(c)), below)
    BY <1>7, <2>2, <2>4, <2>5, <2>6, PushedIsKept
  <2>8. Carries(stack', stack)
    BY <1>12, <2>1, <2>7, CarriedOn DEF Kept
  <2> QED
    BY <2>1, <2>7, <2>8 DEF Kept
<1> QED
  BY <1>13, <1>14, <1>15

\* A flush begins where code runs.
LEMMA FlushIsKept ==
  ASSUME FlowInv, NEW c \in Clients, Flush(c)
  PROVE  Kept(stack', stack)
<1>1. stack \in Seq(FlushFrames) /\ Shaped(stack) /\ stack' = Append(stack, Begun(c))
  BY DEF FlowInv, ClientTyped, Flush
<1>2. PICK n : n = Len(stack)
  OBVIOUS
<1>3. n \in Nat /\ \A i \in 1..n : i \in 1..(n - 1) \/ (i = n /\ stack # <<>>)
  BY <1>1, <1>2
<1>4. stack # <<>> => stack[n].busy
  BY <1>2 DEF Flush, CodeRuns, Last
<1>5. \A i \in 1..n : stack[i].own => stack[i].busy
  <2>1. \A i \in 1..(n - 1) : stack[i].own => stack[i].busy
    BY <1>1, <1>2 DEF Shaped
  <2> QED
    BY <1>3, <1>4, <2>1
<1>6. \A i \in 1..n : stack[i].client # c
  BY <1>1, <1>2 DEF Flush, Flushing
<1> QED
  BY <1>1, <1>2, <1>5, <1>6, PushedIsKept

\* The listeners are through.
LEMMA SentIsKept ==
  ASSUME FlowInv, NEW throws \in BOOLEAN, Sent(throws)
  PROVE  Kept(stack', stack)
<1>1. /\ stack \in Seq(FlushFrames) /\ Shaped(stack) /\ stack # <<>>
      /\ Innermost = stack[Len(stack)] /\ Innermost.busy
      /\ stack' = [stack EXCEPT ![Len(stack)] =
                     [Innermost EXCEPT !.busy = FALSE, !.failed = @ \/ throws]]
  BY DEF FlowInv, ClientTyped, Sent, Replace, Innermost, Last
<1>2. PICK n : n = Len(stack)
  OBVIOUS
<1>3. n \in Nat \ {0} /\ stack[n] \in FlushFrames
  BY <1>1, <1>2
<1>4. PICK f \in FlushFrames : f = Innermost
  BY <1>1, <1>2, <1>3
<1>5. PICK b \in BOOLEAN : b = (f.failed \/ throws)
  BY <1>4 DEF FlushFrames
<1>6. PICK g : g = [f EXCEPT !.busy = FALSE, !.failed = b]
  OBVIOUS
<1>7. /\ g \in FlushFrames /\ g.client = f.client /\ g.own = f.own /\ g.todo = f.todo
      /\ ~g.busy
  BY <1>6 DEF FlushFrames
<1>8. g = [Innermost EXCEPT !.busy = FALSE, !.failed = @ \/ throws]
  BY <1>4, <1>5, <1>6
<1>9. Kept([stack EXCEPT ![Len(stack)] = g], stack)
  BY <1>1, <1>4, <1>7, ReplacedIsKept
<1> QED
  BY <1>1, <1>8, <1>9

\* A flush takes the queue of its client,
LEMMA TakeQueueStep ==
  ASSUME FlowInv, TakeQueue
  PROVE  Onward
<1>1. /\ queue \in [Clients -> Seq(Nat)] /\ owner \in Seq(Clients) /\ sent \in Seq(Nat)
      /\ stack \in Seq(FlushFrames) /\ Shaped(stack)
      /\ Flow(queue, owner, sent, stack, disposed)
  BY DEF FlowInv, ClientTyped, EntriesTyped
<1>2. /\ stack # <<>> /\ Innermost = stack[Len(stack)] /\ ~Innermost.own /\ ~Innermost.busy
      /\ stack' = [stack EXCEPT ![Len(stack)] =
                     [Innermost EXCEPT !.seen = {}, !.own = TRUE, !.todo = queue[Innermost.client]]]
      /\ queue' = [queue EXCEPT ![Innermost.client] = <<>>]
      /\ UNCHANGED <<owner, sent, disposed>>
  BY DEF TakeQueue, Replace, Turn, Innermost, Last
<1>3. PICK n : n = Len(stack)
  OBVIOUS
<1>4. n \in Nat \ {0} /\ n \in 1..n /\ stack[n] \in FlushFrames
  BY <1>1, <1>2, <1>3
<1>5. PICK f \in FlushFrames : f = Innermost
  BY <1>2, <1>3, <1>4
<1>6. f.client \in Clients /\ queue[f.client] \in Seq(Nat)
  BY <1>1 DEF FlushFrames
<1>7. PICK g : g = [f EXCEPT !.seen = {}, !.own = TRUE, !.todo = queue[f.client]]
  OBVIOUS
<1>8. /\ g \in FlushFrames /\ g.client = f.client /\ g.own /\ g.todo = queue[g.client]
  BY <1>6, <1>7 DEF FlushFrames
<1>9. stack' = [stack EXCEPT ![Len(stack)] = g] /\ queue' = [queue EXCEPT ![g.client] = <<>>]
  BY <1>2, <1>5, <1>7, <1>8
<1>10. /\ stack[Len(stack)].todo = <<>> /\ g.client = stack[Len(stack)].client
       /\ stack # <<>> /\ g \in FlushFrames /\ g.own /\ g.todo = queue[g.client]
  BY <1>1, <1>2, <1>3, <1>4, <1>5, <1>8 DEF Shaped
<1>11. Flow([queue EXCEPT ![g.client] = <<>>], owner, sent,
            [stack EXCEPT ![Len(stack)] = g], disposed)
  BY <1>1, <1>10, TakenFlow
<1>12. stack' \in Seq(FlushFrames)
  BY <1>1, <1>2, <1>8, <1>9, TopReplaced
<1>13. Shaped([stack EXCEPT ![Len(stack)] = g])
  BY <1>1, <1>10, ReplacedIsShaped
<1>14. EntriesTyped(queue', owner, sent)
  BY <1>1, <1>6, <1>8, <1>9 DEF EntriesTyped
<1> QED
  BY <1>2, <1>9, <1>11, <1>12, <1>13, <1>14 DEF Onward

\* and sends what it took.
LEMMA SendStep ==
  ASSUME FlowInv, Send
  PROVE  Onward
<1>1. /\ queue \in [Clients -> Seq(Nat)] /\ owner \in Seq(Clients) /\ sent \in Seq(Nat)
      /\ stack \in Seq(FlushFrames) /\ Shaped(stack)
      /\ Flow(queue, owner, sent, stack, disposed)
  BY DEF FlowInv, ClientTyped, EntriesTyped
<1>2. /\ stack # <<>> /\ Innermost = stack[Len(stack)] /\ Innermost.own
      /\ Innermost.todo # <<>>
      /\ sent' = Append(sent, Head(Innermost.todo))
      /\ stack' = [stack EXCEPT ![Len(stack)] = [Innermost EXCEPT !.busy = TRUE, !.todo = Tail(@)]]
      /\ UNCHANGED <<queue, owner, disposed>>
  BY DEF Send, Replace, Turn, Innermost, Last, entries
<1>3. PICK n : n = Len(stack)
  OBVIOUS
<1>4. n \in Nat \ {0} /\ stack[n] \in FlushFrames
  BY <1>1, <1>2, <1>3
<1>5. PICK f \in FlushFrames : f = Innermost
  BY <1>2, <1>3, <1>4
<1>6. PICK t \in Seq(Nat) : t = f.todo
  BY DEF FlushFrames
<1>7. t # <<>> /\ Tail(t) \in Seq(Nat) /\ Head(t) \in Nat
  BY <1>2, <1>5, <1>6
<1>8. PICK w \in Seq(Nat) : w = Tail(t)
  BY <1>7
<1>9. PICK g : g = [f EXCEPT !.busy = TRUE, !.todo = w]
  OBVIOUS
<1>10. g \in FlushFrames /\ g.client = f.client /\ g.own = f.own /\ g.todo = w
  BY <1>8, <1>9 DEF FlushFrames
<1>11. stack' = [stack EXCEPT ![Len(stack)] = g] /\ sent' = Append(sent, Head(t))
  BY <1>2, <1>5, <1>6, <1>8, <1>9
<1>12. /\ t = stack[Len(stack)].todo /\ g.client = stack[Len(stack)].client /\ g.todo = Tail(t)
       /\ g.own
  BY <1>2, <1>5, <1>6, <1>8, <1>10
<1>13. Flow(queue, owner, Append(sent, Head(t)), [stack EXCEPT ![Len(stack)] = g], disposed)
  BY <1>1, <1>2, <1>7, <1>10, <1>12, SentFlow
<1>14. stack' \in Seq(FlushFrames)
  BY <1>1, <1>2, <1>10, <1>11, TopReplaced
<1>15. Shaped(stack')
  BY <1>1, <1>2, <1>10, <1>11, <1>12, ReplacedIsShaped
<1>16. EntriesTyped(queue, owner, sent')
  BY <1>1, <1>7, <1>11 DEF EntriesTyped
<1> QED
  BY <1>2, <1>11, <1>13, <1>14, <1>15, <1>16 DEF Onward

\* A flush ends.
LEMMA FinishIsKept ==
  ASSUME FlowInv, FinishFlush
  PROVE  Kept(stack', stack)
<1>1. /\ stack \in Seq(FlushFrames) /\ Shaped(stack) /\ stack # <<>> /\ Innermost.todo = <<>>
      /\ stack' = IF Innermost.failed THEN Unwound ELSE Front(stack)
  BY DEF FlowInv, ClientTyped, FinishFlush, Turn
<1>2. Kept(Unwound, stack) /\ Kept(Front(stack), stack)
  BY <1>1, UnwoundIsKept, FrontIsKept
<1> QED
  BY <1>1, <1>2

\* A disposal drops the queue.
LEMMA DisposeStep ==
  ASSUME FlowInv, NEW c \in Clients, Dispose(c)
  PROVE  Onward
<1>1. /\ queue \in [Clients -> Seq(Nat)] /\ owner \in Seq(Clients) /\ sent \in Seq(Nat)
      /\ stack \in Seq(FlushFrames) /\ Shaped(stack)
      /\ Flow(queue, owner, sent, stack, disposed)
  BY DEF FlowInv, ClientTyped, EntriesTyped
<1>2. /\ queue' = [queue EXCEPT ![c] = <<>>] /\ disposed' = disposed \cup {c}
      /\ UNCHANGED <<owner, sent>>
      /\ stack' = Unseen([AwayFrom(up[c], c) EXCEPT ![c] = ToSet(children[c])])
  BY DEF Dispose
<1>3. Kept(stack', stack)
  BY <1>2, UnseenIsKept
<1>4. Flow(queue', owner, sent, stack, disposed')
  BY <1>1, <1>2, DroppedFlow
<1>5. Flow(queue', owner, sent, stack', disposed')
  BY <1>1, <1>3, <1>4, CarriedFlow
<1>6. EntriesTyped(queue', owner, sent)
  BY <1>1, <1>2 DEF EntriesTyped
<1>7. Shaped(stack') /\ stack' \in Seq(FlushFrames)
  BY <1>3 DEF Kept
<1> QED
  BY <1>2, <1>5, <1>6, <1>7 DEF Onward

\* Every operation lets the entries flow.
LEMMA OnwardStep ==
  ASSUME FlowInv, [Next]_vars
  PROVE  Onward
<1>1. ClientTyped
  BY DEF FlowInv
<1>2. ASSUME NEW p \in Clients, NEW c \in Clients, AddChild(p, c) PROVE Onward
  <2>1. UNCHANGED <<queue, owner, sent, disposed>>
    BY <1>2 DEF AddChild, entries
  <2>2. stack' = Unseen(AwayFrom(emitter[c], c)) \/ stack' = stack
    BY <1>2 DEF AddChild
  <2> QED
    BY <2>1, <2>2, UnseenIsKept, StackStep, QuietStep
<1>3. ASSUME NEW p \in Clients, NEW c \in Clients, RemoveChild(p, c) PROVE Onward
  <2>1. UNCHANGED <<queue, owner, sent, disposed>> /\ stack' = Unseen(AwayFrom(p, c))
    BY <1>3 DEF RemoveChild, entries
  <2> QED
    BY <2>1, UnseenIsKept, StackStep
<1>4. ASSUME NEW p, NEW c, Fork(p, c) PROVE Onward
  BY <1>4, QuietStep DEF Fork, entries
<1>5. ASSUME NEW c, Freeze(c) \/ StartTimer(c) PROVE Onward
  BY <1>5, QuietStep DEF Freeze, StartTimer, entries
<1>6. ASSUME NEW c, NEW n, Mark(c, n) PROVE Onward
  BY <1>6, QuietStep DEF Mark, entries
<1>7. ASSUME NEW m, MeasureFrom(m) \/ ClearMark(m) \/ Cancel(m) PROVE Onward
  BY <1>7, QuietStep DEF MeasureFrom, ClearMark, Cancel, entries
<1>8. ASSUME NEW c \in Clients, Record(c) PROVE Onward
  BY <1>8, EnqueueStep DEF Record
<1>9. ASSUME NEW c \in Clients, NEW n, NEW m, Measure(c, n, m) PROVE Onward
  BY <1>9, EnqueueStep DEF Measure
<1>10. ASSUME NEW h \in DOMAIN handles, Stop(h) PROVE Onward
  <2>1. UNCHANGED <<sent, disposed, stack>>
    BY <1>10 DEF Stop
  <2>2. UNCHANGED <<queue, owner>> \/ Enqueue(handles[h].client)
    BY <1>10 DEF Stop, entries
  <2>3. handles[h].client \in Clients
    <3>1. handles[h] \in TimerHandles
      BY <1>1 DEF ClientTyped, TimersTyped
    <3> QED
      BY <3>1 DEF TimerHandles
  <2> QED
    BY <2>1, <2>2, <2>3, QuietStep, EnqueueStep
<1>11. ASSUME NEW c \in Clients, Flush(c) PROVE Onward
  BY <1>11, FlushIsKept, StackStep DEF Flush, entries
<1>12. CASE FlushChild
  BY <1>12, FlushChildIsKept, StackStep DEF FlushChild, entries
<1>13. CASE FinishFlush
  BY <1>13, FinishIsKept, StackStep DEF FinishFlush, entries
<1>14. ASSUME NEW throws \in BOOLEAN, Sent(throws) PROVE Onward
  BY <1>14, SentIsKept, StackStep DEF Sent, entries
<1>15. ASSUME NEW c \in Clients, Dispose(c) PROVE Onward
  BY <1>15, DisposeStep
<1>16. UNCHANGED vars => Onward
  BY QuietStep DEF vars
<1> QED
  BY <1>2, <1>3, <1>4, <1>5, <1>6, <1>7, <1>8, <1>9, <1>10, <1>11, <1>12, <1>13, <1>14,
     <1>15, <1>16, TakeQueueStep, SendStep DEF Next, Use

\* The flow of entries is an invariant.
LEMMA FlowStep ==
  ASSUME FlowInv, [Next]_vars
  PROVE  FlowInv'
<1>1. ClientTyped
  BY DEF FlowInv
<1>2. TreeTyped(Tree)' /\ ClientsTyped(born, frozen, disposed)' /\ TimersTyped(handles, marks, named)'
  BY <1>1, TreeStep, ClientsStep, TimersStep
<1>3. Onward
  BY OnwardStep
<1> QED
  BY <1>2, <1>3 DEF FlowInv, ClientTyped, Onward

\* At first there is nothing but a client.
LEMMA AtFirst ==
  ASSUME Init
  PROVE  FlowInv /\ Linked(Tree) /\ disposed = {}
<1>1. ClientTyped
  <2>1. TreeTyped(Tree)
    BY DEF Init, TreeTyped, Tree
  <2>2. EntriesTyped(queue, owner, sent) /\ ClientsTyped(born, frozen, disposed)
    BY DEF Init, EntriesTyped, ClientsTyped
  <2>3. TimersTyped(handles, marks, named)
    BY DEF Init, TimersTyped
  <2>4. stack \in Seq(FlushFrames)
    BY DEF Init
  <2> QED
    BY <2>1, <2>2, <2>3, <2>4 DEF ClientTyped
<1>2. Shaped(stack)
  BY DEF Init, Shaped
<1>3. Flow(queue, owner, sent, stack, disposed)
  BY DEF Init, Flow, Awaits, Recorded, SentBefore
<1>4. Linked(Tree)
  BY TelemetryAssumption DEF Init, Linked, Tree, Contains
<1> QED
  BY <1>1, <1>2, <1>3, <1>4 DEF FlowInv, Init

\* Every execution has a flow that nothing disturbs, whatever callers do.
THEOREM FlowInductive == Spec => []FlowInv
<1>1. Init => FlowInv
  BY AtFirst
<1>2. FlowInv /\ [Next]_vars => FlowInv'
  BY FlowStep
<1> QED
  BY <1>1, <1>2, PTL DEF Spec

\* An invariant flow has variables of their kinds,
LEMMA FlowIsTyped ==
  ASSUME FlowInv
  PROVE  TypeOK
<1>1. /\ queue \in [Clients -> Seq(Nat)] /\ owner \in Seq(Clients)
      /\ \A c \in Clients : Recorded(queue[c], c, owner)
  BY DEF FlowInv, ClientTyped, EntriesTyped, Flow, Awaits
<1>2. ASSUME NEW c \in Clients PROVE queue[c] \in Seq(1..Len(owner))
  <2>1. PICK s \in Seq(Nat) : s = queue[c]
    BY <1>1
  <2>2. \A i \in 1..Len(s) : s[i] \in 1..Len(owner)
    BY <1>1, <2>1 DEF Recorded
  <2>3. s \in Seq(1..Len(owner))
    BY <2>2
  <2> QED
    BY <2>1, <2>3
<1>3. queue \in [Clients -> Seq(1..Len(owner))]
  BY <1>1, <1>2
<1>4. /\ emitter \in [Clients -> Clients \cup {NoOne}] /\ up \in [Clients -> Clients \cup {NoOne}]
      /\ children \in [Clients -> Seq(Clients)]
  BY DEF FlowInv, ClientTyped, TreeTyped, Tree
<1>5. named \in [Clients -> [Names -> 0..Len(marks)]]
  BY DEF FlowInv, ClientTyped, TimersTyped
<1>6. \A h \in DOMAIN handles : handles[h].state \in {"running", "over"}
  <2>1. \A h \in DOMAIN handles : handles[h] \in TimerHandles
    BY DEF FlowInv, ClientTyped, TimersTyped
  <2> QED
    BY <2>1 DEF TimerHandles
<1>7. frozen \cup disposed \subseteq born /\ born \subseteq Clients
  BY DEF FlowInv, ClientTyped, ClientsTyped
<1> QED
  BY <1>1, <1>3, <1>4, <1>5, <1>6, <1>7 DEF TypeOK

\* and has lost nothing.
LEMMA FlowLosesNothing ==
  ASSUME FlowInv
  PROVE  NothingIsLost
<1>1. /\ queue \in [Clients -> Seq(Nat)] /\ owner \in Seq(Clients) /\ sent \in Seq(Nat)
      /\ stack \in Seq(FlushFrames)
      /\ Flow(queue, owner, sent, stack, disposed)
  BY DEF FlowInv, ClientTyped, EntriesTyped
<1>2. /\ DOMAIN sent = 1..Len(sent) /\ DOMAIN owner = 1..Len(owner) /\ DOMAIN stack = 1..Len(stack)
  BY <1>1
<1>3. \A i, j \in DOMAIN sent : i < j /\ owner[sent[i]] = owner[sent[j]] => sent[i] < sent[j]
  BY <1>1, <1>2 DEF Flow
<1>4. ASSUME NEW c \in Clients, NEW s \in Seq(Nat), SentBefore(sent, owner, c, s),
             NEW e \in ToSet(sent), owner[e] = c
      PROVE  e \notin ToSet(s)
  <2>1. PICK i \in 1..Len(sent) : sent[i] = e
    BY <1>1, Members
  <2>2. \A j \in 1..Len(s) : sent[i] < s[j]
    BY <1>4, <2>1 DEF SentBefore
  <2>3. sent[i] \in Nat
    BY <1>1
  <2> SUFFICES ASSUME e \in ToSet(s) PROVE FALSE
    OBVIOUS
  <2>4. PICK j \in 1..Len(s) : s[j] = e
    BY Members
  <2> QED
    BY <2>1, <2>2, <2>3, <2>4
<1>5. ASSUME NEW e \in DOMAIN owner, e \in ToSet(sent) PROVE e \notin Waiting(owner[e])
  <2>1. PICK c \in Clients : c = owner[e]
    BY <1>1
  <2>2. e \notin ToSet(queue[c])
    <3>1. SentBefore(sent, owner, c, queue[c]) /\ queue[c] \in Seq(Nat)
      BY <1>1 DEF Flow, Awaits
    <3> QED
      BY <1>4, <1>5, <2>1, <3>1
  <2>3. ASSUME NEW i \in DOMAIN stack, stack[i].client = c PROVE e \notin ToSet(stack[i].todo)
    <3>1. stack[i] \in FlushFrames
      BY <1>1
    <3>2. stack[i].todo \in Seq(Nat)
      BY <3>1 DEF FlushFrames
    <3>3. SentBefore(sent, owner, c, stack[i].todo)
      BY <1>1, <1>2, <2>3 DEF Flow, Awaits
    <3> QED
      BY <1>4, <1>5, <2>1, <3>2, <3>3
  <2> QED
    BY <2>1, <2>2, <2>3 DEF Waiting
<1>6. ASSUME NEW e \in DOMAIN owner, e \notin ToSet(sent)
      PROVE  e \in Waiting(owner[e]) \/ owner[e] \in disposed
  <2>1. e \in ToSet(queue[owner[e]]) \/ Sending(stack, e, owner[e]) \/ owner[e] \in disposed
    BY <1>1, <1>2, <1>6 DEF Flow
  <2>2. Sending(stack, e, owner[e]) => e \in Waiting(owner[e])
    BY <1>2 DEF Sending, Waiting
  <2> QED
    BY <2>1, <2>2 DEF Waiting
<1> QED
  BY <1>3, <1>5, <1>6 DEF NothingIsLost

\* TypeOK: every variable of a telemetry client keeps to its kind.
THEOREM TelemetryTypeCorrect == Spec => []TypeOK
<1>1. FlowInv => TypeOK
  BY FlowIsTyped
<1> QED
  BY <1>1, FlowInductive, PTL

\* NothingIsLost: what was recorded is sent once and in order, or waits, or was
\* its disposed client's; also when callers use stale cleanups.
THEOREM EntriesAreSentInOrder == Spec => []NothingIsLost
<1>1. FlowInv => NothingIsLost
  BY FlowLosesNothing
<1> QED
  BY <1>1, FlowInductive, PTL

-----------------------------------------------------------------------------
(* The links, and what is left of the disposed. *)

\* Every operation leaves links that agree, unless a former parent's cleanup is
\* called.
LEMMA LinkStep ==
  ASSUME "stale" \notin Faults, LinkInv, [Next]_vars
  PROVE  Linked(Tree)'
<1>1. /\ TreeTyped(Tree) /\ Linked(Tree)
      /\ Tree.up = up /\ children \in [Clients -> Seq(Clients)]
      /\ \A x \in Clients : up[x] \in Clients \cup {NoOne}
  BY DEF LinkInv, FlowInv, ClientTyped, TreeTyped, Tree
<1>2. ASSUME NEW p \in Clients, NEW c \in Clients, AddChild(p, c) \/ Fork(p, c)
      PROVE  Linked(Tree)'
  <2>1. Gained(Attached(p, c, Tree), Tree, p, c)
    BY <1>1, AttachedIsGained
  <2>2. Linked(Attached(p, c, Tree))
    BY <1>1, <2>1, GainedIsLinked
  <2>3. Become(Attached(p, c, Tree))
    BY <1>2 DEF AddChild, Fork
  <2> QED
    BY <2>2, <2>3, BecomeTree
<1>3. ASSUME NEW p \in Clients, NEW c \in Clients, RemoveChild(p, c) PROVE Linked(Tree)'
  <2>1. Lost(Detached(p, c, Tree), Tree, p, c)
    BY <1>1, DetachedIsLost
  <2>2. Become(Detached(p, c, Tree)) /\ c \in ToSet(children[p])
    BY <1>3 DEF RemoveChild
  <2>3. Contains(children[p], c)
    <3>1. DOMAIN children[p] = 1..Len(children[p])
      BY <1>1
    <3> QED
      BY <2>2, <3>1 DEF ToSet, Contains
  <2>4. up[c] = p
    BY <1>1, <2>3 DEF Linked, Tree
  <2>5. Linked(Detached(p, c, Tree))
    BY <1>1, <2>1, <2>4, LostIsLinked
  <2> QED
    BY <2>2, <2>5, BecomeTree
<1>4. ASSUME NEW c \in Clients, Dispose(c) PROVE Linked(Tree)'
  <2>1. /\ TreeTyped(Childless(c)) /\ Linked(Childless(c))
        /\ Childless(c).up[c] \in {up[c], NoOne}
    BY <1>1, ChildlessTree
  <2>2. CASE up[c] = NoOne
    <3>1. Become(Childless(c))
      BY <1>4, <2>2 DEF Dispose
    <3> QED
      BY <2>1, <3>1, BecomeTree
  <2>3. CASE up[c] # NoOne
    <3>1. PICK p \in Clients : p = up[c]
      BY <1>1, <2>3
    <3>2. Lost(Detached(p, c, Childless(c)), Childless(c), p, c)
      BY <2>1, <3>1, DetachedIsLost
    <3>3. Become(Detached(p, c, Childless(c)))
      BY <1>4, <2>3, <3>1 DEF Dispose
    <3>4. Linked(Detached(p, c, Childless(c)))
      BY <2>1, <3>1, <3>2, LostIsLinked
    <3> QED
      BY <3>3, <3>4, BecomeTree
  <2> QED
    BY <2>2, <2>3
<1>5. CASE UNCHANGED tree
  BY <1>1, <1>5 DEF Linked, Tree, tree
<1>6. ASSUME NEW c \in Clients, Record(c) \/ StartTimer(c) \/ Freeze(c) \/ Flush(c)
      PROVE  UNCHANGED tree
  BY <1>6 DEF Record, StartTimer, Freeze, Flush
<1>7. ASSUME NEW c, NEW n, NEW m, Mark(c, n) \/ Measure(c, n, m) PROVE UNCHANGED tree
  BY <1>7 DEF Mark, Measure
<1>8. ASSUME NEW m, MeasureFrom(m) \/ ClearMark(m) \/ Stop(m) \/ Cancel(m) PROVE UNCHANGED tree
  BY <1>8 DEF MeasureFrom, ClearMark, Stop, Cancel
<1>9. ASSUME FlushChild \/ TakeQueue \/ Send \/ FinishFlush PROVE UNCHANGED tree
  BY <1>9 DEF FlushChild, TakeQueue, Send, FinishFlush
<1>10. ASSUME NEW throws, Sent(throws) PROVE UNCHANGED tree
  BY <1>10 DEF Sent
<1>11. UNCHANGED vars => UNCHANGED tree
  BY DEF vars, tree
<1> QED
  BY <1>2, <1>3, <1>4, <1>5, <1>6, <1>7, <1>8, <1>9, <1>10, <1>11 DEF Next, Use

\* Links agree in every execution in which no former parent's cleanup is called.
THEOREM LinkInductive == ASSUME "stale" \notin Faults PROVE Spec => []LinkInv
<1>1. Init => LinkInv
  BY AtFirst DEF LinkInv
<1>2. LinkInv /\ [Next]_vars => LinkInv'
  BY LinkStep, FlowStep DEF LinkInv
<1> QED
  BY <1>1, <1>2, PTL DEF Spec

\* LinksAgree: where events bubble, where tags come from and what a flush goes
\* through are one relation, as long as no former parent's cleanup is called.
THEOREM TheTreeIsOne == ASSUME "stale" \notin Faults PROVE Spec => []LinksAgree
<1>1. LinkInv => LinksAgree
  BY FlowIsTyped DEF LinkInv, LinksAgree, Linked, Tree
<1> QED
  BY <1>1, LinkInductive, PTL

\* No handle of x runs and no mark of it measures.
Still(x, hs, ms) ==
  /\ \A h \in 1..Len(hs) : hs[h].client = x => hs[h].state # "running"
  /\ \A m \in 1..Len(ms) : ms[m].client = x => ms[m].cleared

\* A disposal stops the handles of a client and clears its marks, and leaves those
\* that are still as they are.
LEMMA DisposedIsStill ==
  ASSUME handles \in Seq(TimerHandles), marks \in Seq(TimerMarks), NEW c, Dispose(c),
         NEW y, y = c \/ Still(y, handles, marks)
  PROVE  Still(y, handles', marks')
<1>1. /\ handles' = [h \in DOMAIN handles |->
                       IF handles[h].client = c /\ handles[h].state = "running"
                       THEN [handles[h] EXCEPT !.state = "over"] ELSE handles[h]]
      /\ marks' = [m \in DOMAIN marks |->
                     IF marks[m].client = c THEN [marks[m] EXCEPT !.cleared = TRUE] ELSE marks[m]]
  BY DEF Dispose, ClearedBy
<1>2. PICK n \in Nat : n = Len(handles)
  OBVIOUS
<1>3. PICK k \in Nat : k = Len(marks)
  OBVIOUS
<1>4. /\ DOMAIN handles = 1..n /\ \A h \in 1..n : handles[h] \in TimerHandles
      /\ DOMAIN marks = 1..k /\ \A m \in 1..k : marks[m] \in TimerMarks
  BY <1>2, <1>3
<1>5. /\ Len(handles') = n /\ Len(marks') = k
      /\ \A h \in 1..n : handles'[h] = IF handles[h].client = c /\ handles[h].state = "running"
                                       THEN [handles[h] EXCEPT !.state = "over"]
                                       ELSE handles[h]
      /\ \A m \in 1..k : marks'[m] = IF marks[m].client = c
                                     THEN [marks[m] EXCEPT !.cleared = TRUE] ELSE marks[m]
  BY <1>1, <1>4
<1>6. \A f \in TimerHandles : [f EXCEPT !.state = "over"].state # "running"
  BY DEF TimerHandles
<1>7. \A f \in TimerMarks : [f EXCEPT !.cleared = TRUE].cleared
  BY DEF TimerMarks
<1>8. ASSUME NEW h \in 1..n, handles'[h].client = y PROVE handles'[h].state # "running"
  <2>1. CASE handles[h].client = c /\ handles[h].state = "running"
    BY <1>4, <1>5, <1>6, <2>1
  <2>2. CASE ~(handles[h].client = c /\ handles[h].state = "running")
    BY <1>2, <1>5, <1>8, <2>2 DEF Still
  <2> QED
    BY <2>1, <2>2
<1>9. ASSUME NEW m \in 1..k, marks'[m].client = y PROVE marks'[m].cleared
  <2>1. CASE marks[m].client = c
    BY <1>4, <1>5, <1>7, <2>1
  <2>2. CASE marks[m].client # c
    BY <1>3, <1>5, <1>9, <2>2 DEF Still
  <2> QED
    BY <2>1, <2>2
<1> QED
  BY <1>5, <1>8, <1>9 DEF Still

\* Who is gone stays still,
LEMMA StillStep ==
  ASSUME GoneInv, [Next]_vars, NEW x \in disposed
  PROVE  Still(x, handles', marks')
<1>1. /\ handles \in Seq(TimerHandles) /\ marks \in Seq(TimerMarks) /\ x \in Clients
      /\ \A h \in 1..Len(handles) : handles[h].client = x => handles[h].state # "running"
      /\ \A m \in 1..Len(marks) : marks[m].client = x => marks[m].cleared
  BY DEF GoneInv, FlowInv, ClientTyped, ClientsTyped, TimersTyped, Gone
<1>2. PICK n : n = Len(handles)
  OBVIOUS
<1>3. PICK k : k = Len(marks)
  OBVIOUS
<1>4. /\ n \in Nat /\ DOMAIN handles = 1..n /\ \A h \in 1..n : handles[h] \in TimerHandles
      /\ k \in Nat /\ DOMAIN marks = 1..k /\ \A m \in 1..k : marks[m] \in TimerMarks
      /\ \A h \in 1..(n + 1) : h \in 1..n \/ h = n + 1
      /\ \A m \in 1..(k + 1) : m \in 1..k \/ m = k + 1
  <2>1. n \in Nat /\ DOMAIN handles = 1..n /\ \A h \in 1..n : handles[h] \in TimerHandles
    BY <1>1, <1>2
  <2>2. k \in Nat /\ DOMAIN marks = 1..k /\ \A m \in 1..k : marks[m] \in TimerMarks
    BY <1>1, <1>3
  <2> QED
    BY <2>1, <2>2
<1>5. UNCHANGED <<handles, marks>> => Still(x, handles', marks')
  BY <1>1 DEF Still
<1>6. ASSUME NEW c, NEW m, c # x, handles' = Append(handles, Handle(c, m)), marks' = marks
      PROVE  Still(x, handles', marks')
  <2>1. Handle(c, m).client # x
    BY <1>6 DEF Handle
  <2>2. PICK f : f = Handle(c, m)
    OBVIOUS
  <2>3. Len(handles') = n + 1 /\ handles'[n + 1] = f /\ \A h \in 1..n : handles'[h] = handles[h]
    BY <1>1, <1>2, <1>6, <2>2
  <2> QED
    BY <1>1, <1>2, <1>4, <1>6, <2>1, <2>2, <2>3 DEF Still
<1>7. ASSUME NEW c, StartTimer(c) PROVE Still(x, handles', marks')
  <2>1. c # x
    BY <1>7 DEF StartTimer, Recordable, Live
  <2> QED
    BY <1>6, <1>7, <2>1 DEF StartTimer
<1>8. ASSUME NEW m \in DOMAIN marks, MeasureFrom(m) PROVE Still(x, handles', marks')
  <2>1. marks[m].client # x
    BY <1>1, <1>3, <1>4, <1>8 DEF MeasureFrom
  <2> QED
    BY <1>6, <1>8, <2>1 DEF MeasureFrom
<1>9. ASSUME NEW c, NEW a, Mark(c, a) PROVE Still(x, handles', marks')
  <2>1. c # x
    BY <1>9 DEF Mark, Recordable, Live
  <2>2. PICK f : f = [client |-> c, name |-> a, cleared |-> FALSE]
    OBVIOUS
  <2>3. f.client # x /\ handles' = handles /\ marks' = Append(marks, f)
    BY <1>9, <2>1, <2>2 DEF Mark
  <2>4. Len(marks') = k + 1 /\ marks'[k + 1] = f /\ \A m \in 1..k : marks'[m] = marks[m]
    BY <1>1, <1>3, <2>3
  <2> QED
    BY <1>1, <1>3, <1>4, <2>3, <2>4 DEF Still
<1>10. ASSUME NEW a \in DOMAIN marks, ClearMark(a) PROVE Still(x, handles', marks')
  <2>1. handles' = handles /\ marks' = [marks EXCEPT ![a].cleared = TRUE]
    BY <1>10 DEF ClearMark
  <2>2. Len(marks') = k /\ \A m \in 1..k : marks'[m] = IF m = a THEN [marks[a] EXCEPT !.cleared = TRUE]
                                                      ELSE marks[m]
    BY <1>1, <1>3, <1>4, <2>1
  <2>3. [marks[a] EXCEPT !.cleared = TRUE].cleared
    BY <1>4 DEF TimerMarks
  <2>4. \A m \in 1..k : marks'[m].client = x => marks'[m].cleared
    <3>1. ASSUME NEW m \in 1..k, marks'[m].client = x PROVE marks'[m].cleared
      <4>1. CASE m = a
        BY <2>2, <2>3, <4>1
      <4>2. CASE m # a
        BY <1>1, <1>3, <2>2, <3>1, <4>2
      <4> QED
        BY <4>1, <4>2
    <3> QED
      BY <3>1
  <2> QED
    BY <1>1, <2>1, <2>2, <2>4 DEF Still
<1>11. ASSUME NEW a \in DOMAIN handles, Stop(a) \/ Cancel(a) PROVE Still(x, handles', marks')
  <2>1. handles' = [handles EXCEPT ![a].state = "over"]
    BY <1>11 DEF Stop, Cancel
  <2>2. marks' = marks
    BY <1>11 DEF Stop, Cancel
  <2>3. PICK f : f = [handles[a] EXCEPT !.state = "over"]
    OBVIOUS
  <2>4. f.state # "running"
    BY <1>4, <2>3 DEF TimerHandles
  <2>5. handles' = [handles EXCEPT ![a] = f]
    BY <2>1, <2>3
  <2>6. Len(handles') = n /\ \A h \in 1..n : handles'[h] = IF h = a THEN f ELSE handles[h]
    BY <1>1, <1>2, <1>4, <2>5
  <2>7. \A h \in 1..n : handles'[h].client = x => handles'[h].state # "running"
    BY <1>1, <1>2, <2>4, <2>6
  <2> QED
    BY <1>1, <2>2, <2>6, <2>7 DEF Still
<1>12. ASSUME NEW c \in Clients, Dispose(c) PROVE Still(x, handles', marks')
  BY <1>1, <1>12, DisposedIsStill DEF Still
<1>13. ASSUME NEW p, NEW c, AddChild(p, c) \/ RemoveChild(p, c) \/ Fork(p, c)
       PROVE  UNCHANGED <<handles, marks>>
  BY <1>13 DEF AddChild, RemoveChild, Fork, timers
<1>14. ASSUME NEW c, Record(c) \/ Freeze(c) \/ Flush(c) PROVE UNCHANGED <<handles, marks>>
  BY <1>14 DEF Record, Freeze, Flush, timers
<1>15. ASSUME NEW c, NEW a, NEW m, Measure(c, a, m) PROVE UNCHANGED <<handles, marks>>
  BY <1>15 DEF Measure, timers
<1>16. ASSUME FlushChild \/ TakeQueue \/ Send \/ FinishFlush PROVE UNCHANGED <<handles, marks>>
  BY <1>16 DEF FlushChild, TakeQueue, Send, FinishFlush, timers
<1>17. ASSUME NEW throws, Sent(throws) PROVE UNCHANGED <<handles, marks>>
  BY <1>17 DEF Sent, timers
<1>18. UNCHANGED vars => UNCHANGED <<handles, marks>>
  BY DEF vars
<1> QED
  BY <1>5, <1>7, <1>8, <1>9, <1>10, <1>11, <1>12, <1>13, <1>14, <1>15, <1>16, <1>17, <1>18
  DEF Next, Use

\* and records nothing.
LEMMA SilentStep ==
  ASSUME GoneInv, [Next]_vars, NEW x \in disposed
  PROVE  queue'[x] = <<>>
<1>1. /\ queue \in [Clients -> Seq(Nat)] /\ queue[x] = <<>> /\ x \in Clients
      /\ handles \in Seq(TimerHandles)
      /\ \A h \in 1..Len(handles) : handles[h].client = x => handles[h].state # "running"
  BY DEF GoneInv, FlowInv, ClientTyped, EntriesTyped, ClientsTyped, TimersTyped, Gone
<1>2. UNCHANGED queue => queue'[x] = <<>>
  BY <1>1
<1>3. ASSUME NEW c, c # x, Enqueue(c) PROVE queue'[x] = <<>>
  BY <1>1, <1>3 DEF Enqueue
<1>4. ASSUME NEW c, Record(c) PROVE queue'[x] = <<>>
  <2>1. c # x
    BY <1>4 DEF Record, Recordable, Live
  <2> QED
    BY <1>3, <1>4, <2>1 DEF Record
<1>5. ASSUME NEW c, NEW n, NEW m, Measure(c, n, m) PROVE queue'[x] = <<>>
  <2>1. c # x
    BY <1>5 DEF Measure, Recordable, Live
  <2> QED
    BY <1>3, <1>5, <2>1 DEF Measure
<1>6. ASSUME NEW h \in DOMAIN handles, Stop(h) PROVE queue'[x] = <<>>
  <2>1. handles[h].client # x
    <3>1. h \in 1..Len(handles) /\ handles[h].state = "running"
      BY <1>1, <1>6 DEF Stop
    <3> QED
      BY <1>1, <3>1
  <2>2. UNCHANGED queue \/ Enqueue(handles[h].client)
    BY <1>6 DEF Stop, entries
  <2> QED
    BY <1>2, <1>3, <2>1, <2>2
<1>7. ASSUME NEW c, queue' = [queue EXCEPT ![c] = <<>>] PROVE queue'[x] = <<>>
  BY <1>1, <1>7
<1>8. ASSUME NEW c \in Clients, Dispose(c) PROVE queue'[x] = <<>> /\ queue'[c] = <<>>
  <2>1. queue' = [queue EXCEPT ![c] = <<>>]
    BY <1>8 DEF Dispose
  <2> QED
    BY <1>1, <2>1
<1>9. TakeQueue => queue'[x] = <<>>
  BY <1>7 DEF TakeQueue
<1>10. ASSUME NEW p, NEW c, AddChild(p, c) \/ RemoveChild(p, c) \/ Fork(p, c) PROVE UNCHANGED queue
  BY <1>10 DEF AddChild, RemoveChild, Fork, entries
<1>11. ASSUME NEW c, StartTimer(c) \/ Freeze(c) \/ Flush(c) PROVE UNCHANGED queue
  BY <1>11 DEF StartTimer, Freeze, Flush, entries
<1>12. ASSUME NEW c, NEW n, Mark(c, n) PROVE UNCHANGED queue
  BY <1>12 DEF Mark, entries
<1>13. ASSUME NEW m, MeasureFrom(m) \/ ClearMark(m) \/ Cancel(m) PROVE UNCHANGED queue
  BY <1>13 DEF MeasureFrom, ClearMark, Cancel, entries
<1>14. ASSUME FlushChild \/ Send \/ FinishFlush PROVE UNCHANGED queue
  BY <1>14 DEF FlushChild, Send, FinishFlush, entries
<1>15. ASSUME NEW throws, Sent(throws) PROVE UNCHANGED queue
  BY <1>15 DEF Sent, entries
<1>16. UNCHANGED vars => UNCHANGED queue
  BY DEF vars
<1> QED
  BY <1>2, <1>4, <1>5, <1>6, <1>8, <1>9, <1>10, <1>11, <1>12, <1>13, <1>14, <1>15, <1>16
  DEF Next, Use

\* A client that is disposed leaves nothing that works,
LEMMA LeavesNothing ==
  ASSUME GoneInv, NEW c \in Clients, Dispose(c)
  PROVE  Gone(c, queue', handles', marks')
<1>1. /\ queue \in [Clients -> Seq(Nat)]
      /\ handles \in Seq(TimerHandles) /\ marks \in Seq(TimerMarks)
  BY DEF GoneInv, FlowInv, ClientTyped, EntriesTyped, TimersTyped
<1>2. queue'[c] = <<>>
  <2>1. queue' = [queue EXCEPT ![c] = <<>>]
    BY DEF Dispose
  <2> QED
    BY <1>1, <2>1
<1>3. Still(c, handles', marks')
  BY <1>1, DisposedIsStill
<1> QED
  BY <1>2, <1>3 DEF Gone, Still

\* nor any neighbour, when the links agree,
LEMMA LeavesEveryone ==
  ASSUME "stale" \notin Faults, LinkInv, [Next]_vars, NEW c \in Clients, Dispose(c)
  PROVE  Neighbours(c)' = {}
<1>1. /\ TreeTyped(Tree) /\ Tree'.children = children' /\ Tree'.up = up'
      /\ Tree'.emitter = emitter'
      /\ \A y \in Clients : up[y] \in Clients \cup {NoOne}
  BY DEF LinkInv, FlowInv, ClientTyped, TreeTyped, Tree
<1>2. children'[c] = <<>> /\ up'[c] = NoOne
  <2>1. PICK t : t = Childless(c)
    OBVIOUS
  <2>2. TreeTyped(t) /\ t.children[c] = <<>> /\ t.up[c] \in {up[c], NoOne}
    BY <1>1, <2>1, ChildlessTree
  <2>3. CASE up[c] = NoOne
    <3>1. Become(t)
      BY <2>1, <2>3 DEF Dispose
    <3> QED
      BY <2>2, <2>3, <3>1, BecomeTree
  <2>4. CASE up[c] # NoOne
    <3>1. PICK p \in Clients : p = up[c]
      BY <1>1, <2>4
    <3>2. PICK d : d = Detached(p, c, t)
      OBVIOUS
    <3>3. Lost(d, t, p, c)
      BY <2>2, <3>1, <3>2, DetachedIsLost
    <3>4. d.children[c] = <<>> /\ d.up[c] = NoOne
      BY <2>2, <3>3, LostAlone
    <3>5. Become(d)
      BY <2>1, <2>4, <3>1, <3>2 DEF Dispose
    <3> QED
      BY <3>4, <3>5, BecomeTree
  <2> QED
    BY <2>3, <2>4
<1>3. \A p, y \in Clients :
        /\ Contains(children'[p], y) <=> up'[y] = p
        /\ emitter'[y] = p <=> up'[y] = p
  <2>1. Linked(Tree)'
    BY LinkStep
  <2> QED
    BY <2>1 DEF Linked, Tree
<1>4. ASSUME NEW y \in Clients PROVE y \notin Neighbours(c)'
  <2>1. up'[c] # y
    BY <1>2, TelemetryAssumption
  <2>2. up'[y] # c
    <3>1. ~Contains(<<>>, y)
      BY DEF Contains
    <3> QED
      BY <1>2, <1>3, <3>1
  <2>3. emitter'[c] # y /\ ~Contains(children'[y], c)
    BY <1>3, <2>1
  <2>4. emitter'[y] # c /\ ~Contains(children'[c], y)
    BY <1>3, <2>2
  <2> QED
    BY <2>1, <2>2, <2>3, <2>4 DEF Neighbours
<1> QED
  BY <1>4 DEF Neighbours

\* In s there is no frame of x that is not in st.
NoneNewer(x, s, st) ==
  \A i \in 1..Len(s) : s[i].client = x => i \in 1..Len(st) /\ st[i].client = x

\* The frame on top stays with its client, the stack is cut, or grows by a frame
\* of another client.
LEMMA NoneIsNewer ==
  ASSUME NEW st \in Seq(FlushFrames), NEW x
  PROVE  /\ NoneNewer(x, st, st)
         /\ \A g \in FlushFrames : st # <<>> /\ g.client = st[Len(st)].client =>
              NoneNewer(x, [st EXCEPT ![Len(st)] = g], st)
         /\ \A m \in 0..Len(st) : NoneNewer(x, SubSeq(st, 1, m), st)
         /\ \A s \in Seq(FlushFrames), g \in FlushFrames :
              NoneNewer(x, s, st) /\ g.client # x => NoneNewer(x, Append(s, g), st)
<1>1. NoneNewer(x, st, st)
  BY DEF NoneNewer
<1>2. ASSUME NEW g \in FlushFrames, st # <<>>, g.client = st[Len(st)].client
      PROVE  NoneNewer(x, [st EXCEPT ![Len(st)] = g], st)
  <2>1. PICK s : s = [st EXCEPT ![Len(st)] = g]
    OBVIOUS
  <2>2. PICK n : n = Len(st)
    OBVIOUS
  <2>3. /\ Len(s) = n /\ s[n] = g /\ n \in Nat \ {0}
        /\ \A i \in 1..(n - 1) : s[i] = st[i]
    BY <1>2, <2>1, <2>2, TopReplaced
  <2>4. \A i \in 1..n : i = n \/ i \in 1..(n - 1)
    BY <2>3
  <2> QED
    BY <1>2, <2>1, <2>2, <2>3, <2>4 DEF NoneNewer
<1>3. ASSUME NEW m \in 0..Len(st) PROVE NoneNewer(x, SubSeq(st, 1, m), st)
  <2>1. PICK n \in Nat : n = Len(st)
    OBVIOUS
  <2>2. PICK s : s = SubSeq(st, 1, m)
    OBVIOUS
  <2>3. m \in Nat /\ m <= n /\ \A i \in 1..m : i \in 1..n
    BY <2>1
  <2>4. Len(s) = m /\ \A i \in 1..m : s[i] = st[i]
    BY <2>1, <2>2, <2>3
  <2> QED
    BY <2>1, <2>2, <2>3, <2>4 DEF NoneNewer
<1>4. ASSUME NEW s \in Seq(FlushFrames), NEW g \in FlushFrames, NoneNewer(x, s, st), g.client # x
      PROVE  NoneNewer(x, Append(s, g), st)
  <2>1. PICK r : r = Append(s, g)
    OBVIOUS
  <2>2. PICK n \in Nat : n = Len(s)
    OBVIOUS
  <2>3. Len(r) = n + 1 /\ r[n + 1] = g /\ \A i \in 1..n : r[i] = s[i]
    BY <2>1, <2>2
  <2>4. \A i \in 1..(n + 1) : i = n + 1 \/ i \in 1..n
    BY <2>2
  <2> QED
    BY <1>4, <2>1, <2>2, <2>3, <2>4 DEF NoneNewer
<1> QED
  BY <1>1, <1>2, <1>3, <1>4

\* A flush that fails cuts the stack.
LEMMA UnwoundIsCut ==
  ASSUME stack \in Seq(FlushFrames), stack # <<>>
  PROVE  \E m \in 0..Len(stack) : Unwound = SubSeq(stack, 1, m)
<1> DEFINE S == {0} \cup {i \in 1..Len(stack) - 1 : stack[i].busy}
<1>1. PICK n \in Nat \ {0} : n = Len(stack)
  OBVIOUS
<1>2. S \subseteq 0..(n - 1) /\ S # {} /\ n - 1 \in Nat
  BY <1>1
<1>3. Max(S) \in S
  <2> HIDE DEF S
  <2> QED
    BY <1>2, GreatestNat
<1>4. Max(S) \in 0..n
  <2>1. \A m \in 0..(n - 1) : m \in 0..n
    BY <1>1
  <2> HIDE DEF S
  <2> QED
    BY <1>2, <1>3, <2>1
<1> QED
  BY <1>1, <1>4 DEF Unwound

\* and no flush of it begins.
LEMMA NoFlushStep ==
  ASSUME FlowInv, [Next]_vars, NEW x \in disposed'
  PROVE  NoneNewer(x, stack', stack)
<1>1. stack \in Seq(FlushFrames) /\ children \in [Clients -> Seq(Clients)]
  BY DEF FlowInv, ClientTyped, TreeTyped, Tree
<1>2. CASE UNCHANGED stack
  BY <1>1, <1>2, NoneIsNewer
<1>3. ASSUME NEW away, stack' = Unseen(away) PROVE NoneNewer(x, stack', stack)
  <2>1. Alike(stack', stack)
    BY <1>1, <1>3, UnseenIsAlike
  <2> QED
    BY <2>1 DEF Alike, NoneNewer
<1>4. ASSUME NEW g \in FlushFrames, stack # <<>>, g.client = Innermost.client, Replace(g)
      PROVE  NoneNewer(x, stack', stack)
  BY <1>1, <1>4, NoneIsNewer DEF Replace, Innermost, Last
<1>5. ASSUME stack # <<>>, stack' = Unwound PROVE NoneNewer(x, stack', stack)
  BY <1>1, <1>5, NoneIsNewer, UnwoundIsCut
<1>6. \A c \in Clients : Begun(c) \in FlushFrames /\ Begun(c).client = c
  BY DEF Begun, FlushFrames
<1>7. ASSUME NEW c \in Clients, Flush(c) PROVE NoneNewer(x, stack', stack)
  <2>1. c # x /\ stack' = Append(stack, Begun(c))
    BY <1>7 DEF Flush, Live
  <2> QED
    BY <1>1, <1>6, <2>1, NoneIsNewer
<1>8. stack # <<>> => Innermost \in FlushFrames
  BY <1>1 DEF Innermost, Last
<1>9. CASE FlushChild
  <2>1. stack # <<>> /\ UNCHANGED disposed
    BY <1>9 DEF FlushChild, Turn
  <2>2. PICK f \in FlushFrames : f = Innermost
    BY <1>8, <2>1
  <2>3. PICK c : /\ \E i \in DOMAIN Listed : c = Listed[i]
                 /\ stack' = IF c \in disposed THEN Unwound
                             ELSE IF Flushing(c)
                                  THEN [stack EXCEPT ![Len(stack)].seen = @ \cup {c}]
                                  ELSE Append([stack EXCEPT ![Len(stack)].seen = @ \cup {c}], Begun(c))
    BY <1>9 DEF FlushChild
  <2>4. c \in Clients /\ f.seen \subseteq Clients
    BY <1>1, <2>2, <2>3 DEF Listed, FlushFrames
  <2>5. PICK g \in FlushFrames : g = [f EXCEPT !.seen = @ \cup {c}]
    BY <2>4 DEF FlushFrames
  <2>6. g.client = f.client
    BY <2>5 DEF FlushFrames
  <2>7. PICK below : below = [stack EXCEPT ![Len(stack)] = g]
    OBVIOUS
  <2>8. below = [stack EXCEPT ![Len(stack)].seen = @ \cup {c}]
    BY <1>1, <2>1, <2>2, <2>5, <2>7 DEF Innermost, Last
  <2>9. below \in Seq(FlushFrames) /\ NoneNewer(x, below, stack)
    BY <1>1, <2>1, <2>2, <2>6, <2>7, NoneIsNewer, TopReplaced DEF Innermost, Last
  <2>10. c \notin disposed => c # x
    BY <2>1
  <2>11. c \notin disposed => NoneNewer(x, Append(below, Begun(c)), stack)
    BY <1>1, <1>6, <2>4, <2>9, <2>10, NoneIsNewer
  <2> QED
    BY <1>5, <2>1, <2>3, <2>8, <2>9, <2>11
<1>10. CASE TakeQueue
  <2>1. stack # <<>> /\ Replace([Innermost EXCEPT !.seen = {}, !.own = TRUE, !.todo = queue[Innermost.client]])
        /\ queue \in [Clients -> Seq(Nat)]
    BY <1>10 DEF TakeQueue, Turn, FlowInv, ClientTyped, EntriesTyped
  <2>2. PICK f \in FlushFrames : f = Innermost
    BY <1>8, <2>1
  <2>3. PICK g : g = [f EXCEPT !.seen = {}, !.own = TRUE, !.todo = queue[f.client]]
    OBVIOUS
  <2>4. g \in FlushFrames /\ g.client = f.client
    BY <2>1, <2>3 DEF FlushFrames
  <2> QED
    BY <1>4, <2>1, <2>2, <2>3, <2>4
<1>11. CASE Send
  <2>1. stack # <<>> /\ Innermost.todo # <<>>
        /\ Replace([Innermost EXCEPT !.busy = TRUE, !.todo = Tail(@)])
    BY <1>11 DEF Send, Turn
  <2>2. PICK f \in FlushFrames : f = Innermost
    BY <1>8, <2>1
  <2>3. PICK w \in Seq(Nat) : w = Tail(f.todo)
    <3>1. PICK t \in Seq(Nat) : t = f.todo
      BY DEF FlushFrames
    <3>2. t # <<>>
      BY <2>1, <2>2, <3>1
    <3>3. Tail(t) \in Seq(Nat)
      BY <3>2
    <3> QED
      BY <3>1, <3>3
  <2>4. PICK g : g = [f EXCEPT !.busy = TRUE, !.todo = w]
    OBVIOUS
  <2>5. g \in FlushFrames /\ g.client = f.client
    BY <2>4 DEF FlushFrames
  <2>6. Replace(g)
    BY <2>1, <2>2, <2>3, <2>4
  <2> QED
    BY <1>4, <2>1, <2>2, <2>5, <2>6
<1>12. ASSUME NEW throws \in BOOLEAN, Sent(throws) PROVE NoneNewer(x, stack', stack)
  <2>1. stack # <<>> /\ Replace([Innermost EXCEPT !.busy = FALSE, !.failed = @ \/ throws])
    BY <1>12 DEF Sent
  <2>2. PICK f \in FlushFrames : f = Innermost
    BY <1>8, <2>1
  <2>3. PICK b \in BOOLEAN : b = (f.failed \/ throws)
    BY DEF FlushFrames
  <2>4. PICK g : g = [f EXCEPT !.busy = FALSE, !.failed = b]
    OBVIOUS
  <2>5. g \in FlushFrames /\ g.client = f.client
    BY <2>4 DEF FlushFrames
  <2>6. Replace(g)
    BY <2>1, <2>2, <2>3, <2>4
  <2> QED
    BY <1>4, <2>1, <2>2, <2>5, <2>6
<1>13. CASE FinishFlush
  <2>1. stack # <<>> /\ (stack' = Unwound \/ stack' = SubSeq(stack, 1, Len(stack) - 1))
    BY <1>13 DEF FinishFlush, Turn, Front
  <2>2. Len(stack) - 1 \in 0..Len(stack)
    BY <1>1, <2>1
  <2> QED
    BY <1>1, <1>5, <2>1, <2>2, NoneIsNewer
<1>14. ASSUME NEW c \in Clients, Dispose(c) PROVE NoneNewer(x, stack', stack)
  BY <1>3, <1>14 DEF Dispose
<1>15. ASSUME NEW p, NEW c, AddChild(p, c) \/ RemoveChild(p, c) \/ Fork(p, c)
       PROVE  NoneNewer(x, stack', stack)
  <2>1. UNCHANGED stack \/ \E away : stack' = Unseen(away)
    BY <1>15 DEF AddChild, RemoveChild, Fork
  <2> QED
    BY <1>2, <1>3, <2>1
<1>16. ASSUME NEW c, Record(c) \/ StartTimer(c) \/ Freeze(c) PROVE UNCHANGED stack
  BY <1>16 DEF Record, StartTimer, Freeze
<1>17. ASSUME NEW c, NEW n, NEW m, Mark(c, n) \/ Measure(c, n, m) PROVE UNCHANGED stack
  BY <1>17 DEF Mark, Measure
<1>18. ASSUME NEW m, MeasureFrom(m) \/ ClearMark(m) \/ Stop(m) \/ Cancel(m) PROVE UNCHANGED stack
  BY <1>18 DEF MeasureFrom, ClearMark, Stop, Cancel
<1>19. UNCHANGED vars => UNCHANGED stack
  BY DEF vars
<1> QED
  BY <1>2, <1>7, <1>9, <1>10, <1>11, <1>12, <1>13, <1>14, <1>15, <1>16, <1>17, <1>18, <1>19
  DEF Next, Use

\* A client is only disposed by its disposal.
LEMMA NewlyDisposed ==
  ASSUME [Next]_vars, NEW x \in disposed', x \notin disposed
  PROVE  x \in Clients /\ Dispose(x)
<1>1. ASSUME NEW c \in Clients, Dispose(c) PROVE x = c
  BY <1>1 DEF Dispose
<1>2. ASSUME NEW p, NEW c, AddChild(p, c) \/ RemoveChild(p, c) \/ Fork(p, c)
      PROVE  UNCHANGED disposed
  BY <1>2 DEF AddChild, RemoveChild, Fork
<1>3. ASSUME NEW c, Record(c) \/ StartTimer(c) \/ Freeze(c) \/ Flush(c) PROVE UNCHANGED disposed
  BY <1>3 DEF Record, StartTimer, Freeze, Flush
<1>4. ASSUME NEW c, NEW n, NEW m, Mark(c, n) \/ Measure(c, n, m) PROVE UNCHANGED disposed
  BY <1>4 DEF Mark, Measure
<1>5. ASSUME NEW m, MeasureFrom(m) \/ ClearMark(m) \/ Stop(m) \/ Cancel(m)
      PROVE  UNCHANGED disposed
  BY <1>5 DEF MeasureFrom, ClearMark, Stop, Cancel
<1>6. ASSUME FlushChild \/ TakeQueue \/ Send \/ FinishFlush PROVE UNCHANGED disposed
  BY <1>6 DEF FlushChild, TakeQueue, Send, FinishFlush
<1>7. ASSUME NEW throws, Sent(throws) PROVE UNCHANGED disposed
  BY <1>7 DEF Sent
<1>8. UNCHANGED vars => UNCHANGED disposed
  BY DEF vars
<1> QED
  BY <1>1, <1>2, <1>3, <1>4, <1>5, <1>6, <1>7, <1>8 DEF Next, Use

\* What is disposed works no more, whoever it is added to and whichever cleanups
\* are called.
THEOREM GoneInductive == Spec => []GoneInv
<1>1. Init => GoneInv
  BY AtFirst DEF GoneInv
<1>2. ASSUME GoneInv, [Next]_vars PROVE GoneInv'
  <2>1. FlowInv'
    BY <1>2, FlowStep DEF GoneInv
  <2>2. ASSUME NEW x \in disposed PROVE Gone(x, queue', handles', marks')
    <3>1. Still(x, handles', marks')
      BY <1>2, StillStep
    <3>2. queue'[x] = <<>>
      BY <1>2, SilentStep
    <3> QED
      BY <3>1, <3>2 DEF Gone, Still
  <2>3. ASSUME NEW x \in disposed', x \notin disposed
        PROVE  Gone(x, queue', handles', marks')
    BY <1>2, <2>3, NewlyDisposed, LeavesNothing
  <2> QED
    BY <2>1, <2>2, <2>3 DEF GoneInv
<1>3. GoneInv /\ [Next]_vars => GoneInv'
  BY <1>2
<1> QED
  BY <1>1, <1>3, PTL DEF Spec

\* DisposedIsGone: a disposal lets go of every neighbour, and what was given away
\* before it, or a parent found after it, makes the client record and flush
\* nothing more; as long as no former parent's cleanup is called, so that the
\* links agree.
THEOREM DisposedStaysGone == ASSUME "stale" \notin Faults PROVE Spec => DisposedIsGone
<1> DEFINE A == \A c \in disposed' :
                  /\ queue'[c] = <<>>
                  /\ \A h \in DOMAIN handles' :
                       handles'[h].client = c => handles'[h].state # "running"
                  /\ Flushes(c)' \subseteq Flushes(c)
                  /\ c \notin disposed => Neighbours(c)' = {}
<1>1. ASSUME LinkInv, GoneInv', [Next]_vars PROVE A
  <2>1. ASSUME NEW c \in disposed'
        PROVE  /\ queue'[c] = <<>>
               /\ \A h \in DOMAIN handles' :
                    handles'[h].client = c => handles'[h].state # "running"
               /\ Flushes(c)' \subseteq Flushes(c)
               /\ c \notin disposed => Neighbours(c)' = {}
    <3>1. Gone(c, queue', handles', marks')
      BY <1>1 DEF GoneInv
    <3>2. /\ DOMAIN handles' = 1..Len(handles') /\ DOMAIN stack' = 1..Len(stack')
          /\ DOMAIN stack = 1..Len(stack)
      <4>1. handles' \in Seq(TimerHandles) /\ stack' \in Seq(FlushFrames)
        BY <1>1 DEF GoneInv, FlowInv, ClientTyped, TimersTyped
      <4>2. stack \in Seq(FlushFrames)
        BY <1>1 DEF LinkInv, FlowInv, ClientTyped
      <4> QED
        BY <4>1, <4>2
    <3>3. Flushes(c)' \subseteq Flushes(c)
      <4>1. NoneNewer(c, stack', stack)
        BY <1>1, NoFlushStep DEF LinkInv
      <4> QED
        BY <3>2, <4>1 DEF Flushes, NoneNewer
    <3>4. c \notin disposed => Neighbours(c)' = {}
      BY <1>1, NewlyDisposed, LeavesEveryone
    <3> QED
      BY <3>1, <3>2, <3>3, <3>4 DEF Gone
  <2> QED
    BY <2>1
<1>2. LinkInv /\ GoneInv' /\ [Next]_vars => [A]_vars
  BY <1>1
<1>3. Spec => [][A]_vars
  <2> HIDE DEF A
  <2> QED
    BY <1>2, LinkInductive, GoneInductive, PTL DEF Spec
<1> QED
  BY <1>3 DEF DisposedIsGone
-----------------------------------------------------------------------------
(* Validation.  What the recursive functions of the module are, then what   *)
(* each comes to: the order of the checks and of the descent, what the      *)
(* checks report, what is gathered of the parts of a value.  Induction over *)
(* the layers of validators puts the last together.  First come lists that  *)
(* are worked through by a recursive function.                              *)

\* The names of the checks of s differ.
Distinct(s) == \A i, j \in 1..Len(s) : s[i].name = s[j].name => i = j

\* The checks of a phase are found one after the other.
LEMMA InPhaseSteps ==
  ASSUME NEW checks, Len(checks) \in Nat, NEW phase
  PROVE  \E f : /\ InPhase(checks, phase) = f[Len(checks)]
                /\ f[0] = <<>>
                /\ \A n \in 1..Len(checks) : f[n] = IF checks[n].order = phase THEN Append(f[n - 1], checks[n])
                            ELSE f[n - 1]
<1> DEFINE m == Len(checks)
           More(x, n) == IF checks[n].order = phase THEN Append(x, checks[n]) ELSE x
           Body(f, n) == IF n = 0 THEN <<>> ELSE More(f[n - 1], n)
           D == {n \in 0..m : \E f : \A i \in 0..n : f[i] = Body(f, i)}
<1>0. m \in Nat
  OBVIOUS
<1>1. InPhase(checks, phase) = (CHOOSE f : f = [n \in 0..m |-> Body(f, n)])[m]
  BY DEF InPhase
<1> HIDE DEF m, More
<1>2. 0 \in D
  <2>1. \A i \in 0..0 : [n \in 0..0 |-> <<>>][i] = Body([n \in 0..0 |-> <<>>], i)
    OBVIOUS
  <2>2. 0 \in 0..m
    BY <1>0
  <2> HIDE DEF Body
  <2>3. \E f : \A i \in 0..0 : f[i] = Body(f, i)
    BY <2>1, Zenon
  <2> QED
    BY <2>2, <2>3
<1>3. ASSUME NEW n \in 1..m, n - 1 \in D PROVE n \in D
  <2>1. PICK f : \A i \in 0..(n - 1) : f[i] = Body(f, i)
    BY <1>3
  <2> DEFINE g == [i \in 0..n |-> IF i = n THEN Body(f, n) ELSE f[i]]
  <2>2. g[n] = Body(f, n) /\ \A i \in 0..(n - 1) : g[i] = f[i]
    BY <1>0
  <2>3. \A i \in 0..n : (i # n => i \in 0..(n - 1)) /\ (i # 0 => i - 1 \in 0..(n - 1))
    BY <1>0
  <2> HIDE DEF g
  <2>4. ASSUME NEW i \in 0..n PROVE g[i] = Body(g, i)
    BY <2>1, <2>2, <2>3
  <2> QED
    BY <1>0, <2>4
<1>4. m \in D
  <2> HIDE DEF D
  <2> QED
    BY <1>0, <1>2, <1>3, BoundedInduction
<1>5. PICK f : f = [n \in 0..m |-> Body(f, n)]
  <2>1. PICK h : \A i \in 0..m : h[i] = Body(h, i)
    BY <1>4
  <2> DEFINE g == [i \in 0..m |-> h[i]]
  <2>2. \A i \in 0..m : g[i] = h[i] /\ (i # 0 => i - 1 \in 0..m /\ g[i - 1] = h[i - 1])
    BY <1>0
  <2>3. \A i \in 0..m : h[i] = Body(g, i)
    BY <2>1, <2>2
  <2>4. g = [i \in 0..m |-> Body(g, i)]
    BY <2>3
  <2> QED
    BY <2>4
<1> DEFINE r == CHOOSE h : h = [n \in 0..m |-> Body(h, n)]
<1>6. r = [n \in 0..m |-> Body(r, n)]
  BY <1>5
<1> HIDE DEF r
<1>7. \A n \in 0..m : r[n] = Body(r, n)
  BY <1>6
<1>8. r[0] = <<>> /\ \A n \in 1..m : r[n] = More(r[n - 1], n)
  BY <1>0, <1>7
<1> QED
  BY <1>1, <1>8 DEF r, m, More

\* The checks run one after the other.
LEMMA ExecuteSteps ==
  ASSUME NEW v, NEW checks, Len(checks) \in Nat, NEW bail, NEW parent
  PROVE  \E f : /\ ExecuteRules(v, checks, bail, parent) = f[Len(checks)]
                /\ f[0] = Ok(v)
                /\ \A n \in 1..Len(checks) : f[n] = Checked(f[n - 1], checks[n], bail, parent)
<1> DEFINE m == Len(checks)
           More(x, n) == Checked(x, checks[n], bail, parent)
           Body(f, n) == IF n = 0 THEN Ok(v) ELSE More(f[n - 1], n)
           D == {n \in 0..m : \E f : \A i \in 0..n : f[i] = Body(f, i)}
<1>0. m \in Nat
  OBVIOUS
<1>1. ExecuteRules(v, checks, bail, parent) = (CHOOSE f : f = [n \in 0..m |-> Body(f, n)])[m]
  BY DEF ExecuteRules
<1> HIDE DEF m, More
<1>2. 0 \in D
  <2>1. \A i \in 0..0 : [n \in 0..0 |-> Ok(v)][i] = Body([n \in 0..0 |-> Ok(v)], i)
    OBVIOUS
  <2>2. 0 \in 0..m
    BY <1>0
  <2> HIDE DEF Body
  <2>3. \E f : \A i \in 0..0 : f[i] = Body(f, i)
    BY <2>1, Zenon
  <2> QED
    BY <2>2, <2>3
<1>3. ASSUME NEW n \in 1..m, n - 1 \in D PROVE n \in D
  <2>1. PICK f : \A i \in 0..(n - 1) : f[i] = Body(f, i)
    BY <1>3
  <2> DEFINE g == [i \in 0..n |-> IF i = n THEN Body(f, n) ELSE f[i]]
  <2>2. g[n] = Body(f, n) /\ \A i \in 0..(n - 1) : g[i] = f[i]
    BY <1>0
  <2>3. \A i \in 0..n : (i # n => i \in 0..(n - 1)) /\ (i # 0 => i - 1 \in 0..(n - 1))
    BY <1>0
  <2> HIDE DEF g
  <2>4. ASSUME NEW i \in 0..n PROVE g[i] = Body(g, i)
    BY <2>1, <2>2, <2>3
  <2> QED
    BY <1>0, <2>4
<1>4. m \in D
  <2> HIDE DEF D
  <2> QED
    BY <1>0, <1>2, <1>3, BoundedInduction
<1>5. PICK f : f = [n \in 0..m |-> Body(f, n)]
  <2>1. PICK h : \A i \in 0..m : h[i] = Body(h, i)
    BY <1>4
  <2> DEFINE g == [i \in 0..m |-> h[i]]
  <2>2. \A i \in 0..m : g[i] = h[i] /\ (i # 0 => i - 1 \in 0..m /\ g[i - 1] = h[i - 1])
    BY <1>0
  <2>3. \A i \in 0..m : h[i] = Body(g, i)
    BY <2>1, <2>2
  <2>4. g = [i \in 0..m |-> Body(g, i)]
    BY <2>3
  <2> QED
    BY <2>4
<1> DEFINE r == CHOOSE h : h = [n \in 0..m |-> Body(h, n)]
<1>6. r = [n \in 0..m |-> Body(r, n)]
  BY <1>5
<1> HIDE DEF r
<1>7. \A n \in 0..m : r[n] = Body(r, n)
  BY <1>6
<1>8. r[0] = Ok(v) /\ \A n \in 1..m : r[n] = More(r[n - 1], n)
  BY <1>0, <1>7
<1> QED
  BY <1>1, <1>8 DEF r, m, More

\* The keys of a set are found one after the other.
\* The n-th key is put behind those in S before it, if it is in S.
KeyStep(f, n, S) == f[n] = IF Keys[n] \in S THEN Append(f[n - 1], Keys[n]) ELSE f[n - 1]

\* The keys that are in a set, found key by key.
LEMMA KeysInSteps ==
  ASSUME NEW S
  PROVE  \E f : /\ KeysIn(S) = f[Len(Keys)]
                /\ f[0] = <<>>
                /\ \A n \in 1..Len(Keys) : KeyStep(f, n, S)
<1> DEFINE m == Len(Keys)
           More(x, n) == IF Keys[n] \in S THEN Append(x, Keys[n]) ELSE x
           Body(f, n) == IF n = 0 THEN <<>> ELSE More(f[n - 1], n)
           D == {n \in 0..m : \E f : \A i \in 0..n : f[i] = Body(f, i)}
<1>0. m \in Nat
  BY KeysAssumption
<1>1. KeysIn(S) = (CHOOSE f : f = [n \in 0..m |-> Body(f, n)])[m]
  BY DEF KeysIn
<1> HIDE DEF m, More
<1>2. 0 \in D
  <2>1. \A i \in 0..0 : [n \in 0..0 |-> <<>>][i] = Body([n \in 0..0 |-> <<>>], i)
    OBVIOUS
  <2>2. 0 \in 0..m
    BY <1>0
  <2> HIDE DEF Body
  <2>3. \E f : \A i \in 0..0 : f[i] = Body(f, i)
    BY <2>1, Zenon
  <2> QED
    BY <2>2, <2>3
<1>3. ASSUME NEW n \in 1..m, n - 1 \in D PROVE n \in D
  <2>1. PICK f : \A i \in 0..(n - 1) : f[i] = Body(f, i)
    BY <1>3
  <2> DEFINE g == [i \in 0..n |-> IF i = n THEN Body(f, n) ELSE f[i]]
  <2>2. g[n] = Body(f, n) /\ \A i \in 0..(n - 1) : g[i] = f[i]
    BY <1>0
  <2>3. \A i \in 0..n : (i # n => i \in 0..(n - 1)) /\ (i # 0 => i - 1 \in 0..(n - 1))
    BY <1>0
  <2> HIDE DEF g
  <2>4. ASSUME NEW i \in 0..n PROVE g[i] = Body(g, i)
    BY <2>1, <2>2, <2>3
  <2> QED
    BY <1>0, <2>4
<1>4. m \in D
  <2> HIDE DEF D
  <2> QED
    BY <1>0, <1>2, <1>3, BoundedInduction
<1>5. PICK f : f = [n \in 0..m |-> Body(f, n)]
  <2>1. PICK h : \A i \in 0..m : h[i] = Body(h, i)
    BY <1>4
  <2> DEFINE g == [i \in 0..m |-> h[i]]
  <2>2. \A i \in 0..m : g[i] = h[i] /\ (i # 0 => i - 1 \in 0..m /\ g[i - 1] = h[i - 1])
    BY <1>0
  <2>3. \A i \in 0..m : h[i] = Body(g, i)
    BY <2>1, <2>2
  <2>4. g = [i \in 0..m |-> Body(g, i)]
    BY <2>3
  <2> QED
    BY <2>4
<1> DEFINE r == CHOOSE h : h = [n \in 0..m |-> Body(h, n)]
<1>6. r = [n \in 0..m |-> Body(r, n)]
  BY <1>5
<1> HIDE DEF r
<1>7. \A n \in 0..m : r[n] = Body(r, n)
  BY <1>6
<1>8. r[0] = <<>> /\ \A n \in 1..m : r[n] = More(r[n - 1], n)
  BY <1>0, <1>7
<1>9. \A n \in 1..m : KeyStep(r, n, S)
  BY <1>8 DEF KeyStep, More
<1> QED
  BY <1>1, <1>8, <1>9 DEF r, m

\* The parts are gathered one after the other.
LEMMA GatheredSteps ==
  ASSUME NEW parts, Len(parts) \in Nat, NEW bail
  PROVE  \E f : /\ Gathered(parts, bail) = f[Len(parts)]
                /\ f[0] = Ok(Nothing)
                /\ \A n \in 1..Len(parts) : f[n] = Taken(f[n - 1], parts[n], bail)
<1> DEFINE m == Len(parts)
           More(x, n) == Taken(x, parts[n], bail)
           Body(f, n) == IF n = 0 THEN Ok(Nothing) ELSE More(f[n - 1], n)
           D == {n \in 0..m : \E f : \A i \in 0..n : f[i] = Body(f, i)}
<1>0. m \in Nat
  OBVIOUS
<1>1. Gathered(parts, bail) = (CHOOSE f : f = [n \in 0..m |-> Body(f, n)])[m]
  BY DEF Gathered
<1> HIDE DEF m, More
<1>2. 0 \in D
  <2>1. \A i \in 0..0 : [n \in 0..0 |-> Ok(Nothing)][i] = Body([n \in 0..0 |-> Ok(Nothing)], i)
    OBVIOUS
  <2>2. 0 \in 0..m
    BY <1>0
  <2> HIDE DEF Body
  <2>3. \E f : \A i \in 0..0 : f[i] = Body(f, i)
    BY <2>1, Zenon
  <2> QED
    BY <2>2, <2>3
<1>3. ASSUME NEW n \in 1..m, n - 1 \in D PROVE n \in D
  <2>1. PICK f : \A i \in 0..(n - 1) : f[i] = Body(f, i)
    BY <1>3
  <2> DEFINE g == [i \in 0..n |-> IF i = n THEN Body(f, n) ELSE f[i]]
  <2>2. g[n] = Body(f, n) /\ \A i \in 0..(n - 1) : g[i] = f[i]
    BY <1>0
  <2>3. \A i \in 0..n : (i # n => i \in 0..(n - 1)) /\ (i # 0 => i - 1 \in 0..(n - 1))
    BY <1>0
  <2> HIDE DEF g
  <2>4. ASSUME NEW i \in 0..n PROVE g[i] = Body(g, i)
    BY <2>1, <2>2, <2>3
  <2> QED
    BY <1>0, <2>4
<1>4. m \in D
  <2> HIDE DEF D
  <2> QED
    BY <1>0, <1>2, <1>3, BoundedInduction
<1>5. PICK f : f = [n \in 0..m |-> Body(f, n)]
  <2>1. PICK h : \A i \in 0..m : h[i] = Body(h, i)
    BY <1>4
  <2> DEFINE g == [i \in 0..m |-> h[i]]
  <2>2. \A i \in 0..m : g[i] = h[i] /\ (i # 0 => i - 1 \in 0..m /\ g[i - 1] = h[i - 1])
    BY <1>0
  <2>3. \A i \in 0..m : h[i] = Body(g, i)
    BY <2>1, <2>2
  <2>4. g = [i \in 0..m |-> Body(g, i)]
    BY <2>3
  <2> QED
    BY <2>4
<1> DEFINE r == CHOOSE h : h = [n \in 0..m |-> Body(h, n)]
<1>6. r = [n \in 0..m |-> Body(r, n)]
  BY <1>5
<1> HIDE DEF r
<1>7. \A n \in 0..m : r[n] = Body(r, n)
  BY <1>6
<1>8. r[0] = Ok(Nothing) /\ \A n \in 1..m : r[n] = More(r[n - 1], n)
  BY <1>0, <1>7
<1> QED
  BY <1>1, <1>8 DEF r, m, More
-----------------------------------------------------------------------------
(* The checks in the order of their phases. *)

\* What t has is among s and satisfies the phase, and nothing of it is missing.
Selected(t, checks, n, phase) ==
  /\ \A i \in 1..Len(t) : \E j \in 1..n : t[i] = checks[j] /\ checks[j].order = phase
  /\ \A j \in 1..n : checks[j].order = phase => \E i \in 1..Len(t) : t[i] = checks[j]
  /\ Distinct(checks) => Distinct(t)

\* The checks of a phase are those of that phase, in the order of their declaration.
LEMMA InPhaseElements ==
  ASSUME NEW checks \in Seq(Checks), NEW phase
  PROVE  \A t : t = InPhase(checks, phase) =>
           t \in Seq(Checks) /\ Selected(t, checks, Len(checks), phase)
<1> DEFINE m == Len(checks)
<1>1. m \in Nat /\ \A n \in 1..m : checks[n] \in Checks
  OBVIOUS
<1>2. PICK f : /\ InPhase(checks, phase) = f[m] /\ f[0] = <<>>
               /\ \A n \in 1..m : f[n] = IF checks[n].order = phase
                                         THEN Append(f[n - 1], checks[n]) ELSE f[n - 1]
  BY <1>1, InPhaseSteps
<1> DEFINE P == {n \in 0..m : f[n] \in Seq(Checks) /\ Selected(f[n], checks, n, phase)}
<1>3. 0 \in P
  <2>1. PICK e \in Seq(Checks) : e = <<>>
    BY <<>> \in Seq(Checks)
  <2>2. Len(e) = 0
    BY <2>1
  <2>3. Selected(e, checks, 0, phase)
    BY <2>2 DEF Selected, Distinct
  <2>4. f[0] = e /\ 0 \in 0..m
    BY <1>1, <1>2, <2>1
  <2> QED
    BY <2>3, <2>4
<1>4. ASSUME NEW n \in 1..m, n - 1 \in P PROVE n \in P
  <2>1. PICK s \in Seq(Checks) : s = f[n - 1] /\ Selected(s, checks, n - 1, phase)
    BY <1>4
  <2>2. n \in 0..m /\ \A j \in 1..n : j = n \/ j \in 1..(n - 1)
    BY <1>1
  <2>3. \A j \in 1..(n - 1) : j \in 1..n /\ j # n /\ j \in 1..m
    BY <1>1
  <2>4. CASE checks[n].order = phase
    <3>1. PICK t \in Seq(Checks) : t = Append(s, checks[n])
      BY <1>1, Append(s, checks[n]) \in Seq(Checks)
    <3>2. /\ Len(t) = Len(s) + 1 /\ Len(s) \in Nat /\ t[Len(t)] = checks[n] /\ Len(t) \in 1..Len(t)
          /\ \A i \in 1..Len(s) : i \in 1..Len(t) /\ t[i] = s[i]
          /\ \A i \in 1..Len(t) : i = Len(t) \/ i \in 1..Len(s)
      BY <1>1, <3>1
    <3>3. ASSUME NEW i \in 1..Len(t)
          PROVE  \E j \in 1..n : t[i] = checks[j] /\ checks[j].order = phase
      <4>1. CASE i = Len(t)
        BY <1>1, <2>4, <3>2, <4>1
      <4>2. CASE i \in 1..Len(s)
        <5>1. PICK j \in 1..(n - 1) : s[i] = checks[j] /\ checks[j].order = phase
          BY <2>1, <4>2 DEF Selected
        <5> QED
          BY <2>3, <3>2, <4>2, <5>1
      <4> QED
        BY <3>2, <4>1, <4>2
    <3>4. ASSUME NEW j \in 1..n, checks[j].order = phase
          PROVE  \E i \in 1..Len(t) : t[i] = checks[j]
      <4>1. CASE j = n
        BY <3>2, <4>1
      <4>2. CASE j \in 1..(n - 1)
        <5>1. PICK i \in 1..Len(s) : s[i] = checks[j]
          BY <2>1, <3>4, <4>2 DEF Selected
        <5> QED
          BY <3>2, <5>1
      <4> QED
        BY <2>2, <4>1, <4>2
    <3>5. ASSUME Distinct(checks) PROVE Distinct(t)
      <4>1. Distinct(s)
        BY <2>1, <3>5 DEF Selected
      <4>2. ASSUME NEW i \in 1..Len(s) PROVE s[i].name # checks[n].name
        <5>1. PICK j \in 1..(n - 1) : s[i] = checks[j]
          BY <2>1 DEF Selected
        <5> QED
          BY <2>3, <3>5, <5>1 DEF Distinct
      <4> QED
        BY <3>2, <4>1, <4>2 DEF Distinct
    <3>6. Selected(t, checks, n, phase)
      BY <3>3, <3>4, <3>5 DEF Selected
    <3>7. f[n] = t
      BY <1>2, <2>1, <2>4, <3>1
    <3> QED
      BY <2>2, <3>6, <3>7
  <2>5. CASE checks[n].order # phase
    <3>1. f[n] = s
      BY <1>2, <2>1, <2>5
    <3>2. Selected(s, checks, n, phase)
      BY <2>1, <2>2, <2>3, <2>5 DEF Selected
    <3> QED
      BY <2>2, <3>1, <3>2
  <2> QED
    BY <2>4, <2>5
<1>5. m \in P
  <2> HIDE DEF P
  <2>1. \A n \in 0..m : n \in P
    BY <1>1, <1>3, <1>4, BoundedInduction
  <2> QED
    BY <1>1, <2>1
<1> QED
  BY <1>2, <1>5

\* u is s with t behind it.
Joins(u, s, t) ==
  /\ Len(u) = Len(s) + Len(t) /\ Len(s) \in Nat /\ Len(t) \in Nat
  /\ \A i \in 1..Len(s) : i \in 1..Len(u) /\ u[i] = s[i]
  /\ \A i \in 1..Len(t) : Len(s) + i \in 1..Len(u) /\ u[Len(s) + i] = t[i]
  /\ \A i \in 1..Len(u) : i \in 1..Len(s) \/ \E j \in 1..Len(t) : i = Len(s) + j

\* Where the elements of two sequences are when one is put behind the other.
LEMMA Concatenated ==
  ASSUME NEW S, NEW s \in Seq(S), NEW t \in Seq(S)
  PROVE  s \o t \in Seq(S) /\ Joins(s \o t, s, t)
<1> DEFINE u == s \o t
<1>1. u \in Seq(S) /\ Len(u) = Len(s) + Len(t) /\ Len(s) \in Nat /\ Len(t) \in Nat
  OBVIOUS
<1>2. \A i \in 1..Len(s) : i \in 1..Len(u) /\ u[i] = s[i]
  OBVIOUS
<1>3. \A i \in 1..Len(t) : Len(s) + i \in 1..Len(u) /\ u[Len(s) + i] = t[i]
  OBVIOUS
<1> HIDE DEF u
<1>4. ASSUME NEW i \in 1..Len(u), i \notin 1..Len(s)
      PROVE  \E j \in 1..Len(t) : i = Len(s) + j
  <2>1. i - Len(s) \in 1..Len(t) /\ i = Len(s) + (i - Len(s))
    BY <1>1, <1>4
  <2> QED
    BY <2>1
<1>5. Joins(u, s, t)
  BY <1>1, <1>2, <1>3, <1>4 DEF Joins
<1> QED
  BY <1>1, <1>5 DEF u

\* The checks in the order of their phases are those of the rule, and no check of
\* the first phase comes after another.
InPhases(t, checks) ==
  /\ t \in Seq(Checks)
  /\ \A i \in 1..Len(t) : \E j \in 1..Len(checks) : t[i] = checks[j]
  /\ \A j \in 1..Len(checks) : \E i \in 1..Len(t) : t[i] = checks[j]
  /\ \A i, j \in 1..Len(t) : i < j /\ t[j].order = "pre" => t[i].order = "pre"
  /\ Distinct(checks) => Distinct(t)

\* Sorting by phase loses no check, adds none and puts those that come before first.
LEMMA ByPhaseElements ==
  ASSUME NEW checks \in Seq(Checks)
  PROVE  InPhases(ByPhase(checks), checks)
<1>1. PICK a \in Seq(Checks) : a = InPhase(checks, "pre") /\ Selected(a, checks, Len(checks), "pre")
  BY InPhaseElements
<1>2. PICK b \in Seq(Checks) :
        b = InPhase(checks, "default") /\ Selected(b, checks, Len(checks), "default")
  BY InPhaseElements
<1>3. PICK c \in Seq(Checks) : c = InPhase(checks, "post") /\ Selected(c, checks, Len(checks), "post")
  BY InPhaseElements
<1> DEFINE d == a \o b
           u == d \o c
<1>4. d \in Seq(Checks) /\ Joins(d, a, b)
  BY Concatenated
<1> HIDE DEF d
<1>5. u \in Seq(Checks) /\ Joins(u, d, c)
  BY <1>4, Concatenated
<1>6. u = ByPhase(checks)
  BY <1>1, <1>2, <1>3 DEF ByPhase, d
<1> HIDE DEF u
<1>7. /\ Len(d) = Len(a) + Len(b) /\ Len(a) \in Nat /\ Len(b) \in Nat
      /\ \A i \in 1..Len(a) : i \in 1..Len(d) /\ d[i] = a[i]
      /\ \A i \in 1..Len(b) : Len(a) + i \in 1..Len(d) /\ d[Len(a) + i] = b[i]
      /\ \A i \in 1..Len(d) : i \in 1..Len(a) \/ \E j \in 1..Len(b) : i = Len(a) + j
  BY <1>4 DEF Joins
<1>8. /\ Len(u) = Len(d) + Len(c) /\ Len(d) \in Nat /\ Len(c) \in Nat
      /\ \A i \in 1..Len(d) : i \in 1..Len(u) /\ u[i] = d[i]
      /\ \A i \in 1..Len(c) : Len(d) + i \in 1..Len(u) /\ u[Len(d) + i] = c[i]
      /\ \A i \in 1..Len(u) : i \in 1..Len(d) \/ \E j \in 1..Len(c) : i = Len(d) + j
  BY <1>5 DEF Joins
<1>9. ASSUME NEW i \in 1..Len(u)
      PROVE  \/ i \in 1..Len(a) /\ u[i] = a[i]
             \/ \E j \in 1..Len(b) : u[i] = b[j] /\ i = Len(a) + j
             \/ \E j \in 1..Len(c) : u[i] = c[j] /\ i = Len(d) + j
  <2>1. CASE i \in 1..Len(d)
    <3>1. u[i] = d[i]
      BY <1>8, <2>1
    <3>2. CASE i \in 1..Len(a)
      BY <1>7, <3>1, <3>2
    <3>3. CASE \E j \in 1..Len(b) : i = Len(a) + j
      BY <1>7, <3>1, <3>3
    <3> QED
      BY <1>7, <2>1, <3>2, <3>3
  <2>2. CASE \E j \in 1..Len(c) : i = Len(d) + j
    BY <1>8, <2>2
  <2> QED
    BY <1>8, <2>1, <2>2
<1>10. ASSUME NEW i \in 1..Len(u) PROVE \E j \in 1..Len(checks) : u[i] = checks[j]
  <2>1. CASE \E j \in 1..Len(a) : u[i] = a[j]
    BY <1>1, <2>1 DEF Selected
  <2>2. CASE \E j \in 1..Len(b) : u[i] = b[j]
    BY <1>2, <2>2 DEF Selected
  <2>3. CASE \E j \in 1..Len(c) : u[i] = c[j]
    BY <1>3, <2>3 DEF Selected
  <2> QED
    BY <1>9, <2>1, <2>2, <2>3
<1>11. ASSUME NEW j \in 1..Len(checks) PROVE \E i \in 1..Len(u) : u[i] = checks[j]
  <2>1. checks[j].order \in {"pre", "default", "post"}
    <3>1. checks[j] \in Checks
      OBVIOUS
    <3> QED
      BY <3>1 DEF Checks
  <2>2. CASE checks[j].order = "pre"
    <3>1. PICK i \in 1..Len(a) : a[i] = checks[j]
      BY <1>1, <2>2 DEF Selected
    <3>2. i \in 1..Len(d) /\ d[i] = checks[j]
      BY <1>7, <3>1
    <3> QED
      BY <1>8, <3>2
  <2>3. CASE checks[j].order = "default"
    <3>1. PICK i \in 1..Len(b) : b[i] = checks[j]
      BY <1>2, <2>3 DEF Selected
    <3>2. Len(a) + i \in 1..Len(d) /\ d[Len(a) + i] = checks[j]
      BY <1>7, <3>1
    <3> QED
      BY <1>8, <3>2
  <2>4. CASE checks[j].order = "post"
    <3>1. PICK i \in 1..Len(c) : c[i] = checks[j]
      BY <1>3, <2>4 DEF Selected
    <3> QED
      BY <1>8, <3>1
  <2> QED
    BY <2>1, <2>2, <2>3, <2>4
<1>12. /\ \A i \in 1..Len(a) : a[i].order = "pre"
       /\ \A i \in 1..Len(b) : b[i].order = "default"
       /\ \A i \in 1..Len(c) : c[i].order = "post"
  <2>1. \A i \in 1..Len(a) : a[i].order = "pre"
    BY <1>1 DEF Selected
  <2>2. \A i \in 1..Len(b) : b[i].order = "default"
    BY <1>2 DEF Selected
  <2>3. \A i \in 1..Len(c) : c[i].order = "post"
    BY <1>3 DEF Selected
  <2> QED
    BY <2>1, <2>2, <2>3
<1>13. \A i, j \in 1..Len(u) : i < j /\ u[j].order = "pre" => u[i].order = "pre"
  <2> SUFFICES ASSUME NEW i \in 1..Len(u), NEW j \in 1..Len(u), i < j, u[j].order = "pre"
               PROVE  u[i].order = "pre"
    OBVIOUS
  <2>1. j \in 1..Len(a)
    BY <1>9, <1>12
  <2>2. i \in 1..Len(a)
    BY <1>7, <2>1
  <2>3. u[i] = a[i]
    BY <1>7, <1>8, <2>2
  <2> QED
    BY <1>12, <2>2, <2>3
<1>14. ASSUME Distinct(checks) PROVE Distinct(u)
  <2>1. Distinct(a) /\ Distinct(b) /\ Distinct(c)
    BY <1>1, <1>2, <1>3, <1>14 DEF Selected
  <2> SUFFICES ASSUME NEW i \in 1..Len(u), NEW j \in 1..Len(u), u[i].name = u[j].name
               PROVE  i = j
    BY DEF Distinct
  <2>2. u[i] = u[j]
    <3>1. PICK k \in 1..Len(checks) : u[i] = checks[k]
      BY <1>10
    <3>2. PICK l \in 1..Len(checks) : u[j] = checks[l]
      BY <1>10
    <3> QED
      BY <1>14, <3>1, <3>2 DEF Distinct
  <2>3. CASE i \in 1..Len(a) /\ u[i] = a[i]
    <3>1. j \in 1..Len(a) /\ u[j] = a[j]
      BY <1>9, <1>12, <2>2, <2>3
    <3> QED
      BY <2>1, <2>2, <2>3, <3>1 DEF Distinct
  <2>4. CASE \E k \in 1..Len(b) : u[i] = b[k] /\ i = Len(a) + k
    <3>1. PICK k \in 1..Len(b) : u[i] = b[k] /\ i = Len(a) + k
      BY <2>4
    <3>2. u[j].order = "default"
      BY <1>12, <2>2, <3>1
    <3>3. ~(j \in 1..Len(a) /\ u[j] = a[j])
      BY <1>12, <3>2
    <3>4. ~\E l \in 1..Len(c) : u[j] = c[l] /\ j = Len(d) + l
      BY <1>12, <3>2
    <3>5. PICK l \in 1..Len(b) : u[j] = b[l] /\ j = Len(a) + l
      BY <1>9, <3>3, <3>4
    <3>6. b[k].name = b[l].name
      BY <2>2, <3>1, <3>5
    <3>7. k = l
      BY <2>1, <3>6 DEF Distinct
    <3> QED
      BY <3>1, <3>5, <3>7
  <2>5. CASE \E k \in 1..Len(c) : u[i] = c[k] /\ i = Len(d) + k
    <3>1. PICK k \in 1..Len(c) : u[i] = c[k] /\ i = Len(d) + k
      BY <2>5
    <3>2. u[j].order = "post"
      BY <1>12, <2>2, <3>1
    <3>3. ~(j \in 1..Len(a) /\ u[j] = a[j])
      BY <1>12, <3>2
    <3>4. ~\E l \in 1..Len(b) : u[j] = b[l] /\ j = Len(a) + l
      BY <1>12, <3>2
    <3>5. PICK l \in 1..Len(c) : u[j] = c[l] /\ j = Len(d) + l
      BY <1>9, <3>3, <3>4
    <3>6. c[k].name = c[l].name
      BY <2>2, <3>1, <3>5
    <3>7. k = l
      BY <2>1, <3>6 DEF Distinct
    <3> QED
      BY <3>1, <3>5, <3>7
  <2> QED
    BY <1>9, <2>3, <2>4, <2>5
<1> QED
  BY <1>5, <1>6, <1>10, <1>11, <1>13, <1>14 DEF InPhases
-----------------------------------------------------------------------------
(* The keys and the places the descent comes to, each once. *)

\* t has what is in T, each once.
Lists(t, T) ==
  /\ \A i \in 1..Len(t) : t[i] \in T
  /\ \A x \in T : \E i \in 1..Len(t) : t[i] = x
  /\ \A i, j \in 1..Len(t) : t[i] = t[j] => i = j

\* The steps of a path.
Hops == Nat \cup ToSet(Keys)

\* Every key is in one place of the order of keys.
LEMMA KeysAre ==
  /\ Len(Keys) \in Nat
  /\ \A n \in 1..Len(Keys) : Keys[n] \in ToSet(Keys)
  /\ \A x \in ToSet(Keys) : \E n \in 1..Len(Keys) : Keys[n] = x
  /\ \A i, j \in 1..Len(Keys) : Keys[i] = Keys[j] => i = j
<1>1. Keys \in Seq(ToSet(Keys)) /\ IsInjective(Keys)
  BY KeysAssumption
<1>2. DOMAIN Keys = 1..Len(Keys) /\ Len(Keys) \in Nat
  BY <1>1
<1> QED
  BY <1>1, <1>2 DEF ToSet, IsInjective

\* The keys that are in a set are listed once each.
LEMMA KeysInElements ==
  ASSUME NEW S, S \subseteq ToSet(Keys)
  PROVE  KeysIn(S) \in Seq(Hops) /\ Lists(KeysIn(S), S)
<1> DEFINE m == Len(Keys)
           Upto(n) == {Keys[i] : i \in 1..n} \cap S
<1>1. PICK f : /\ KeysIn(S) = f[m] /\ f[0] = <<>>
               /\ \A n \in 1..m : f[n] = IF Keys[n] \in S THEN Append(f[n - 1], Keys[n])
                                         ELSE f[n - 1]
  <2>1. PICK g : /\ KeysIn(S) = g[Len(Keys)] /\ g[0] = <<>>
                 /\ \A n \in 1..Len(Keys) : KeyStep(g, n, S)
    BY KeysInSteps
  <2> QED
    BY <2>1 DEF KeyStep
<1>2. m \in Nat /\ \A n \in 1..m : Keys[n] \in Hops
  BY KeysAre DEF Hops
<1> DEFINE P == {n \in 0..m : f[n] \in Seq(Hops) /\ Lists(f[n], Upto(n))}
<1>3. 0 \in P
  <2>1. PICK e \in Seq(Hops) : e = <<>>
    BY <<>> \in Seq(Hops)
  <2>2. Len(e) = 0 /\ Upto(0) = {}
    BY <2>1
  <2>3. Lists(e, Upto(0))
    BY <2>2 DEF Lists
  <2>4. f[0] = e /\ 0 \in 0..m
    BY <1>1, <1>2, <2>1
  <2> QED
    BY <2>3, <2>4
<1>4. ASSUME NEW n \in 1..m, n - 1 \in P PROVE n \in P
  <2>1. PICK s \in Seq(Hops) : s = f[n - 1] /\ Lists(s, Upto(n - 1))
    BY <1>4
  <2>2. n \in 0..m /\ \A j \in 1..n : j = n \/ j \in 1..(n - 1)
    BY <1>2
  <2>3. \A j \in 1..(n - 1) : j \in 1..n /\ j # n /\ j \in 1..m
    BY <1>2
  <2>4. CASE Keys[n] \in S
    <3>1. Upto(n) = Upto(n - 1) \cup {Keys[n]}
      BY <2>2, <2>3, <2>4
    <3>2. Keys[n] \notin Upto(n - 1)
      BY <2>3, KeysAre
    <3> DEFINE t == Append(s, Keys[n])
    <3>3. /\ t \in Seq(Hops)
          /\ Len(t) = Len(s) + 1 /\ Len(s) \in Nat /\ t[Len(t)] = Keys[n] /\ Len(t) \in 1..Len(t)
          /\ \A i \in 1..Len(s) : i \in 1..Len(t) /\ t[i] = s[i]
          /\ \A i \in 1..Len(t) : i = Len(t) \/ i \in 1..Len(s)
      BY <1>2
    <3>4. f[n] = t
      BY <1>1, <2>1, <2>4
    <3> HIDE DEF t, Upto
    <3>5. Lists(t, Upto(n))
      <4>1. \A i \in 1..Len(t) : t[i] \in Upto(n)
        BY <2>1, <3>1, <3>3 DEF Lists
      <4>2. ASSUME NEW x \in Upto(n) PROVE \E i \in 1..Len(t) : t[i] = x
        <5>1. CASE x = Keys[n]
          BY <3>3, <5>1
        <5>2. CASE x \in Upto(n - 1)
          <6>1. PICK i \in 1..Len(s) : s[i] = x
            BY <2>1, <5>2 DEF Lists
          <6> QED
            BY <3>3, <6>1
        <5> QED
          BY <3>1, <5>1, <5>2
      <4>3. \A i \in 1..Len(s) : s[i] # Keys[n]
        BY <2>1, <3>2 DEF Lists
      <4>4. \A i, j \in 1..Len(t) : t[i] = t[j] => i = j
        BY <2>1, <3>3, <4>3 DEF Lists
      <4> QED
        BY <4>1, <4>2, <4>4 DEF Lists
    <3> QED
      BY <2>2, <3>3, <3>4, <3>5
  <2>5. CASE Keys[n] \notin S
    <3>1. Upto(n) = Upto(n - 1)
      BY <2>2, <2>3, <2>5
    <3>2. f[n] = s
      BY <1>1, <2>1, <2>5
    <3> HIDE DEF Upto
    <3> QED
      BY <2>1, <2>2, <3>1, <3>2
  <2> QED
    BY <2>4, <2>5
<1>5. m \in P
  <2> HIDE DEF P
  <2>1. \A n \in 0..m : n \in P
    BY <1>2, <1>3, <1>4, BoundedInduction
  <2> QED
    BY <1>2, <2>1
<1>6. Upto(m) = S
  BY KeysAre
<1> QED
  BY <1>1, <1>5, <1>6

\* The descent comes to each place with a validator and to each property once.
Stops(rule, v) ==
  IF rule.type = "array" THEN DOMAIN v.entries ELSE DOMAIN rule.shape \cup DOMAIN v.entries

\* The descent comes once to every place there is something to do.
LEMMA RouteElements ==
  ASSUME NEW rule, NEW v,
         \/ rule.type = "array" /\ v.entries \in Seq(Values)
         \/ /\ rule.type = "object"
            /\ DOMAIN rule.shape \subseteq ToSet(Keys) /\ DOMAIN v.entries \subseteq ToSet(Keys)
  PROVE  Route(rule, v) \in Seq(Hops) /\ Lists(Route(rule, v), Stops(rule, v))
<1>1. CASE rule.type = "array" /\ v.entries \in Seq(Values)
  <2> DEFINE m == Len(v.entries)
  <2>1. m \in Nat /\ DOMAIN v.entries = 1..m
    BY <1>1
  <2> DEFINE t == [i \in 1..m |-> i]
  <2>2. Route(rule, v) = t /\ Stops(rule, v) = 1..m
    BY <1>1, <2>1 DEF Route, Stops
  <2> HIDE DEF m
  <2>3. t \in Seq(Nat) /\ Len(t) = m /\ \A i \in 1..m : t[i] = i
    BY <2>1
  <2> HIDE DEF t
  <2>4. t \in Seq(Hops)
    <3>1. Nat \subseteq Hops
      BY DEF Hops
    <3> QED
      BY <2>3, <3>1
  <2>5. Lists(t, 1..m)
    BY <2>3 DEF Lists
  <2> QED
    BY <2>2, <2>4, <2>5
<1>2. CASE /\ rule.type = "object"
           /\ DOMAIN rule.shape \subseteq ToSet(Keys) /\ DOMAIN v.entries \subseteq ToSet(Keys)
  <2> DEFINE A == DOMAIN rule.shape
             B == DOMAIN v.entries \ DOMAIN rule.shape
             a == KeysIn(A)
             b == KeysIn(B)
             t == a \o b
  <2>1. Route(rule, v) = t /\ Stops(rule, v) = A \cup B
    BY <1>2 DEF Route, Stops
  <2>2. A \subseteq ToSet(Keys) /\ B \subseteq ToSet(Keys) /\ A \cap B = {}
    BY <1>2
  <2> HIDE DEF A, B
  <2>3. a \in Seq(Hops) /\ Lists(a, A) /\ b \in Seq(Hops) /\ Lists(b, B)
    BY <2>2, KeysInElements
  <2> HIDE DEF a, b
  <2>4. t \in Seq(Hops) /\ Joins(t, a, b)
    BY <2>3, Concatenated
  <2> HIDE DEF t
  <2>5. ASSUME NEW i \in 1..Len(t)
        PROVE  \/ i \in 1..Len(a) /\ t[i] = a[i] /\ t[i] \in A
               \/ t[i] \in B /\ \E j \in 1..Len(b) : t[i] = b[j] /\ i = Len(a) + j
    <3>1. CASE i \in 1..Len(a)
      <4>1. t[i] = a[i]
        BY <2>4, <3>1 DEF Joins
      <4> QED
        BY <2>3, <3>1, <4>1 DEF Lists
    <3>2. CASE \E j \in 1..Len(b) : i = Len(a) + j
      <4>1. PICK j \in 1..Len(b) : i = Len(a) + j
        BY <3>2
      <4>2. t[i] = b[j]
        BY <2>4, <4>1 DEF Joins
      <4> QED
        BY <2>3, <4>1, <4>2 DEF Lists
    <3> QED
      BY <2>4, <3>1, <3>2 DEF Joins
  <2>6. ASSUME NEW x \in A \cup B PROVE \E i \in 1..Len(t) : t[i] = x
    <3>1. CASE x \in A
      <4>1. PICK i \in 1..Len(a) : a[i] = x
        BY <2>3, <3>1 DEF Lists
      <4> QED
        BY <2>4, <4>1 DEF Joins
    <3>2. CASE x \in B
      <4>1. PICK i \in 1..Len(b) : b[i] = x
        BY <2>3, <3>2 DEF Lists
      <4> QED
        BY <2>4, <4>1 DEF Joins
    <3> QED
      BY <3>1, <3>2
  <2>7. ASSUME NEW i \in 1..Len(t), NEW j \in 1..Len(t), t[i] = t[j] PROVE i = j
    <3>1. CASE t[i] \in A
      <4>1. /\ i \in 1..Len(a) /\ t[i] = a[i]
            /\ j \in 1..Len(a) /\ t[j] = a[j]
        BY <2>2, <2>5, <2>7, <3>1
      <4>2. a[i] = a[j]
        BY <2>7, <4>1
      <4> QED
        BY <2>3, <4>1, <4>2 DEF Lists
    <3>2. CASE t[i] \in B
      <4>1. PICK k \in 1..Len(b) : t[i] = b[k] /\ i = Len(a) + k
        BY <2>2, <2>5, <3>2
      <4>2. PICK l \in 1..Len(b) : t[j] = b[l] /\ j = Len(a) + l
        BY <2>2, <2>5, <2>7, <3>2
      <4>3. b[k] = b[l]
        BY <2>7, <4>1, <4>2
      <4>4. k = l
        BY <2>3, <4>3 DEF Lists
      <4> QED
        BY <4>1, <4>2, <4>4
    <3> QED
      BY <2>5, <3>1, <3>2
  <2>8. Lists(t, A \cup B)
    BY <2>5, <2>6, <2>7 DEF Lists
  <2> QED
    BY <2>1, <2>4, <2>8
<1> QED
  BY <1>1, <1>2
-----------------------------------------------------------------------------
(* What the checks report. *)

Strings == [is : {"string"}, core : Nat, blanks : Nat]
Issues == [path : Seq(Hops), parent : Types \cup {""},
           rule : Types \cup {"minLength", "maxLength", "trim", "extra"}]

\* v after the first n checks of t, if none fails.
Bare(v, t, n) == IF \E i \in 1..n : t[i].name = "trim" THEN [v EXCEPT !.blanks = 0] ELSE v

\* s reports checks among the first n of t that fail for w: with bail some of them,
\* otherwise all, and no check twice.
Reported(s, t, n, w, bail, type) ==
  /\ s = <<>> <=> \A i \in 1..n : Passes(t[i], w)
  /\ \A k \in 1..Len(s) :
       \E i \in 1..n : ~Passes(t[i], w) /\ s[k] = Issue(<<>>, type, t[i].name)
  /\ ~bail => \A i \in 1..n : ~Passes(t[i], w) =>
       \E k \in 1..Len(s) : s[k] = Issue(<<>>, type, t[i].name)
  /\ Distinct(t) => \A k, l \in 1..Len(s) : s[k] = s[l] => k = l

Done(x, v, t, n, w, bail, type) ==
  /\ x = [value |-> Bare(v, t, n), issues |-> x.issues]
  /\ x.issues \in Seq(Issues)
  /\ Reported(x.issues, t, n, w, bail, type)

\* A check that fails is reported.
LEMMA FailureReported ==
  ASSUME NEW t \in Seq(Checks), NEW n \in 1..Len(t), NEW s \in Seq(Issues), NEW w,
         NEW bail \in BOOLEAN, NEW type \in Types, ~Passes(t[n], w),
         Reported(s, t, n - 1, w, bail, type)
  PROVE  LET u == Append(s, Issue(<<>>, type, t[n].name))
         IN  u \in Seq(Issues) /\ Reported(u, t, n, w, bail, type)
<1> DEFINE x == Issue(<<>>, type, t[n].name)
           u == Append(s, x)
<1>1. t[n] \in Checks /\ n \in Nat
  OBVIOUS
<1>2. x \in Issues /\ \A c \in Checks : x = Issue(<<>>, type, c.name) => c.name = t[n].name
  <2>1. <<>> \in Seq(Hops)
    OBVIOUS
  <2>2. t[n].name \in Types \cup {"minLength", "maxLength", "trim", "extra"} /\ type \in Types \cup {""}
    BY <1>1 DEF Types, Checks
  <2>3. x \in Issues
    BY <2>1, <2>2 DEF Issues, Issue
  <2>4. x.rule = t[n].name /\ \A c \in Checks : Issue(<<>>, type, c.name).rule = c.name
    BY DEF Issue
  <2> QED
    BY <2>3, <2>4
<1>3. x = Issue(<<>>, type, t[n].name)
  OBVIOUS
<1> HIDE DEF x
<1>4. /\ u \in Seq(Issues)
      /\ Len(u) = Len(s) + 1 /\ Len(s) \in Nat /\ u[Len(u)] = x /\ Len(u) \in 1..Len(u)
      /\ \A i \in 1..Len(s) : i \in 1..Len(u) /\ u[i] = s[i]
      /\ \A i \in 1..Len(u) : i = Len(u) \/ i \in 1..Len(s)
  BY <1>2
<1> HIDE DEF u
<1>5. (\A j \in 1..n : j = n \/ j \in 1..(n - 1)) /\ n \in 1..n /\ \A j \in 1..(n - 1) : j \in 1..n /\ j # n
  BY <1>1
<1>6. u # <<>> /\ ~(\A i \in 1..n : Passes(t[i], w))
  BY <1>4, <1>5
<1>7. ASSUME NEW k \in 1..Len(u)
      PROVE  \E i \in 1..n : ~Passes(t[i], w) /\ u[k] = Issue(<<>>, type, t[i].name)
  <2>1. CASE k = Len(u)
    BY <1>3, <1>4, <1>5, <2>1
  <2>2. CASE k \in 1..Len(s)
    <3>1. PICK i \in 1..(n - 1) : ~Passes(t[i], w) /\ s[k] = Issue(<<>>, type, t[i].name)
      BY <2>2 DEF Reported
    <3> QED
      BY <1>4, <1>5, <2>2, <3>1
  <2> QED
    BY <1>4, <2>1, <2>2
<1>8. ASSUME ~bail, NEW i \in 1..n, ~Passes(t[i], w)
      PROVE  \E k \in 1..Len(u) : u[k] = Issue(<<>>, type, t[i].name)
  <2>1. CASE i = n
    BY <1>3, <1>4, <2>1
  <2>2. CASE i \in 1..(n - 1)
    <3>1. PICK k \in 1..Len(s) : s[k] = Issue(<<>>, type, t[i].name)
      BY <1>8, <2>2 DEF Reported
    <3> QED
      BY <1>4, <3>1
  <2> QED
    BY <1>5, <2>1, <2>2
<1>9. ASSUME Distinct(t) PROVE \A k, l \in 1..Len(u) : u[k] = u[l] => k = l
  <2>1. \A k, l \in 1..Len(s) : s[k] = s[l] => k = l
    BY <1>9 DEF Reported
  <2>2. ASSUME NEW k \in 1..Len(s) PROVE s[k] # x
    <3>1. PICK i \in 1..(n - 1) : s[k] = Issue(<<>>, type, t[i].name)
      BY DEF Reported
    <3>2. i \in 1..Len(t) /\ i # n /\ t[i] \in Checks
      BY <1>1
    <3>3. t[i].name # t[n].name
      BY <1>9, <3>2 DEF Distinct
    <3> QED
      BY <1>2, <3>1, <3>2, <3>3
  <2> QED
    BY <1>4, <2>1, <2>2
<1>10. Reported(u, t, n, w, bail, type)
  BY <1>6, <1>7, <1>8, <1>9 DEF Reported
<1> QED
  BY <1>3, <1>4, <1>10 DEF u, x

\* What a check that passes, or that is not run any more, leaves as it is.
LEMMA NothingReported ==
  ASSUME NEW t, NEW n \in Nat, n # 0, NEW s, NEW w, NEW bail, NEW type,
         Reported(s, t, n - 1, w, bail, type),
         Passes(t[n], w) \/ (bail /\ s # <<>>)
  PROVE  Reported(s, t, n, w, bail, type)
<1>1. (\A j \in 1..n : j = n \/ j \in 1..(n - 1)) /\ n \in 1..n /\ \A j \in 1..(n - 1) : j \in 1..n /\ j # n
  OBVIOUS
<1>2. s = <<>> <=> \A i \in 1..n : Passes(t[i], w)
  BY <1>1 DEF Reported
<1>3. \A k \in 1..Len(s) :
        \E i \in 1..n : ~Passes(t[i], w) /\ s[k] = Issue(<<>>, type, t[i].name)
  BY <1>1 DEF Reported
<1>4. ~bail => \A i \in 1..n : ~Passes(t[i], w) =>
        \E k \in 1..Len(s) : s[k] = Issue(<<>>, type, t[i].name)
  BY <1>1 DEF Reported
<1> QED
  BY <1>2, <1>3, <1>4 DEF Reported

\* Checks come to the value without its blanks, if one of them trims, and to what
\* fails for that value, whatever was done before the trim.
LEMMA ExecuteMeans ==
  ASSUME NEW t \in Seq(Checks), NEW v, NEW type \in Types, NEW bail \in BOOLEAN,
         \A i, j \in 1..Len(t) : i < j /\ t[j].order = "pre" => t[i].order = "pre",
         \A i \in 1..Len(t) : Suits(t[i], type),
         type = "string" => v \in Strings
  PROVE  Done(ExecuteRules(v, t, bail, type), v, t, Len(t), Bare(v, t, Len(t)), bail, type)
<1> DEFINE m == Len(t)
           w == Bare(v, t, m)
<1>1. m \in Nat /\ \A i \in 1..m : t[i] \in Checks
  OBVIOUS
<1>2. PICK f : /\ ExecuteRules(v, t, bail, type) = f[m] /\ f[0] = Ok(v)
               /\ \A n \in 1..m : f[n] = Checked(f[n - 1], t[n], bail, type)
  BY <1>1, ExecuteSteps
<1> DEFINE P == {n \in 0..m : Done(f[n], v, t, n, w, bail, type)}
<1>3. 0 \in P
  <2>1. f[0] = [value |-> v, issues |-> <<>>] /\ <<>> \in Seq(Issues) /\ 0 \in 0..m
    BY <1>1, <1>2 DEF Ok
  <2>2. Bare(v, t, 0) = v
    BY DEF Bare
  <2>3. Reported(<<>>, t, 0, w, bail, type)
    <3>1. PICK e \in Seq(Issues) : e = <<>>
      BY <2>1
    <3>2. Len(e) = 0
      BY <3>1
    <3>3. Reported(e, t, 0, w, bail, type)
      BY <3>1, <3>2 DEF Reported
    <3> QED
      BY <3>1, <3>3
  <2>4. Done(f[0], v, t, 0, w, bail, type)
    BY <2>1, <2>2, <2>3 DEF Done
  <2> QED
    BY <2>1, <2>4
<1>4. ASSUME NEW n \in 1..m, n - 1 \in P PROVE n \in P
  <2> DEFINE x == f[n - 1]
  <2>1. /\ x = [value |-> Bare(v, t, n - 1), issues |-> x.issues]
        /\ x.issues \in Seq(Issues)
        /\ Reported(x.issues, t, n - 1, w, bail, type)
    BY <1>4 DEF Done
  <2>2. /\ n \in 0..m /\ n \in Nat /\ n # 0 /\ n \in 1..n
        /\ \A j \in 1..n : j = n \/ j \in 1..(n - 1)
        /\ \A j \in 1..(n - 1) : j \in 1..n /\ j \in 1..m /\ j < n
    BY <1>1
  <2>3. f[n] = Checked(x, t[n], bail, type)
    BY <1>2
  <2> HIDE DEF x
  <2>4. t[n] \in Checks /\ Suits(t[n], type)
    BY <1>1
  <2>5. CASE t[n].name = "trim"
    <3>1. ASSUME NEW i \in 1..(n - 1) PROVE t[i].name = "trim" /\ Passes(t[i], w)
      <4>1. t[i].order = "pre"
        BY <2>2, <2>4, <2>5 DEF Suits
      <4>2. t[i].name = "trim"
        BY <2>2, <4>1 DEF Suits
      <4> QED
        BY <4>2 DEF Passes
    <3>2. x.issues = <<>>
      BY <2>1, <3>1 DEF Reported
    <3>3. Passes(t[n], x.value) /\ Passes(t[n], w) /\ ~Stopped(x, bail)
      BY <2>5, <3>2 DEF Passes, Stopped, Succeeds
    <3>4. f[n] = [x EXCEPT !.value = [@ EXCEPT !.blanks = 0]]
      BY <2>3, <2>5, <3>3 DEF Checked, Changed
    <3>5. [Bare(v, t, n - 1) EXCEPT !.blanks = 0] = Bare(v, t, n)
      <4>1. v \in Strings
        BY <2>4, <2>5 DEF Suits
      <4>2. Bare(v, t, n) = [v EXCEPT !.blanks = 0]
        BY <2>2, <2>5 DEF Bare
      <4>3. Bare(v, t, n - 1) = v \/ Bare(v, t, n - 1) = [v EXCEPT !.blanks = 0]
        BY DEF Bare
      <4>4. [[v EXCEPT !.blanks = 0] EXCEPT !.blanks = 0] = [v EXCEPT !.blanks = 0]
        BY <4>1 DEF Strings
      <4> QED
        BY <4>2, <4>3, <4>4
    <3>6. f[n] = [value |-> Bare(v, t, n), issues |-> x.issues]
      <4>1. x.value = Bare(v, t, n - 1)
        BY <2>1
      <4>2. f[n] = [x EXCEPT !.value = Bare(v, t, n)]
        BY <3>4, <3>5, <4>1
      <4> QED
        BY <2>1, <4>2
    <3>7. Reported(x.issues, t, n, w, bail, type)
      BY <2>1, <2>2, <3>3, NothingReported
    <3>8. Done(f[n], v, t, n, w, bail, type)
      BY <2>1, <3>6, <3>7 DEF Done
    <3> QED
      BY <2>2, <3>8
  <2>6. CASE t[n].name # "trim"
    <3>1. Bare(v, t, n - 1) = Bare(v, t, n)
      BY <2>2, <2>6 DEF Bare
    <3>2. Bare(v, t, n) = w
      <4>1. ASSUME NEW j \in 1..m, t[j].name = "trim" PROVE j \in 1..n
        <5>1. t[j].order = "pre" /\ t[n].order # "pre"
          BY <2>4, <2>6, <4>1 DEF Suits
        <5> QED
          BY <1>1, <5>1
      <4>2. \A j \in 1..n : j \in 1..m
        BY <1>1
      <4> QED
        BY <4>1, <4>2 DEF Bare
    <3>3. x.value = w
      BY <2>1, <3>1, <3>2
    <3>4. CASE Stopped(x, bail)
      <4>1. f[n] = x /\ bail /\ x.issues # <<>>
        BY <2>3, <3>4 DEF Checked, Stopped, Succeeds
      <4>2. Reported(x.issues, t, n, w, bail, type)
        BY <2>1, <2>2, <4>1, NothingReported
      <4>3. Done(f[n], v, t, n, w, bail, type)
        BY <2>1, <3>1, <4>1, <4>2 DEF Done
      <4> QED
        BY <2>2, <4>3
    <3>5. CASE ~Stopped(x, bail) /\ Passes(t[n], w)
      <4>1. f[n] = [x EXCEPT !.value = @]
        BY <2>3, <2>6, <3>3, <3>5 DEF Checked, Changed
      <4>2. f[n] = [value |-> Bare(v, t, n), issues |-> x.issues]
        BY <2>1, <3>1, <4>1
      <4>3. Reported(x.issues, t, n, w, bail, type)
        BY <2>1, <2>2, <3>5, NothingReported
      <4>4. Done(f[n], v, t, n, w, bail, type)
        BY <2>1, <4>2, <4>3 DEF Done
      <4> QED
        BY <2>2, <4>4
    <3>6. CASE ~Stopped(x, bail) /\ ~Passes(t[n], w)
      <4> DEFINE u == Append(x.issues, Issue(<<>>, type, t[n].name))
      <4>1. f[n] = [x EXCEPT !.issues = u]
        BY <2>3, <3>3, <3>6 DEF Checked
      <4>2. u \in Seq(Issues) /\ Reported(u, t, n, w, bail, type)
        BY <2>1, <3>6, FailureReported
      <4> HIDE DEF u
      <4>3. f[n] = [value |-> Bare(v, t, n), issues |-> u]
        BY <2>1, <3>1, <4>1
      <4>4. Done(f[n], v, t, n, w, bail, type)
        BY <4>2, <4>3 DEF Done
      <4> QED
        BY <2>2, <4>4
    <3> QED
      BY <3>4, <3>5, <3>6
  <2> QED
    BY <2>5, <2>6
<1>5. m \in P
  <2> HIDE DEF P
  <2>1. \A n \in 0..m : n \in P
    BY <1>1, <1>3, <1>4, BoundedInduction
  <2> QED
    BY <1>1, <2>1
<1> QED
  BY <1>2, <1>5
-----------------------------------------------------------------------------
(* What bail leaves of it. *)

\* x is what y comes to with bail.
Shortened(x, y) ==
  /\ y.issues = <<>> => x = y
  /\ y.issues # <<>> => x.issues = <<Head(y.issues)>>

\* A success is what bail makes of itself.
LEMMA SameIsShort ==
  ASSUME NEW y, y.issues = <<>> PROVE Shortened(y, y)
BY DEF Shortened

\* The head of the issues is what bail leaves of them.
LEMMA HeadIsShort ==
  ASSUME NEW x, NEW y, NEW s, y.issues = s, s # <<>>, x.issues = <<Head(s)>> PROVE Shortened(x, y)
BY DEF Shortened

\* What a check finds is an issue.
LEMMA CheckIssue ==
  ASSUME NEW c \in Checks, NEW type \in Types
  PROVE  Issue(<<>>, type, c.name) \in Issues
<1>1. <<>> \in Seq(Hops)
  OBVIOUS
<1>2. c.name \in Types \cup {"minLength", "maxLength", "trim", "extra"} /\ type \in Types \cup {""}
  BY DEF Types, Checks
<1> QED
  BY <1>1, <1>2 DEF Issues, Issue

\* A list keeps its head when it gets longer.
LEMMA HeadStays ==
  ASSUME NEW S, NEW s \in Seq(S), NEW t \in Seq(S), s # <<>>
  PROVE  s \o t # <<>> /\ Head(s \o t) = Head(s)
<1> DEFINE u == s \o t
<1>1. Len(s) \in Nat /\ Len(s) # 0 /\ Len(t) \in Nat
  OBVIOUS
<1>2. u \in Seq(S) /\ Len(u) = Len(s) + Len(t) /\ u[1] = s[1]
  BY <1>1
<1> HIDE DEF u
<1>3. u # <<>> /\ Head(u) = u[1] /\ Head(s) = s[1]
  BY <1>1, <1>2
<1> QED
  BY <1>2, <1>3 DEF u

\* Of the checks of a rule, bail leaves the first that fails.
LEMMA ExecuteBails ==
  ASSUME NEW t \in Seq(Checks), NEW v, NEW type \in Types, NEW yes, NEW no
  PROVE  yes = TRUE /\ no = FALSE =>
           /\ Shortened(ExecuteRules(v, t, yes, type), ExecuteRules(v, t, no, type))
           /\ ExecuteRules(v, t, no, type).issues \in Seq(Issues)
<1> DEFINE m == Len(t)
<1>1. m \in Nat /\ \A n \in 1..m : t[n] \in Checks
  OBVIOUS
<1>2. PICK f : /\ ExecuteRules(v, t, yes, type) = f[m] /\ f[0] = Ok(v)
               /\ \A n \in 1..m : f[n] = Checked(f[n - 1], t[n], yes, type)
  BY <1>1, ExecuteSteps
<1>3. PICK g : /\ ExecuteRules(v, t, no, type) = g[m] /\ g[0] = Ok(v)
               /\ \A n \in 1..m : g[n] = Checked(g[n - 1], t[n], no, type)
  BY <1>1, ExecuteSteps
<1> SUFFICES ASSUME yes = TRUE, no = FALSE
             PROVE  /\ Shortened(f[m], g[m])
                    /\ g[m].issues \in Seq(Issues)
  BY <1>2, <1>3
<1> DEFINE Good(x, y) == /\ Shortened(x, y) /\ y.issues \in Seq(Issues)
                         /\ y = [value |-> y.value, issues |-> y.issues]
           P == {n \in 0..m : Good(f[n], g[n])}
<1>4. 0 \in P
  <2>1. f[0] = g[0] /\ g[0] = [value |-> v, issues |-> <<>>] /\ <<>> \in Seq(Issues) /\ 0 \in 0..m
    BY <1>1, <1>2, <1>3 DEF Ok
  <2>2. g[0].issues = <<>> /\ g[0] = [value |-> g[0].value, issues |-> g[0].issues]
    BY <2>1
  <2>3. Shortened(g[0], g[0])
    BY <2>2, SameIsShort
  <2> QED
    BY <2>1, <2>2, <2>3
<1>5. ASSUME NEW n \in 1..m, n - 1 \in P PROVE n \in P
  <2> DEFINE x == f[n - 1]
             y == g[n - 1]
  <2>1. /\ Shortened(x, y) /\ y.issues \in Seq(Issues) /\ n \in 0..m
        /\ y = [value |-> y.value, issues |-> y.issues]
    BY <1>1, <1>5
  <2>2. f[n] = Checked(x, t[n], yes, type) /\ g[n] = Checked(y, t[n], no, type)
    BY <1>2, <1>3
  <2> HIDE DEF x, y
  <2> DEFINE i == Issue(<<>>, type, t[n].name)
  <2>3. i \in Issues
    BY <1>1, CheckIssue
  <2>4. /\ Passes(t[n], y.value) => g[n] = [y EXCEPT !.value = Changed(t[n], @)]
        /\ ~Passes(t[n], y.value) => g[n] = [y EXCEPT !.issues = Append(@, i)]
    BY <2>2 DEF Checked, Stopped
  <2> HIDE DEF i
  <2>5. CASE y.issues = <<>>
    <3>1. x = y /\ ~Stopped(x, yes)
      BY <2>1, <2>5 DEF Shortened, Stopped, Succeeds
    <3>2. f[n] = g[n]
      BY <2>2, <3>1 DEF Checked, Stopped
    <3>3. CASE Passes(t[n], y.value)
      <4>1. g[n] = [value |-> Changed(t[n], y.value), issues |-> y.issues]
        BY <2>1, <2>4, <3>3
      <4>2. g[n].issues = <<>>
        BY <2>5, <4>1
      <4>3. Shortened(f[n], g[n])
        BY <3>2, <4>2, SameIsShort
      <4> QED
        BY <2>1, <4>1, <4>3
    <3>4. CASE ~Passes(t[n], y.value)
      <4>1. g[n] = [value |-> y.value, issues |-> <<i>>]
        BY <2>1, <2>3, <2>4, <2>5, <3>4
      <4>2. <<i>> \in Seq(Issues) /\ <<i>> # <<>> /\ Head(<<i>>) = i
        BY <2>3
      <4> QED
        <5>1. g[n].issues = <<i>> /\ f[n].issues = <<i>>
          BY <3>2, <4>1
        <5>2. Shortened(f[n], g[n])
          BY <4>2, <5>1, HeadIsShort
        <5> QED
          <6>1. g[n].issues \in Seq(Issues) /\ g[n] = [value |-> g[n].value, issues |-> g[n].issues]
            BY <4>1, <4>2
          <6> QED
            BY <2>1, <5>2, <6>1
    <3> QED
      BY <3>3, <3>4
  <2>6. CASE y.issues # <<>>
    <3>1. x.issues = <<Head(y.issues)>>
      BY <2>1, <2>6 DEF Shortened
    <3>2. x.issues # <<>>
      BY <3>1
    <3>3. f[n] = x
      BY <2>2, <3>2 DEF Checked, Stopped, Succeeds
    <3>4. CASE Passes(t[n], y.value)
      <4>1. g[n] = [value |-> Changed(t[n], y.value), issues |-> y.issues]
        BY <2>1, <2>4, <3>4
      <4> QED
        BY <2>1, <2>6, <3>1, <3>3, <4>1 DEF Shortened
    <3>5. CASE ~Passes(t[n], y.value)
      <4> DEFINE u == Append(y.issues, i)
      <4>1. g[n] = [value |-> y.value, issues |-> u]
        BY <2>1, <2>4, <3>5
      <4>2. PICK s \in Seq(Issues) : s = y.issues
        BY <2>1
      <4>3. Append(s, i) \in Seq(Issues) /\ Append(s, i) # <<>> /\ Head(Append(s, i)) = Head(s)
        BY <2>3, <2>6, <4>2
      <4>4. u \in Seq(Issues) /\ u # <<>> /\ Head(u) = Head(y.issues)
        BY <4>2, <4>3
      <4> HIDE DEF u
      <4>5. g[n].issues = u /\ g[n].value = y.value
        BY <4>1
      <4>6. f[n].issues = <<Head(u)>>
        BY <3>1, <3>3, <4>4
      <4>7. Shortened(f[n], g[n])
        BY <4>4, <4>5, <4>6, HeadIsShort
      <4> QED
        BY <2>1, <4>1, <4>4, <4>5, <4>7
    <3> QED
      BY <3>4, <3>5
  <2> QED
    BY <2>5, <2>6
<1>6. m \in P
  <2> HIDE DEF P
  <2>1. \A n \in 0..m : n \in P
    BY <1>1, <1>4, <1>5, BoundedInduction
  <2> QED
    BY <1>1, <2>1
<1> QED
  BY <1>2, <1>3, <1>6

\* f is what was gathered after each part.
GathersPartByPart(f, parts, bail) ==
  /\ Gathered(parts, bail) = f[Len(parts)]
  /\ f[0] = Ok(Nothing)
  /\ \A n \in 1..Len(parts) : f[n] = Taken(f[n - 1], parts[n], bail)

\* Whatever is gathered, it is gathered part by part.
LEMMA GatheredInTurn ==
  ASSUME NEW parts, Len(parts) \in Nat, NEW bail
  PROVE  \E f : GathersPartByPart(f, parts, bail)
<1>1. PICK f : /\ Gathered(parts, bail) = f[Len(parts)]
               /\ f[0] = Ok(Nothing)
               /\ \A n \in 1..Len(parts) : f[n] = Taken(f[n - 1], parts[n], bail)
  BY GatheredSteps
<1>2. GathersPartByPart(f, parts, bail)
  BY <1>1, Zenon DEF GathersPartByPart
<1> QED
  BY <1>2

\* Of what is gathered, bail leaves the head of the first part that fails.
LEMMA GatheredBails ==
  ASSUME NEW m \in Nat, NEW xs, NEW ys, Len(xs) = m, Len(ys) = m,
         NEW yes, NEW no,
         \A n \in 1..m : Shortened(xs[n], ys[n]) /\ ys[n].issues \in Seq(Issues)
  PROVE  yes = TRUE /\ no = FALSE =>
           /\ Shortened(Gathered(xs, yes), Gathered(ys, no))
           /\ Gathered(ys, no).issues \in Seq(Issues)
<1>2. PICK f : /\ Gathered(xs, yes) = f[m] /\ f[0] = Ok(Nothing)
               /\ \A n \in 1..m : f[n] = Taken(f[n - 1], xs[n], yes)
  <2>1. PICK h : GathersPartByPart(h, xs, yes)
    BY Len(xs) \in Nat, GatheredInTurn
  <2>2. /\ Gathered(xs, yes) = h[m] /\ h[0] = Ok(Nothing)
        /\ \A n \in 1..m : h[n] = Taken(h[n - 1], xs[n], yes)
    BY <2>1, Len(xs) = m DEF GathersPartByPart
  <2> QED
    BY <2>2, Zenon
<1>3. PICK g : /\ Gathered(ys, no) = g[m] /\ g[0] = Ok(Nothing)
               /\ \A n \in 1..m : g[n] = Taken(g[n - 1], ys[n], no)
  <2>1. PICK h : GathersPartByPart(h, ys, no)
    BY Len(ys) \in Nat, GatheredInTurn
  <2>2. /\ Gathered(ys, no) = h[m] /\ h[0] = Ok(Nothing)
        /\ \A n \in 1..m : h[n] = Taken(h[n - 1], ys[n], no)
    BY <2>1, Len(ys) = m DEF GathersPartByPart
  <2> QED
    BY <2>2, Zenon
<1> SUFFICES ASSUME yes = TRUE, no = FALSE
             PROVE  /\ Shortened(f[m], g[m])
                    /\ g[m].issues \in Seq(Issues)
  BY <1>2, <1>3
<1> DEFINE Good(x, y) == /\ Shortened(x, y) /\ y.issues \in Seq(Issues)
                         /\ y = [value |-> y.value, issues |-> y.issues]
           P == {n \in 0..m : Good(f[n], g[n])}
<1>4. 0 \in P
  <2>1. f[0] = g[0] /\ g[0] = [value |-> Nothing, issues |-> <<>>] /\ <<>> \in Seq(Issues) /\ 0 \in 0..m
    BY <1>2, <1>3 DEF Ok
  <2>2. g[0].issues = <<>> /\ g[0] = [value |-> g[0].value, issues |-> g[0].issues]
    BY <2>1
  <2>3. Shortened(g[0], g[0])
    BY <2>2, SameIsShort
  <2> QED
    BY <2>1, <2>2, <2>3
<1>5. ASSUME NEW n \in 1..m, n - 1 \in P PROVE n \in P
  <2> DEFINE x == f[n - 1]
             y == g[n - 1]
             p == xs[n]
             q == ys[n]
  <2>1. /\ Shortened(x, y) /\ y.issues \in Seq(Issues) /\ n \in 0..m
        /\ y = [value |-> y.value, issues |-> y.issues]
    BY <1>5
  <2>2. f[n] = Taken(x, p, yes) /\ g[n] = Taken(y, q, no)
    BY <1>2, <1>3
  <2>3. Shortened(p, q) /\ q.issues \in Seq(Issues)
    OBVIOUS
  <2> HIDE DEF x, y, p, q
  <2>4. /\ q.issues = <<>> => g[n] = [y EXCEPT !.value = Added(q.value, @)]
        /\ q.issues # <<>> => g[n] = [y EXCEPT !.issues = @ \o q.issues]
    BY <2>2 DEF Taken, Stopped, Succeeds
  <2>5. PICK s \in Seq(Issues) : s = y.issues
    BY <2>1
  <2>6. PICK t \in Seq(Issues) : t = q.issues
    BY <2>3
  <2>7. CASE y.issues = <<>>
    <3>1. x = y /\ ~Stopped(x, yes)
      BY <2>1, <2>7 DEF Shortened, Stopped, Succeeds
    <3>2. CASE q.issues = <<>>
      <4>1. p = q
        BY <2>3, <3>2 DEF Shortened
      <4>2. f[n] = g[n]
        BY <2>2, <3>1, <4>1 DEF Taken, Stopped
      <4>3. g[n] = [value |-> Added(q.value, y.value), issues |-> y.issues]
        BY <2>1, <2>4, <3>2
      <4> QED
        <5>1. g[n].issues = <<>>
          BY <2>7, <4>3
        <5>2. Shortened(f[n], g[n])
          BY <4>2, <5>1, SameIsShort
        <5> QED
          BY <2>1, <4>3, <5>2
    <3>3. CASE q.issues # <<>>
      <4>1. p.issues = <<Head(t)>> /\ p.issues # <<>>
        <5>1. p.issues = <<Head(t)>>
          BY <2>3, <2>6, <3>3 DEF Shortened
        <5> QED
          BY <5>1
      <4>2. f[n] = [x EXCEPT !.issues = @ \o p.issues]
        BY <2>2, <3>1, <4>1 DEF Taken, Succeeds
      <4>3. <<>> \o t = t /\ <<>> \o <<Head(t)>> = <<Head(t)>>
        <5>1. t # <<>>
          BY <2>6, <3>3
        <5>2. Head(t) \in Issues
          BY <5>1
        <5>3. <<Head(t)>> \in Seq(Issues)
          BY <5>2
        <5> QED
          BY <5>3
      <4>4. g[n] = [value |-> y.value, issues |-> t]
        BY <2>1, <2>4, <2>6, <2>7, <3>3, <4>3
      <4>5. f[n].issues = <<Head(t)>>
        BY <2>1, <2>7, <3>1, <4>1, <4>2, <4>3
      <4> QED
        BY <2>1, <2>6, <3>3, <4>4, <4>5 DEF Shortened
    <3> QED
      BY <3>2, <3>3
  <2>8. CASE y.issues # <<>>
    <3>1. x.issues = <<Head(s)>> /\ x.issues # <<>>
      <4>1. x.issues = <<Head(s)>>
        BY <2>1, <2>5, <2>8 DEF Shortened
      <4> QED
        BY <4>1
    <3>2. f[n] = x
      BY <2>2, <3>1 DEF Taken, Stopped, Succeeds
    <3>3. CASE q.issues = <<>>
      <4>1. g[n] = [value |-> Added(q.value, y.value), issues |-> y.issues]
        BY <2>1, <2>4, <3>3
      <4> QED
        BY <2>1, <2>5, <2>8, <3>1, <3>2, <4>1 DEF Shortened
    <3>4. CASE q.issues # <<>>
      <4> DEFINE u == s \o t
      <4>1. g[n] = [value |-> y.value, issues |-> u]
        BY <2>1, <2>4, <2>5, <2>6, <3>4
      <4>2. u \in Seq(Issues) /\ u # <<>> /\ Head(u) = Head(s)
        BY <2>5, <2>8, HeadStays
      <4> HIDE DEF u
      <4> QED
        BY <2>1, <3>1, <3>2, <4>1, <4>2 DEF Shortened
    <3> QED
      BY <3>3, <3>4
  <2> QED
    BY <2>7, <2>8
<1>6. m \in P
  <2> HIDE DEF P
  <2>1. \A n \in 0..m : n \in P
    BY <1>4, <1>5, BoundedInduction
  <2> QED
    BY <2>1
<1> QED
  BY <1>2, <1>3, <1>6
-----------------------------------------------------------------------------
(* Reports, and what is gathered of them. *)

\* s reports what is in W: with bail some of it, otherwise all, and nothing twice.
Tells(s, W, bail) ==
  /\ s \in Seq(Issues) /\ W \subseteq Issues
  /\ s = <<>> <=> W = {}
  /\ \A k \in 1..Len(s) : s[k] \in W
  /\ ~bail => \A w \in W : \E k \in 1..Len(s) : s[k] = w
  /\ \A k, l \in 1..Len(s) : s[k] = s[l] => k = l

\* Where nothing is wrong, no issue tells all of it.
LEMMA NothingTold ==
  ASSUME NEW bail PROVE Tells(<<>>, {}, bail)
<1>1. PICK e \in Seq(Issues) : e = <<>>
  BY <<>> \in Seq(Issues)
<1>2. Len(e) = 0
  BY <1>1
<1>3. Tells(e, {}, bail)
  BY <1>1, <1>2 DEF Tells
<1> QED
  BY <1>1, <1>3

\* One issue tells all that is wrong where only that is wrong.
LEMMA OneTold ==
  ASSUME NEW x \in Issues, NEW bail PROVE Tells(<<x>>, {x}, bail)
<1> DEFINE e == <<x>>
<1>1. e \in Seq(Issues) /\ Len(e) = 1 /\ e[1] = x /\ e # <<>>
  OBVIOUS
<1> HIDE DEF e
<1>2. 1..Len(e) = {1}
  BY <1>1
<1>3. Tells(e, {x}, bail)
  BY <1>1, <1>2 DEF Tells
<1> QED
  BY <1>3 DEF e

\* Reports of what is different are put together.
LEMMA BothTold ==
  ASSUME NEW s, NEW t, NEW V, NEW W, NEW bail, V \cap W = {}, Tells(s, V, bail), Tells(t, W, bail)
  PROVE  Tells(s \o t, V \cup W, bail)
<1> DEFINE u == s \o t
<1>1. s \in Seq(Issues) /\ t \in Seq(Issues)
  BY DEF Tells
<1>2. u \in Seq(Issues) /\ Joins(u, s, t)
  BY <1>1, Concatenated
<1> HIDE DEF u
<1>3. u = <<>> <=> s = <<>> /\ t = <<>>
  <2>1. Len(u) = 0 <=> Len(s) = 0 /\ Len(t) = 0
    BY <1>2 DEF Joins
  <2>2. (u = <<>> <=> Len(u) = 0) /\ (s = <<>> <=> Len(s) = 0) /\ (t = <<>> <=> Len(t) = 0)
    BY <1>1, <1>2
  <2> QED
    BY <2>1, <2>2
<1>4. u = <<>> <=> V \cup W = {}
  BY <1>3 DEF Tells
<1>5. ASSUME NEW k \in 1..Len(u)
      PROVE  \/ k \in 1..Len(s) /\ u[k] = s[k] /\ u[k] \in V
             \/ u[k] \in W /\ \E i \in 1..Len(t) : u[k] = t[i] /\ k = Len(s) + i
  <2>1. CASE k \in 1..Len(s)
    <3>1. u[k] = s[k]
      BY <1>2, <2>1 DEF Joins
    <3> QED
      BY <2>1, <3>1 DEF Tells
  <2>2. CASE \E i \in 1..Len(t) : k = Len(s) + i
    <3>1. PICK i \in 1..Len(t) : k = Len(s) + i
      BY <2>2
    <3>2. u[k] = t[i]
      BY <1>2, <3>1 DEF Joins
    <3> QED
      BY <3>1, <3>2 DEF Tells
  <2> QED
    BY <1>2, <2>1, <2>2 DEF Joins
<1>6. ASSUME ~bail, NEW w \in V \cup W PROVE \E k \in 1..Len(u) : u[k] = w
  <2>1. CASE w \in V
    <3>1. PICK k \in 1..Len(s) : s[k] = w
      BY <1>6, <2>1 DEF Tells
    <3> QED
      BY <1>2, <3>1 DEF Joins
  <2>2. CASE w \in W
    <3>1. PICK k \in 1..Len(t) : t[k] = w
      BY <1>6, <2>2 DEF Tells
    <3> QED
      BY <1>2, <3>1 DEF Joins
  <2> QED
    BY <2>1, <2>2
<1>7. ASSUME NEW k \in 1..Len(u), NEW l \in 1..Len(u), u[k] = u[l] PROVE k = l
  <2>1. CASE u[k] \in V
    <3>1. k \in 1..Len(s) /\ u[k] = s[k] /\ l \in 1..Len(s) /\ u[l] = s[l]
      BY <1>5, <1>7, <2>1
    <3> QED
      BY <1>7, <3>1 DEF Tells
  <2>2. CASE u[k] \in W
    <3>1. PICK i \in 1..Len(t) : u[k] = t[i] /\ k = Len(s) + i
      BY <1>5, <2>2
    <3>2. PICK j \in 1..Len(t) : u[l] = t[j] /\ l = Len(s) + j
      BY <1>5, <1>7, <2>2
    <3>3. t[i] = t[j]
      BY <1>7, <3>1, <3>2
    <3>4. i = j
      BY <3>3 DEF Tells
    <3> QED
      BY <3>1, <3>2, <3>4
  <2> QED
    BY <1>5, <2>1, <2>2
<1>8. Tells(u, V \cup W, bail)
  BY <1>2, <1>4, <1>5, <1>6, <1>7 DEF Tells
<1> QED
  BY <1>8 DEF u

\* F is what the first n of xs have in common, the parts of each of them.
Merges(F, xs, n) ==
  /\ F = [p \in DOMAIN F |-> F[p]]
  /\ \A p \in DOMAIN F : \E i \in 1..n : p \in DOMAIN xs[i].value
  /\ \A i \in 1..n : \A p \in DOMAIN xs[i].value : p \in DOMAIN F /\ F[p] = xs[i].value[p]

\* Each of xs reports what W has for it, and no two of them overlap.
Apart(xs, W, m, bail) ==
  /\ \A i \in 1..m : Tells(xs[i].issues, W[i], bail)
  /\ \A i, j \in 1..m : i # j => W[i] \cap W[j] = {}
  /\ \A i, j \in 1..m : i # j /\ xs[i].issues = <<>> /\ xs[j].issues = <<>> =>
       DOMAIN xs[i].value \cap DOMAIN xs[j].value = {}

\* x reports all that they report, and if that is nothing merges their values.
Gathers(x, xs, W, m, bail) ==
  /\ Tells(x.issues, UNION {W[i] : i \in 1..m}, bail)
  /\ x.issues = <<>> => Merges(x.value, xs, m)

\* What parts that do not overlap come to.
LEMMA GatheredMeans ==
  ASSUME NEW m \in Nat, NEW xs, Len(xs) = m, NEW W, NEW bail \in BOOLEAN, Apart(xs, W, m, bail)
  PROVE  Gathers(Gathered(xs, bail), xs, W, m, bail)
<1> USE DEF Apart
<1>1. PICK f : /\ Gathered(xs, bail) = f[m] /\ f[0] = Ok(Nothing)
               /\ \A n \in 1..m : f[n] = Taken(f[n - 1], xs[n], bail)
  <2>1. PICK h : GathersPartByPart(h, xs, bail)
    BY Len(xs) \in Nat, GatheredInTurn
  <2>2. /\ Gathered(xs, bail) = h[m] /\ h[0] = Ok(Nothing)
        /\ \A n \in 1..m : h[n] = Taken(h[n - 1], xs[n], bail)
    BY <2>1, Len(xs) = m DEF GathersPartByPart
  <2> QED
    BY <2>2, Zenon
<1> DEFINE Upto(n) == UNION {W[i] : i \in 1..n}
           Good(x, n) == /\ x = [value |-> x.value, issues |-> x.issues]
                         /\ Tells(x.issues, Upto(n), bail)
                         /\ x.issues = <<>> => /\ \A i \in 1..n : xs[i].issues = <<>>
                                               /\ Merges(x.value, xs, n)
           P == {n \in 0..m : Good(f[n], n)}
<1>2. 0 \in P
  <2>1. f[0] = [value |-> Nothing, issues |-> <<>>]
    BY <1>1 DEF Ok
  <2>2. Upto(0) = {}
    OBVIOUS
  <2>3. Tells(f[0].issues, Upto(0), bail)
    <3>1. Tells(<<>>, {}, bail)
      BY NothingTold
    <3>2. f[0].issues = <<>>
      BY <2>1
    <3> QED
      BY <2>2, <3>1, <3>2, Zenon
  <2>4. Nothing = [p \in DOMAIN Nothing |-> Nothing[p]] /\ DOMAIN Nothing = {}
    BY DEF Nothing
  <2>5. Merges(Nothing, xs, 0)
    BY <2>4 DEF Merges
  <2> QED
    BY <2>1, <2>3, <2>5
<1>3. ASSUME NEW n \in 1..m, n - 1 \in P PROVE n \in P
  <2> DEFINE x == f[n - 1]
             p == xs[n]
  <2>1. /\ x = [value |-> x.value, issues |-> x.issues]
        /\ Tells(x.issues, Upto(n - 1), bail)
        /\ x.issues = <<>> => /\ \A i \in 1..(n - 1) : xs[i].issues = <<>>
                              /\ Merges(x.value, xs, n - 1)
    BY <1>3
  <2>2. /\ n \in 0..m /\ n \in 1..n
        /\ \A j \in 1..n : j = n \/ j \in 1..(n - 1)
        /\ \A j \in 1..(n - 1) : j \in 1..n /\ j \in 1..m /\ j # n
    OBVIOUS
  <2>3. f[n] = Taken(x, p, bail) /\ Tells(p.issues, W[n], bail)
    BY <1>1
  <2>4. Upto(n) = Upto(n - 1) \cup W[n]
    BY <2>2
  <2>5. Upto(n - 1) \cap W[n] = {}
    BY <2>2
  <2> HIDE DEF x, Upto
  <2>6. CASE Stopped(x, bail)
    <3>1. f[n] = x /\ bail = TRUE /\ x.issues # <<>>
      BY <2>3, <2>6 DEF Taken, Stopped, Succeeds
    <3>2. Tells(x.issues, Upto(n), bail)
      <4>1. Tells(x.issues, Upto(n - 1), bail)
        BY <2>1
      <4>2. Tells(x.issues, Upto(n - 1) \cup W[n], bail)
        BY <3>1, <4>1 DEF Tells
      <4> QED
        BY <2>4, <4>2
    <3> QED
      BY <2>1, <2>2, <3>1, <3>2
  <2>7. CASE ~Stopped(x, bail) /\ p.issues = <<>>
    <3>1. f[n] = [x EXCEPT !.value = Added(p.value, @)]
      BY <2>3, <2>7 DEF Taken, Succeeds
    <3>2. f[n] = [value |-> Added(p.value, x.value), issues |-> x.issues]
      BY <2>1, <3>1
    <3>3. W[n] = {}
      BY <2>3, <2>7 DEF Tells
    <3>4. Tells(x.issues, Upto(n), bail)
      BY <2>1, <2>4, <3>3
    <3>5. ASSUME x.issues = <<>> PROVE Merges(Added(p.value, x.value), xs, n)
      <4> DEFINE F == Added(p.value, x.value)
      <4>1. Merges(x.value, xs, n - 1) /\ \A i \in 1..(n - 1) : xs[i].issues = <<>>
        BY <2>1, <3>5
      <4>2. /\ F = [k \in DOMAIN F |-> F[k]]
            /\ DOMAIN F = DOMAIN p.value \cup DOMAIN x.value
            /\ \A k \in DOMAIN F : F[k] = IF k \in DOMAIN p.value THEN p.value[k] ELSE x.value[k]
        BY DEF Added
      <4> HIDE DEF F
      <4>3. \A k \in DOMAIN F : \E i \in 1..n : k \in DOMAIN xs[i].value
        <5> SUFFICES ASSUME NEW k \in DOMAIN F PROVE \E i \in 1..n : k \in DOMAIN xs[i].value
          OBVIOUS
        <5>1. CASE k \in DOMAIN p.value
          BY <2>2, <5>1
        <5>2. CASE k \in DOMAIN x.value
          BY <2>2, <4>1, <5>2 DEF Merges
        <5> QED
          BY <4>2, <5>1, <5>2
      <4>4. ASSUME NEW i \in 1..n, NEW k \in DOMAIN xs[i].value
            PROVE  k \in DOMAIN F /\ F[k] = xs[i].value[k]
        <5>1. CASE i = n
          BY <4>2, <5>1
        <5>2. CASE i \in 1..(n - 1)
          <6>1. k \in DOMAIN x.value /\ x.value[k] = xs[i].value[k]
            BY <4>1, <4>4, <5>2 DEF Merges
          <6>2. xs[i].issues = <<>> /\ i \in 1..m /\ i # n
            BY <2>2, <4>1, <5>2
          <6>3. DOMAIN xs[i].value \cap DOMAIN xs[n].value = {}
            BY <2>7, <6>2
          <6>4. k \notin DOMAIN p.value
            BY <4>4, <6>3
          <6> QED
            BY <4>2, <6>1, <6>4
        <5> QED
          BY <2>2, <5>1, <5>2
      <4>5. Merges(F, xs, n)
        BY <4>2, <4>3, <4>4 DEF Merges
      <4> QED
        BY <4>5 DEF F
    <3>6. x.issues = <<>> => \A i \in 1..n : xs[i].issues = <<>>
      BY <2>1, <2>2, <2>7
    <3> QED
      BY <2>2, <3>2, <3>4, <3>5, <3>6
  <2>8. CASE ~Stopped(x, bail) /\ p.issues # <<>>
    <3> DEFINE u == x.issues \o p.issues
    <3>1. f[n] = [x EXCEPT !.issues = @ \o p.issues]
      BY <2>3, <2>8 DEF Taken, Succeeds
    <3>2. f[n] = [value |-> x.value, issues |-> u]
      BY <2>1, <3>1
    <3>3. Tells(u, Upto(n), bail)
      BY <2>1, <2>3, <2>4, <2>5, BothTold
    <3>4. u # <<>>
      <4>1. W[n] # {}
        BY <2>3, <2>8 DEF Tells
      <4> QED
        BY <2>4, <3>3, <4>1 DEF Tells
    <3> HIDE DEF u
    <3> QED
      BY <2>2, <3>2, <3>3, <3>4
  <2> QED
    BY <2>6, <2>7, <2>8
<1>4. m \in P
  <2> HIDE DEF P
  <2>1. \A n \in 0..m : n \in P
    BY <1>2, <1>3, BoundedInduction
  <2> QED
    BY <2>1
<1> QED
  BY <1>1, <1>4 DEF Gathers
-----------------------------------------------------------------------------
(* What comes back from a child. *)

\* An issue as it comes back from p, and where it leads.
From(p, x) == [x EXCEPT !.path = <<p>> \o @]

\* A path with a step put in front of it.
LEMMA PathStarts ==
  ASSUME NEW S, NEW p \in S, NEW s \in Seq(S)
  PROVE  /\ <<p>> \o s \in Seq(S)
         /\ (<<p>> \o s)[1] = p
         /\ Len(<<p>> \o s) = Len(s) + 1
         /\ \A i \in 1..Len(s) : (<<p>> \o s)[i + 1] = s[i]
<1>1. PICK e \in Seq(S) : e = <<p>>
  BY <<p>> \in Seq(S)
<1>2. Len(e) = 1 /\ e[1] = p
  BY <1>1
<1> DEFINE u == e \o s
<1>3. u \in Seq(S) /\ Joins(u, e, s)
  BY Concatenated
<1> HIDE DEF u
<1>4. Len(u) = Len(s) + 1 /\ u[1] = p /\ \A i \in 1..Len(s) : u[1 + i] = s[i]
  BY <1>2, <1>3 DEF Joins
<1>5. \A i \in 1..Len(s) : u[i + 1] = s[i]
  BY <1>4
<1> QED
  BY <1>1, <1>3, <1>4, <1>5 DEF u

\* An issue that comes back from a place is told from every other that does.
LEMMA FromIs ==
  ASSUME NEW p \in Hops, NEW x \in Issues
  PROVE  /\ From(p, x) \in Issues
         /\ From(p, x).path[1] = p
         /\ \A z \in Issues : From(p, x) = From(p, z) => x = z
<1>1. x = [path |-> x.path, parent |-> x.parent, rule |-> x.rule] /\ x.path \in Seq(Hops)
  BY DEF Issues
<1>2. From(p, x) = [path |-> <<p>> \o x.path, parent |-> x.parent, rule |-> x.rule]
  <2>1. DOMAIN x = {"path", "parent", "rule"}
    BY DEF Issues
  <2> DEFINE y == [x EXCEPT !.path = <<p>> \o @]
  <2>2. y = [f \in DOMAIN x |-> IF f = "path" THEN <<p>> \o x.path ELSE x[f]]
    OBVIOUS
  <2>3. y = From(p, x)
    BY DEF From
  <2> HIDE DEF y
  <2> QED
    BY <2>1, <2>2, <2>3
<1>3. <<p>> \o x.path \in Seq(Hops) /\ (<<p>> \o x.path)[1] = p
  BY <1>1, PathStarts
<1>4. From(p, x) \in Issues
  <2>1. x.parent \in Types \cup {""} /\ x.rule \in Types \cup {"minLength", "maxLength", "trim", "extra"}
    BY DEF Issues
  <2> DEFINE h == <<p>> \o x.path
             y == [path |-> h, parent |-> x.parent, rule |-> x.rule]
  <2>2. h \in Seq(Hops) /\ y = From(p, x)
    BY <1>2, <1>3
  <2> HIDE DEF h
  <2>3. y \in Issues
    BY <2>1, <2>2 DEF Issues
  <2> QED
    BY <2>2, <2>3
<1>5. ASSUME NEW z \in Issues, From(p, x) = From(p, z) PROVE x = z
  <2>1. z = [path |-> z.path, parent |-> z.parent, rule |-> z.rule] /\ z.path \in Seq(Hops)
    BY DEF Issues
  <2>2. From(p, z) = [path |-> <<p>> \o z.path, parent |-> z.parent, rule |-> z.rule]
    <3>1. DOMAIN z = {"path", "parent", "rule"}
      BY DEF Issues
    <3> DEFINE y == [z EXCEPT !.path = <<p>> \o @]
    <3>2. y = [f \in DOMAIN z |-> IF f = "path" THEN <<p>> \o z.path ELSE z[f]]
      OBVIOUS
    <3>3. y = From(p, z)
      BY DEF From
    <3> HIDE DEF y
    <3> QED
      BY <3>1, <3>2, <3>3
  <2>3. <<p>> \o x.path = <<p>> \o z.path /\ x.parent = z.parent /\ x.rule = z.rule
    BY <1>2, <1>5, <2>2
  <2>4. /\ Len(<<p>> \o x.path) = Len(x.path) + 1 /\ Len(<<p>> \o z.path) = Len(z.path) + 1
        /\ \A i \in 1..Len(x.path) : (<<p>> \o x.path)[i + 1] = x.path[i]
        /\ \A i \in 1..Len(z.path) : (<<p>> \o z.path)[i + 1] = z.path[i]
    BY <1>1, <2>1, PathStarts
  <2>5. Len(x.path) = Len(z.path) /\ \A i \in 1..Len(x.path) : x.path[i] = z.path[i]
    <3> DEFINE a == <<p>> \o x.path
               b == <<p>> \o z.path
    <3>1. a = b /\ Len(a) = Len(x.path) + 1 /\ Len(b) = Len(z.path) + 1
      BY <2>3, <2>4
    <3>2. /\ \A i \in 1..Len(x.path) : a[i + 1] = x.path[i]
          /\ \A i \in 1..Len(z.path) : b[i + 1] = z.path[i]
      BY <2>4
    <3> HIDE DEF a, b
    <3>3. Len(x.path) \in Nat /\ Len(z.path) \in Nat
      BY <1>1, <2>1
    <3> QED
      BY <3>1, <3>2, <3>3
  <2>6. x.path = z.path
    BY <1>1, <2>1, <2>5
  <2> QED
    BY <1>1, <2>1, <2>3, <2>6
<1> QED
  BY <1>2, <1>3, <1>4, <1>5

\* The issues of a child come back each from where the child is.
LEMMA ChildTold ==
  ASSUME NEW p \in Hops, NEW s, NEW W, NEW bail, Tells(s, W, bail)
  PROVE  /\ Tells(Prefixed(p, s), Below(p, W), bail)
         /\ \A w \in Below(p, W) : w.path[1] = p
<1>1. s \in Seq(Issues) /\ W \subseteq Issues
  BY DEF Tells
<1> DEFINE u == Prefixed(p, s)
           V == Below(p, W)
<1>2. u = [k \in 1..Len(s) |-> From(p, s[k])] /\ Len(s) \in Nat
  <2>1. DOMAIN s = 1..Len(s) /\ Len(s) \in Nat
    BY <1>1
  <2> QED
    BY <2>1 DEF Prefixed, From
<1>3. V = {From(p, w) : w \in W}
  BY DEF Below, From
<1> HIDE DEF u, V
<1>4. \A k \in 1..Len(s) : s[k] \in Issues /\ From(p, s[k]) \in Issues
  BY <1>1, FromIs
<1>5. u \in Seq(Issues) /\ Len(u) = Len(s) /\ \A k \in 1..Len(s) : u[k] = From(p, s[k])
  BY <1>2, <1>4
<1>6. V \subseteq Issues /\ \A w \in V : w.path[1] = p
  BY <1>1, <1>3, FromIs
<1>7. u = <<>> <=> V = {}
  <2>1. (u = <<>> <=> Len(u) = 0) /\ (s = <<>> <=> Len(s) = 0)
    BY <1>1, <1>5
  <2>2. V = {} <=> W = {}
    BY <1>3
  <2> QED
    BY <1>5, <2>1, <2>2 DEF Tells
<1>8. \A k \in 1..Len(u) : u[k] \in V
  BY <1>3, <1>5 DEF Tells
<1>9. ASSUME ~bail, NEW w \in V PROVE \E k \in 1..Len(u) : u[k] = w
  <2>1. PICK x \in W : w = From(p, x)
    BY <1>3
  <2>2. PICK k \in 1..Len(s) : s[k] = x
    BY <1>9 DEF Tells
  <2> QED
    BY <1>5, <2>1, <2>2
<1>10. ASSUME NEW k \in 1..Len(u), NEW l \in 1..Len(u), u[k] = u[l] PROVE k = l
  <2>1. From(p, s[k]) = From(p, s[l]) /\ k \in 1..Len(s) /\ l \in 1..Len(s)
    BY <1>5, <1>10
  <2>2. s[k] = s[l]
    BY <1>4, <2>1, FromIs
  <2> QED
    BY <2>1, <2>2 DEF Tells
<1>11. Tells(u, V, bail)
  BY <1>5, <1>6, <1>7, <1>8, <1>9, <1>10 DEF Tells
<1> QED
  BY <1>6, <1>11 DEF u, V
-----------------------------------------------------------------------------
(* Validators, values and what is inside them. *)

\* The validators of the first n layers.
Built(n) == UNION {Layers[k] : k \in 1..n}

\* The validators inside one of the first n layers are of the first n - 1.
LEMMA BuiltIs ==
  /\ Len(Layers) \in Nat /\ DOMAIN Layers = 1..Len(Layers)
  /\ Built(0) = {} /\ Built(Len(Layers)) = Rules
  /\ \A n \in 1..Len(Layers) :
       /\ n \in 0..Len(Layers) /\ n - 1 \in 0..Len(Layers)
       /\ Built(n - 1) \subseteq Built(n) /\ Built(n) \subseteq Rules
       /\ \A r \in Built(n) : \A p \in DOMAIN r.shape : r.shape[p] \in Built(n - 1)
<1> DEFINE m == Len(Layers)
<1>1. m \in Nat /\ DOMAIN Layers = 1..m
  <2>1. \E S : Layers \in Seq(S)
    BY LayersAssumption
  <2> QED
    BY <2>1
<1>2. Built(0) = {} /\ Built(m) = Rules
  BY <1>1 DEF Built, Rules
<1>3. ASSUME NEW n \in 1..m
      PROVE  /\ n \in 0..m /\ n - 1 \in 0..m
             /\ Built(n - 1) \subseteq Built(n) /\ Built(n) \subseteq Rules
  <2>1. n \in 0..m /\ n - 1 \in 0..m /\ (\A k \in 1..(n - 1) : k \in 1..n) /\ \A k \in 1..n : k \in 1..m
    BY <1>1
  <2> QED
    BY <1>1, <2>1 DEF Built, Rules
<1>4. ASSUME NEW n \in 1..m, NEW r \in Built(n), NEW p \in DOMAIN r.shape
      PROVE  r.shape[p] \in Built(n - 1)
  <2>1. PICK k \in 1..n : r \in Layers[k]
    BY DEF Built
  <2>2. k \in DOMAIN Layers
    BY <1>1, <2>1
  <2>3. PICK l \in 1..(k - 1) : r.shape[p] \in Layers[l]
    BY <2>1, <2>2, RulesAssumption
  <2>4. l \in 1..(n - 1)
    BY <1>1, <2>1, <2>3
  <2> QED
    BY <2>3, <2>4 DEF Built
<1> QED
  BY <1>1, <1>2, <1>3, <1>4

\* What validators are like, whatever layer they are of.
LEMMA RulesAre ==
  ASSUME NEW r \in Rules
  PROVE  /\ r.type \in Types
         /\ r.checks \in Seq(Checks) /\ \A i \in 1..Len(r.checks) : Suits(r.checks[i], r.type)
         /\ r.type = "array" => DOMAIN r.shape = {1}
         /\ r.type = "object" => DOMAIN r.shape \subseteq ToSet(Keys)
         /\ r.extra \in {"strip", "reject", "passthrough"}
         /\ r.default \in Values
<1>1. PICK n \in DOMAIN Layers : r \in Layers[n]
  BY DEF Rules
<1>2. r.checks \in Seq(Checks) /\ \A i \in DOMAIN r.checks : Suits(r.checks[i], r.type)
  BY <1>1, RulesAssumption
<1>3. DOMAIN r.checks = 1..Len(r.checks)
  BY <1>2
<1>4. /\ r.type \in Types
      /\ r.type = "array" => DOMAIN r.shape = {1}
      /\ r.type = "object" => DOMAIN r.shape \subseteq ToSet(Keys)
      /\ r.extra \in {"strip", "reject", "passthrough"}
      /\ r.default \in Values
  BY <1>1, RulesAssumption
<1> QED
  BY <1>2, <1>3, <1>4

\* What strings, arrays and objects are like.
LEMMA ValuesAre ==
  ASSUME NEW v \in Values
  PROVE  /\ v.is = "string" => v \in Strings
         /\ v.is = "array" => v = [is |-> "array", entries |-> v.entries] /\ v.entries \in Seq(Values)
         /\ v.is = "object" =>
              /\ v = [is |-> "object", entries |-> v.entries]
              /\ v.entries = [k \in DOMAIN v.entries |-> v.entries[k]]
              /\ DOMAIN v.entries \subseteq ToSet(Keys)
              /\ \A k \in DOMAIN v.entries : v.entries[k] \in Values
<1> DEFINE A == v \in [is : {"string"}, core : Nat, blanks : Nat]
           B == v \in [is : {"array"}, entries : Seq(Values)]
           C == v \in [is : {"object"}, entries : UNION {[ks -> Values] : ks \in SUBSET ToSet(Keys)}]
<1>1. v.is \notin Types \/ A \/ B \/ C
  BY ValuesAssumption
<1>2. (A => v.is = "string") /\ (B => v.is = "array") /\ (C => v.is = "object")
  OBVIOUS
<1>3. v.is = "string" => A
  BY <1>1, <1>2 DEF Types
<1>4. v.is = "array" => B
  BY <1>1, <1>2 DEF Types
<1>5. v.is = "object" => C
  BY <1>1, <1>2 DEF Types
<1>6. B => v = [is |-> "array", entries |-> v.entries] /\ v.entries \in Seq(Values)
  OBVIOUS
<1>7. ASSUME C
      PROVE  /\ v = [is |-> "object", entries |-> v.entries]
             /\ v.entries = [k \in DOMAIN v.entries |-> v.entries[k]]
             /\ DOMAIN v.entries \subseteq ToSet(Keys)
             /\ \A k \in DOMAIN v.entries : v.entries[k] \in Values
  <2>1. v = [is |-> "object", entries |-> v.entries]
    BY <1>7
  <2>2. PICK ks \in SUBSET ToSet(Keys) : v.entries \in [ks -> Values]
    BY <1>7
  <2> QED
    BY <2>1, <2>2
<1> QED
  BY <1>3, <1>4, <1>5, <1>6, <1>7 DEF Strings

\* The default of a validator is a value too.
LEMMA FilledIs ==
  ASSUME NEW r \in Rules, NEW value \in Values
  PROVE  Filled(r, value) \in Values
BY RulesAre DEF Filled

\* What is validated inside a value is a value, by a rule of a lower layer.
LEMMA ChildrenAre ==
  ASSUME NEW n \in 1..Len(Layers), NEW r \in Built(n), NEW v \in Values,
         v.is = r.type, r.type # "string", NEW p \in Places(r, v)
  PROVE  /\ ChildRule(r, p) \in Built(n - 1) /\ ChildRule(r, p) \in Rules
         /\ ChildValue(v, p) \in Values
<1>1. r \in Rules /\ Built(n - 1) \subseteq Rules
  BY BuiltIs
<1>2. r.type \in {"array", "object"}
  BY <1>1, RulesAre DEF Types
<1>3. ChildRule(r, p) \in Built(n - 1)
  <2>1. CASE r.type = "array"
    <3>1. 1 \in DOMAIN r.shape
      BY <1>1, <2>1, RulesAre
    <3> QED
      BY <2>1, <3>1, BuiltIs DEF ChildRule
  <2>2. CASE r.type = "object"
    <3>1. p \in DOMAIN r.shape
      BY <2>2 DEF Places
    <3> QED
      BY <2>2, <3>1, BuiltIs DEF ChildRule
  <2> QED
    BY <1>2, <2>1, <2>2
<1>4. ChildValue(v, p) \in Values
  <2>1. CASE p \in DOMAIN v.entries
    <3>1. v.entries[p] \in Values
      <4>1. CASE v.is = "array"
        <5>1. v.entries \in Seq(Values)
          BY <4>1, ValuesAre
        <5> QED
          BY <2>1, <5>1
      <4>2. CASE v.is = "object"
        BY <2>1, <4>2, ValuesAre
      <4> QED
        BY <1>2, <4>1, <4>2
    <3> QED
      BY <2>1, <3>1 DEF ChildValue
  <2>2. CASE p \notin DOMAIN v.entries
    BY <2>2, ValuesAssumption DEF ChildValue
  <2> QED
    BY <2>1, <2>2
<1> QED
  BY <1>1, <1>3, <1>4

\* What the checks of a rule leave of a value of its type.
LEMMA ChecksMean ==
  ASSUME NEW r \in Rules, NEW v \in Values, v.is = r.type, NEW bail \in BOOLEAN
  PROVE  LET t == ByPhase(r.checks)
         IN  /\ Done(ExecuteRules(v, t, bail, r.type), v, t, Len(t), Bare(v, t, Len(t)), bail, r.type)
             /\ InPhases(t, r.checks) /\ t \in Seq(Checks)
             /\ \A i \in 1..Len(t) : Suits(t[i], r.type)
             /\ r.type # "string" => ExecuteRules(v, t, bail, r.type).value = v
<1> DEFINE t == ByPhase(r.checks)
           x == ExecuteRules(v, t, bail, r.type)
<1>1. r.type \in Types /\ r.checks \in Seq(Checks) /\ \A i \in 1..Len(r.checks) : Suits(r.checks[i], r.type)
  BY RulesAre
<1>2. InPhases(t, r.checks)
  BY <1>1, ByPhaseElements
<1> HIDE DEF t
<1>3. /\ t \in Seq(Checks)
      /\ \A i \in 1..Len(t) : \E j \in 1..Len(r.checks) : t[i] = r.checks[j]
      /\ \A i, j \in 1..Len(t) : i < j /\ t[j].order = "pre" => t[i].order = "pre"
  BY <1>2 DEF InPhases
<1>4. \A i \in 1..Len(t) : Suits(t[i], r.type)
  BY <1>1, <1>3
<1>5. r.type = "string" => v \in Strings
  BY ValuesAre
<1>6. Done(x, v, t, Len(t), Bare(v, t, Len(t)), bail, r.type)
  BY <1>1, <1>3, <1>4, <1>5, ExecuteMeans
<1> HIDE DEF x
<1>7. ASSUME r.type # "string" PROVE x.value = v
  <2>1. \A i \in 1..Len(t) : t[i].name # "trim"
    BY <1>4, <1>7 DEF Suits
  <2>2. Bare(v, t, Len(t)) = v
    BY <2>1 DEF Bare
  <2>3. x = [value |-> Bare(v, t, Len(t)), issues |-> x.issues]
    BY <1>6 DEF Done
  <2> QED
    BY <2>2, <2>3
<1> QED
  BY <1>2, <1>3, <1>4, <1>6, <1>7 DEF t, x
-----------------------------------------------------------------------------
(* What the recursive functions are: each argument is of a lower layer.    *)

\* Without the blanks that a check takes away, a value is what it was.
LEMMA SeenIs ==
  ASSUME NEW r \in Rules, NEW value \in Values
  PROVE  LET v == Filled(r, value)
             s == Seen(r, value)
         IN  /\ s.is = v.is
             /\ s = Undefined <=> v = Undefined
             /\ v.is = r.type => s = Bare(v, ByPhase(r.checks), Len(ByPhase(r.checks)))
             /\ r.type # "string" => s = v
             /\ v.is # "string" => s = v
<1> DEFINE v == Filled(r, value)
           s == Seen(r, value)
           t == ByPhase(r.checks)
<1>1. v \in Values
  BY FilledIs
<1>2. r.type \in Types /\ r.checks \in Seq(Checks) /\ \A i \in 1..Len(r.checks) : Suits(r.checks[i], r.type)
  BY RulesAre
<1>3. InPhases(t, r.checks)
  BY <1>2, ByPhaseElements
<1>4. s = IF v.is = "string" /\ Trims(r) THEN [v EXCEPT !.blanks = 0] ELSE v
  BY DEF Seen
<1> HIDE DEF v, s, t
<1>5. DOMAIN r.checks = 1..Len(r.checks)
  BY <1>2
<1>6. ASSUME v.is = "string" PROVE s.is = v.is /\ s # Undefined /\ v # Undefined
  <2>1. v \in Strings
    BY <1>1, <1>6, ValuesAre
  <2>2. s.is = "string"
    BY <1>4, <1>6, <2>1 DEF Strings
  <2>3. Undefined.is = "undefined"
    BY DEF Undefined
  <2> QED
    BY <1>6, <2>2, <2>3
<1>7. v.is # "string" => s = v
  BY <1>4
<1>8. r.type # "string" => s = v
  BY <1>2, <1>4, <1>5 DEF Trims, Suits
<1>9. ASSUME v.is = r.type PROVE s = Bare(v, t, Len(t))
  <2>1. Trims(r) <=> \E i \in 1..Len(t) : t[i].name = "trim"
    <3>1. Trims(r) <=> \E i \in 1..Len(r.checks) : r.checks[i].name = "trim"
      BY <1>5 DEF Trims
    <3>2. /\ \A i \in 1..Len(t) : \E j \in 1..Len(r.checks) : t[i] = r.checks[j]
          /\ \A j \in 1..Len(r.checks) : \E i \in 1..Len(t) : t[i] = r.checks[j]
      BY <1>3 DEF InPhases
    <3>3. ASSUME NEW i \in 1..Len(t), t[i].name = "trim"
          PROVE  \E j \in 1..Len(r.checks) : r.checks[j].name = "trim"
      <4>1. PICK j \in 1..Len(r.checks) : t[i] = r.checks[j]
        BY <3>2
      <4> QED
        BY <3>3, <4>1
    <3>4. ASSUME NEW j \in 1..Len(r.checks), r.checks[j].name = "trim"
          PROVE  \E i \in 1..Len(t) : t[i].name = "trim"
      <4>1. PICK i \in 1..Len(t) : t[i] = r.checks[j]
        BY <3>2
      <4> QED
        BY <3>4, <4>1
    <3> QED
      BY <3>1, <3>3, <3>4
  <2>2. Trims(r) => v.is = "string"
    BY <1>2, <1>5, <1>9 DEF Trims, Suits
  <2> QED
    BY <1>4, <2>1, <2>2 DEF Bare
<1> QED
  BY <1>6, <1>7, <1>8, <1>9 DEF v, s, t

\* The bodies of the functions.
Outcome(f, c) ==
  LET v == Filled(c.rule, c.value)
      checked == ExecuteRules(v, ByPhase(c.rule.checks), c.bail, c.rule.type)
  IN  IF c.rule.optional /\ v = Undefined THEN Ok(Undefined)
      ELSE IF v.is # c.rule.type THEN Err(<<Issue(<<>>, "", c.rule.type)>>)
      ELSE IF ~Succeeds(checked) THEN Err(checked.issues)
      ELSE IF c.rule.type = "string" THEN checked
      ELSE Traverse(c.rule, checked.value, c.bail,
                    [p \in Places(c.rule, checked.value) |-> f[Inner(c, checked.value, p)]])

\* What the checks of a rule find, and where the keys are that are refused.
Failing(rule, v) == {i \in DOMAIN rule.checks : ~Passes(rule.checks[i], v)}
Refused(rule, v) == {k \in DOMAIN v.entries \ DOMAIN rule.shape : rule.extra = "reject"}

Mistakes(f, c) ==
  LET rule == c.rule
      v == Seen(rule, c.value)
  IN  IF Skipped(rule, c.value) THEN {}
      ELSE IF v.is # rule.type THEN {Issue(<<>>, "", rule.type)}
      ELSE IF Failing(rule, v) # {} THEN {Issue(<<>>, rule.type, rule.checks[i].name) : i \in Failing(rule, v)}
      ELSE IF rule.type = "string" THEN {}
      ELSE (UNION {Below(p, f[Part(rule, v, p)]) : p \in Places(rule, v)})
           \cup IF rule.type = "array" THEN {}
                ELSE {Issue(<<k>>, "object", "extra") : k \in Refused(rule, v)}

\* The properties that are not in the shape and kept.
Retained(rule, v) == IF rule.type = "object" /\ rule.extra = "passthrough" THEN DOMAIN v.entries ELSE {}

Rest(f, c) ==
  LET rule == c.rule
      v == Seen(rule, c.value)
  IN  IF Skipped(rule, c.value) \/ v.is # rule.type \/ rule.type = "string" THEN v
      ELSE [v EXCEPT !.entries = [p \in Places(rule, v) \cup Retained(rule, v) |->
              IF p \in Places(rule, v) THEN f[Part(rule, v, p)] ELSE @[p]]]

\* What a call comes to depends on nothing but the calls of lower layers.
LEMMA SameOutcome ==
  ASSUME NEW n \in 1..Len(Layers), NEW c \in Calls, c.rule \in Built(n), NEW f, NEW g,
         \A d \in Calls : d.rule \in Built(n - 1) => f[d] = g[d]
  PROVE  Outcome(f, c) = Outcome(g, c)
<1> DEFINE rule == c.rule
           v == Filled(rule, c.value)
           checked == ExecuteRules(v, ByPhase(rule.checks), c.bail, rule.type)
<1>1. rule \in Rules /\ c.bail \in BOOLEAN /\ v \in Values
  BY FilledIs DEF Calls
<1>2. ASSUME v.is = rule.type, rule.type # "string"
      PROVE  [p \in Places(rule, checked.value) |-> f[Inner(c, checked.value, p)]]
             = [p \in Places(rule, checked.value) |-> g[Inner(c, checked.value, p)]]
  <2>1. checked.value = v
    BY <1>1, <1>2, ChecksMean
  <2> HIDE DEF checked
  <2> HIDE DEF v
  <2>2. ASSUME NEW p \in Places(rule, v) PROVE f[Inner(c, v, p)] = g[Inner(c, v, p)]
    <3>1. /\ ChildRule(rule, p) \in Built(n - 1) /\ ChildRule(rule, p) \in Rules
          /\ ChildValue(v, p) \in Values
      BY <1>1, <1>2, ChildrenAre
    <3> DEFINE d == Inner(c, v, p)
    <3>2. d.rule = ChildRule(rule, p) /\ d \in Calls
      BY <1>1, <3>1 DEF Inner, Calls
    <3> HIDE DEF d
    <3>3. f[d] = g[d]
      BY <3>1, <3>2
    <3> QED
      BY <3>3 DEF d
  <2> QED
    BY <2>1, <2>2
<1>3. CASE v.is = rule.type /\ rule.type # "string"
  BY <1>2, <1>3 DEF Outcome
<1>4. CASE ~(v.is = rule.type /\ rule.type # "string")
  BY <1>4 DEF Outcome
<1> QED
  BY <1>3, <1>4

\* What is inside a case is a case of a lower layer.
LEMMA PartIs ==
  ASSUME NEW n \in 1..Len(Layers), NEW c \in Cases, c.rule \in Built(n),
         Seen(c.rule, c.value).is = c.rule.type, c.rule.type # "string",
         NEW p \in Places(c.rule, Seen(c.rule, c.value))
  PROVE  LET d == Part(c.rule, Seen(c.rule, c.value), p)
         IN  d \in Cases /\ d.rule \in Built(n - 1)
<1> DEFINE rule == c.rule
           v == Filled(rule, c.value)
<1>1. rule \in Rules /\ c.value \in Values /\ v \in Values
  BY FilledIs DEF Cases
<1>2. Seen(rule, c.value) = v
  BY <1>1, SeenIs
<1> HIDE DEF v
<1>3. /\ ChildRule(rule, p) \in Built(n - 1) /\ ChildRule(rule, p) \in Rules
      /\ ChildValue(v, p) \in Values
  BY <1>1, <1>2, ChildrenAre
<1> QED
  BY <1>2, <1>3 DEF Part, Cases

\* What is wrong depends on nothing but what is wrong in cases of lower layers.
LEMMA SameMistakes ==
  ASSUME NEW n \in 1..Len(Layers), NEW c \in Cases, c.rule \in Built(n), NEW f, NEW g,
         \A d \in Cases : d.rule \in Built(n - 1) => f[d] = g[d]
  PROVE  Mistakes(f, c) = Mistakes(g, c)
<1> DEFINE rule == c.rule
           v == Seen(rule, c.value)
<1>1. ASSUME v.is = rule.type, rule.type # "string"
      PROVE  UNION {Below(p, f[Part(rule, v, p)]) : p \in Places(rule, v)}
             = UNION {Below(p, g[Part(rule, v, p)]) : p \in Places(rule, v)}
  <2>1. \A p \in Places(rule, v) : f[Part(rule, v, p)] = g[Part(rule, v, p)]
    BY <1>1, PartIs
  <2> HIDE DEF v
  <2>2. {Below(p, f[Part(rule, v, p)]) : p \in Places(rule, v)}
        = {Below(p, g[Part(rule, v, p)]) : p \in Places(rule, v)}
    BY <2>1
  <2> QED
    BY <2>2
<1>2. CASE v.is = rule.type /\ rule.type # "string"
  BY <1>1, <1>2 DEF Mistakes
<1>3. CASE ~(v.is = rule.type /\ rule.type # "string")
  BY <1>3 DEF Mistakes
<1> QED
  BY <1>2, <1>3

\* What is handed on depends on nothing but what is in cases of lower layers.
LEMMA SameRest ==
  ASSUME NEW n \in 1..Len(Layers), NEW c \in Cases, c.rule \in Built(n), NEW f, NEW g,
         \A d \in Cases : d.rule \in Built(n - 1) => f[d] = g[d]
  PROVE  Rest(f, c) = Rest(g, c)
<1> DEFINE rule == c.rule
           v == Seen(rule, c.value)
           Of(h) == [p \in Places(rule, v) \cup Retained(rule, v) |->
                       IF p \in Places(rule, v) THEN h[Part(rule, v, p)] ELSE v.entries[p]]
<1>1. ASSUME v.is = rule.type, rule.type # "string" PROVE Of(f) = Of(g)
  <2>1. \A p \in Places(rule, v) : f[Part(rule, v, p)] = g[Part(rule, v, p)]
    BY <1>1, PartIs
  <2> HIDE DEF v
  <2> QED
    BY <2>1
<1>2. CASE v.is = rule.type /\ rule.type # "string"
  <2>1. Rest(f, c) = IF Skipped(rule, c.value) THEN v ELSE [v EXCEPT !.entries = Of(f)]
    BY <1>2 DEF Rest
  <2>2. Rest(g, c) = IF Skipped(rule, c.value) THEN v ELSE [v EXCEPT !.entries = Of(g)]
    BY <1>2 DEF Rest
  <2> QED
    BY <1>1, <1>2, <2>1, <2>2
<1>3. CASE ~(v.is = rule.type /\ rule.type # "string")
  BY <1>3 DEF Rest
<1> QED
  BY <1>2, <1>3

\* Validate is a function that does what it is defined by: layer by layer there is one.
LEMMA ValidateIs ==
  \A c \in Calls : Validate[c] = Outcome(Validate, c)
<1> DEFINE m == Len(Layers)
           D == {n \in 0..m : \E f : \A c \in Calls : c.rule \in Built(n) => f[c] = Outcome(f, c)}
<1>1. Validate = CHOOSE f : f = [c \in Calls |-> Outcome(f, c)]
  BY DEF Validate, Outcome
<1>2. m \in Nat /\ Built(m) = Rules /\ Built(0) = {}
  BY BuiltIs
<1>3. 0 \in D
  BY <1>2
<1>4. ASSUME NEW n \in 1..m, n - 1 \in D PROVE n \in D
  <2>1. PICK f : \A c \in Calls : c.rule \in Built(n - 1) => f[c] = Outcome(f, c)
    BY <1>4
  <2> DEFINE g == [c \in Calls |-> IF c.rule \in Built(n - 1) THEN f[c] ELSE Outcome(f, c)]
  <2>2. \A c \in Calls : c.rule \in Built(n - 1) => f[c] = g[c]
    OBVIOUS
  <2>3. \A c \in Calls : g[c] = Outcome(f, c)
    BY <2>1
  <2> HIDE DEF g
  <2>4. \A c \in Calls : c.rule \in Built(n) => Outcome(f, c) = Outcome(g, c)
    BY <2>2, SameOutcome
  <2>5. \A c \in Calls : c.rule \in Built(n) => g[c] = Outcome(g, c)
    BY <2>3, <2>4
  <2> QED
    BY <1>2, <2>5
<1>5. m \in D
  <2> HIDE DEF D
  <2>1. \A n \in 0..m : n \in D
    BY <1>2, <1>3, <1>4, BoundedInduction
  <2> QED
    BY <1>2, <2>1
<1>6. PICK f : \A c \in Calls : c.rule \in Built(m) => f[c] = Outcome(f, c)
  BY <1>5
<1>7. \A c \in Calls : c.rule \in Rules
  BY DEF Calls
<1> DEFINE g == [c \in Calls |-> f[c]]
<1>8. \A c \in Calls : f[c] = g[c]
  OBVIOUS
<1>9. g = [c \in Calls |-> g[c]]
  OBVIOUS
<1> HIDE DEF g
<1>10. ASSUME NEW c \in Calls PROVE g[c] = Outcome(g, c)
  <2>1. c.rule \in Built(m)
    BY <1>2, <1>7
  <2>2. m \in 1..Len(Layers)
    BY <1>2, <2>1
  <2>3. Outcome(f, c) = Outcome(g, c)
    BY <1>8, <2>1, <2>2, SameOutcome
  <2> QED
    BY <1>6, <1>8, <2>1, <2>3
<1>11. g = [c \in Calls |-> Outcome(g, c)]
  BY <1>9, <1>10
<1>12. Validate = [c \in Calls |-> Outcome(Validate, c)]
  BY <1>1, <1>11
<1> QED
  BY <1>12, Zenon

\* Wrong is a function that does what it is defined by.
LEMMA WrongIs ==
  \A c \in Cases : Wrong[c] = Mistakes(Wrong, c)
<1> DEFINE m == Len(Layers)
           D == {n \in 0..m : \E f : \A c \in Cases : c.rule \in Built(n) => f[c] = Mistakes(f, c)}
<1>1. Wrong = CHOOSE f : f = [c \in Cases |-> Mistakes(f, c)]
  BY DEF Wrong, Mistakes, Failing, Refused
<1>2. m \in Nat /\ Built(m) = Rules /\ Built(0) = {}
  BY BuiltIs
<1>3. 0 \in D
  BY <1>2
<1>4. ASSUME NEW n \in 1..m, n - 1 \in D PROVE n \in D
  <2>1. PICK f : \A c \in Cases : c.rule \in Built(n - 1) => f[c] = Mistakes(f, c)
    BY <1>4
  <2> DEFINE g == [c \in Cases |-> IF c.rule \in Built(n - 1) THEN f[c] ELSE Mistakes(f, c)]
  <2>2. \A c \in Cases : c.rule \in Built(n - 1) => f[c] = g[c]
    OBVIOUS
  <2>3. \A c \in Cases : g[c] = Mistakes(f, c)
    BY <2>1
  <2> HIDE DEF g
  <2>4. \A c \in Cases : c.rule \in Built(n) => Mistakes(f, c) = Mistakes(g, c)
    BY <2>2, SameMistakes
  <2>5. \A c \in Cases : c.rule \in Built(n) => g[c] = Mistakes(g, c)
    BY <2>3, <2>4
  <2> QED
    BY <1>2, <2>5
<1>5. m \in D
  <2> HIDE DEF D
  <2>1. \A n \in 0..m : n \in D
    BY <1>2, <1>3, <1>4, BoundedInduction
  <2> QED
    BY <1>2, <2>1
<1>6. PICK f : \A c \in Cases : c.rule \in Built(m) => f[c] = Mistakes(f, c)
  BY <1>5
<1>7. \A c \in Cases : c.rule \in Rules
  BY DEF Cases
<1> DEFINE g == [c \in Cases |-> f[c]]
<1>8. \A c \in Cases : f[c] = g[c]
  OBVIOUS
<1>9. g = [c \in Cases |-> g[c]]
  OBVIOUS
<1> HIDE DEF g
<1>10. ASSUME NEW c \in Cases PROVE g[c] = Mistakes(g, c)
  <2>1. c.rule \in Built(m)
    BY <1>2, <1>7
  <2>2. m \in 1..Len(Layers)
    BY <1>2, <2>1
  <2>3. Mistakes(f, c) = Mistakes(g, c)
    BY <1>8, <2>1, <2>2, SameMistakes
  <2> QED
    BY <1>6, <1>8, <2>1, <2>3
<1>11. g = [c \in Cases |-> Mistakes(g, c)]
  BY <1>9, <1>10
<1>12. Wrong = [c \in Cases |-> Mistakes(Wrong, c)]
  BY <1>1, <1>11
<1> QED
  BY <1>12, Zenon

\* Clean is a function that does what it is defined by.
LEMMA CleanIs ==
  \A c \in Cases : Clean[c] = Rest(Clean, c)
<1> DEFINE m == Len(Layers)
           D == {n \in 0..m : \E f : \A c \in Cases : c.rule \in Built(n) => f[c] = Rest(f, c)}
<1>1. Clean = CHOOSE f : f = [c \in Cases |-> Rest(f, c)]
  BY DEF Clean, Rest, Retained
<1>2. m \in Nat /\ Built(m) = Rules /\ Built(0) = {}
  BY BuiltIs
<1>3. 0 \in D
  BY <1>2
<1>4. ASSUME NEW n \in 1..m, n - 1 \in D PROVE n \in D
  <2>1. PICK f : \A c \in Cases : c.rule \in Built(n - 1) => f[c] = Rest(f, c)
    BY <1>4
  <2> DEFINE g == [c \in Cases |-> IF c.rule \in Built(n - 1) THEN f[c] ELSE Rest(f, c)]
  <2>2. \A c \in Cases : c.rule \in Built(n - 1) => f[c] = g[c]
    OBVIOUS
  <2>3. \A c \in Cases : g[c] = Rest(f, c)
    BY <2>1
  <2> HIDE DEF g
  <2>4. \A c \in Cases : c.rule \in Built(n) => Rest(f, c) = Rest(g, c)
    BY <2>2, SameRest
  <2>5. \A c \in Cases : c.rule \in Built(n) => g[c] = Rest(g, c)
    BY <2>3, <2>4
  <2> QED
    BY <1>2, <2>5
<1>5. m \in D
  <2> HIDE DEF D
  <2>1. \A n \in 0..m : n \in D
    BY <1>2, <1>3, <1>4, BoundedInduction
  <2> QED
    BY <1>2, <2>1
<1>6. PICK f : \A c \in Cases : c.rule \in Built(m) => f[c] = Rest(f, c)
  BY <1>5
<1>7. \A c \in Cases : c.rule \in Rules
  BY DEF Cases
<1> DEFINE g == [c \in Cases |-> f[c]]
<1>8. \A c \in Cases : f[c] = g[c]
  OBVIOUS
<1>9. g = [c \in Cases |-> g[c]]
  OBVIOUS
<1> HIDE DEF g
<1>10. ASSUME NEW c \in Cases PROVE g[c] = Rest(g, c)
  <2>1. c.rule \in Built(m)
    BY <1>2, <1>7
  <2>2. m \in 1..Len(Layers)
    BY <1>2, <2>1
  <2>3. Rest(f, c) = Rest(g, c)
    BY <1>8, <2>1, <2>2, SameRest
  <2> QED
    BY <1>6, <1>8, <2>1, <2>3
<1>11. g = [c \in Cases |-> Rest(g, c)]
  BY <1>9, <1>10
<1>12. Clean = [c \in Cases |-> Rest(Clean, c)]
  BY <1>1, <1>11
<1> QED
  BY <1>12, Zenon
-----------------------------------------------------------------------------
(* What the descent comes to. *)

\* What is told of a place, or of a property that is not in the shape.
At(rule, v, W, p) ==
  IF p \in Places(rule, v) THEN Below(p, W[p])
  ELSE IF rule.extra = "reject" THEN {Issue(<<p>>, "object", "extra")} ELSE {}

\* What the descent makes of it.
PartAt(rule, v, ch, p) ==
  IF p \in Places(rule, v) THEN OfChild(p, ch[p]) ELSE OfExtra(rule, v, p)

\* A refused property is an issue, found at its key.
LEMMA ExtraIssue ==
  ASSUME NEW p \in Hops
  PROVE  LET x == Issue(<<p>>, "object", "extra") IN x \in Issues /\ x.path[1] = p
<1> DEFINE h == <<p>>
           x == [path |-> h, parent |-> "object", rule |-> "extra"]
<1>1. h \in Seq(Hops) /\ h[1] = p
  OBVIOUS
<1>2. x = Issue(<<p>>, "object", "extra")
  BY DEF Issue
<1> HIDE DEF h
<1>3. x \in Issues /\ x.path = h
  BY <1>1 DEF Issues, Types
<1> QED
  BY <1>1, <1>2, <1>3

\* x reports X, and what it hands on is the value of p.
PartOk(x, X, rule, v, ch, p, bail) ==
  /\ Tells(x.issues, X, bail)
  /\ \A w \in X : w.path[1] = p
  /\ x.issues = <<>> =>
       /\ DOMAIN x.value \subseteq {p}
       /\ p \in DOMAIN x.value <=> p \in Places(rule, v) \/ rule.extra = "passthrough"
       /\ p \in DOMAIN x.value =>
            x.value[p] = IF p \in Places(rule, v) THEN ch[p].value ELSE v.entries[p]

\* What comes back from a place tells what is wrong there, and nothing of any other place.
LEMMA PartTold ==
  ASSUME NEW rule \in Rules, NEW v, NEW bail, NEW ch, NEW W, NEW p \in Hops,
         p \in Places(rule, v) => Tells(ch[p].issues, W[p], bail)
  PROVE  PartOk(PartAt(rule, v, ch, p), At(rule, v, W, p), rule, v, ch, p, bail)
<1> DEFINE x == PartAt(rule, v, ch, p)
           X == At(rule, v, W, p)
           Suit == /\ DOMAIN x.value \subseteq {p}
                   /\ p \in DOMAIN x.value <=> p \in Places(rule, v) \/ rule.extra = "passthrough"
                   /\ p \in DOMAIN x.value => x.value[p] = IF p \in Places(rule, v) THEN ch[p].value
                                                           ELSE v.entries[p]
<1>1. \A value : DOMAIN Single(p, value) = {p} /\ Single(p, value)[p] = value
  BY DEF Single
<1>2. DOMAIN Nothing = {}
  BY DEF Nothing
<1>3. Tells(<<>>, {}, bail)
  BY NothingTold
<1>4. CASE p \in Places(rule, v) /\ Succeeds(ch[p])
  <2>1. ch[p].issues = <<>>
    BY <1>4 DEF Succeeds
  <2>2. W[p] = {}
    BY <1>4, <2>1 DEF Tells
  <2>3. X = {}
    BY <1>4, <2>2 DEF At, Below
  <2>4. x = [value |-> Single(p, ch[p].value), issues |-> <<>>]
    BY <1>4 DEF PartAt, OfChild, Ok
  <2> HIDE DEF PartOk, x, X
  <2>5. x.value = Single(p, ch[p].value) /\ x.issues = <<>>
    BY <2>4
  <2>6. Tells(x.issues, X, bail)
    BY <1>3, <2>3, <2>5, Zenon
  <2>7. Suit
    BY <1>1, <1>4, <2>5
  <2> QED
    BY <2>3, <2>6, <2>7 DEF PartOk, x, X
<1>5. CASE p \in Places(rule, v) /\ ~Succeeds(ch[p])
  <2>1. ch[p].issues # <<>>
    BY <1>5 DEF Succeeds
  <2>2. W[p] # {}
    BY <1>5, <2>1 DEF Tells
  <2>3. X = Below(p, W[p])
    BY <1>5 DEF At
  <2>4. X # {}
    BY <2>2, <2>3 DEF Below
  <2>5. x.issues = Prefixed(p, ch[p].issues)
    BY <1>5 DEF PartAt, OfChild, Err
  <2> HIDE DEF PartOk, x, X
  <2>6. Tells(x.issues, X, bail) /\ \A w \in X : w.path[1] = p
    BY <1>5, <2>3, <2>5, ChildTold
  <2>7. x.issues # <<>>
    BY <2>4, <2>6 DEF Tells
  <2> QED
    BY <2>6, <2>7 DEF PartOk, x, X
<1>6. CASE p \notin Places(rule, v)
  <2>1. rule.extra \in {"strip", "reject", "passthrough"}
    BY RulesAre
  <2>2. x = OfExtra(rule, v, p)
    BY <1>6 DEF PartAt
  <2>3. X = IF rule.extra = "reject" THEN {Issue(<<p>>, "object", "extra")} ELSE {}
    BY <1>6 DEF At
  <2> HIDE DEF PartOk, x, X
  <2>4. CASE rule.extra = "strip"
    <3>1. x.issues = <<>> /\ x.value = Nothing
      BY <2>2, <2>4 DEF OfExtra, Ok
    <3>2. X = {}
      BY <2>3, <2>4
    <3>3. Tells(x.issues, X, bail)
      BY <1>3, <3>1, <3>2, Zenon
    <3>4. Suit
      BY <1>2, <1>6, <2>4, <3>1
    <3> QED
      BY <3>2, <3>3, <3>4 DEF PartOk, x, X
  <2>5. CASE rule.extra = "reject"
    <3> DEFINE i == Issue(<<p>>, "object", "extra")
    <3>1. x.issues = <<i>> /\ X = {i} /\ <<i>> # <<>>
      BY <2>2, <2>3, <2>5 DEF OfExtra, Err
    <3>2. i \in Issues /\ i.path[1] = p
      BY ExtraIssue
    <3> HIDE DEF i
    <3>3. Tells(<<i>>, {i}, bail)
      BY <3>2, OneTold
    <3>4. Tells(x.issues, X, bail)
      BY <3>1, <3>3, Zenon
    <3> QED
      BY <3>1, <3>2, <3>4 DEF PartOk, x, X
  <2>6. CASE rule.extra = "passthrough"
    <3>1. x.issues = <<>> /\ x.value = Single(p, v.entries[p])
      BY <2>2, <2>6 DEF OfExtra, Ok
    <3>2. X = {}
      BY <2>3, <2>6
    <3>3. Tells(x.issues, X, bail)
      BY <1>3, <3>1, <3>2, Zenon
    <3>4. Suit
      BY <1>1, <1>6, <2>6, <3>1
    <3> QED
      BY <3>2, <3>3, <3>4 DEF PartOk, x, X
  <2> QED
    BY <2>1, <2>4, <2>5, <2>6
<1> QED
  BY <1>4, <1>5, <1>6

\* x reports what the children and the keys that are refused come to, and if that
\* is nothing it puts the values of the children together.
Descends(x, rule, v, bail, ch, W) ==
  /\ Tells(x.issues, (UNION {Below(p, W[p]) : p \in Places(rule, v)})
                     \cup IF rule.type = "array" THEN {}
                          ELSE {Issue(<<k>>, "object", "extra") : k \in Refused(rule, v)}, bail)
  /\ x.issues = <<>> =>
       x.value = [v EXCEPT !.entries = [p \in Places(rule, v) \cup Retained(rule, v) |->
                   IF p \in Places(rule, v) THEN ch[p].value ELSE v.entries[p]]]

\* Every place of the child rules and every property is come to once.
LEMMA TraverseMeans ==
  ASSUME NEW rule \in Rules, rule.type # "string", NEW v \in Values, v.is = rule.type,
         NEW bail \in BOOLEAN, NEW ch, NEW W,
         \A p \in Places(rule, v) : Tells(ch[p].issues, W[p], bail)
  PROVE  Descends(Traverse(rule, v, bail, ch), rule, v, bail, ch, W)
<1> DEFINE t == Route(rule, v)
           m == Len(t)
           xs == [i \in 1..m |-> PartAt(rule, v, ch, t[i])]
           U == [i \in 1..m |-> At(rule, v, W, t[i])]
           g == Gathered(xs, bail)
           ps == Places(rule, v)
           below == UNION {Below(p, W[p]) : p \in ps}
           refused == {Issue(<<k>>, "object", "extra") : k \in Refused(rule, v)}
           all == below \cup IF rule.type = "array" THEN {} ELSE refused
<1>1. rule.type \in {"array", "object"}
  BY RulesAre DEF Types
<1>2. t \in Seq(Hops) /\ Lists(t, Stops(rule, v))
  <2>1. rule.type = "array" => v.entries \in Seq(Values)
    BY ValuesAre
  <2>2. rule.type = "object" => DOMAIN rule.shape \subseteq ToSet(Keys) /\ DOMAIN v.entries \subseteq ToSet(Keys)
    BY RulesAre, ValuesAre
  <2> QED
    BY <1>1, <2>1, <2>2, RouteElements
<1>3. m \in Nat /\ DOMAIN t = 1..m /\ \A i \in 1..m : t[i] \in Hops
  BY <1>2
<1>4. Traverse(rule, v, bail, ch) = IF Succeeds(g) THEN Ok([v EXCEPT !.entries = g.value]) ELSE Err(g.issues)
  BY <1>3 DEF Traverse, PartAt
<1> HIDE DEF t, m, g
<1>5. Len(xs) = m /\ \A i \in 1..m : xs[i] = PartAt(rule, v, ch, t[i]) /\ U[i] = At(rule, v, W, t[i])
  BY <1>3
<1> HIDE DEF xs, U
<1>6. \A i \in 1..m :
        /\ Tells(xs[i].issues, U[i], bail)
        /\ \A w \in U[i] : w.path[1] = t[i]
        /\ xs[i].issues = <<>> =>
             /\ DOMAIN xs[i].value \subseteq {t[i]}
             /\ t[i] \in DOMAIN xs[i].value <=> t[i] \in ps \/ rule.extra = "passthrough"
             /\ t[i] \in DOMAIN xs[i].value =>
                  xs[i].value[t[i]] = IF t[i] \in ps THEN ch[t[i]].value ELSE v.entries[t[i]]
  <2> SUFFICES ASSUME NEW i \in 1..m PROVE PartOk(xs[i], U[i], rule, v, ch, t[i], bail)
    BY DEF PartOk
  <2>1. xs[i] = PartAt(rule, v, ch, t[i]) /\ U[i] = At(rule, v, W, t[i]) /\ t[i] \in Hops
    BY <1>3, <1>5
  <2>2. t[i] \in Places(rule, v) => Tells(ch[t[i]].issues, W[t[i]], bail)
    OBVIOUS
  <2>3. PartOk(PartAt(rule, v, ch, t[i]), At(rule, v, W, t[i]), rule, v, ch, t[i], bail)
    BY <2>1, <2>2, PartTold
  <2> QED
    BY <2>1, <2>3
<1>7. \A i, j \in 1..m : i # j => t[i] # t[j]
  BY <1>2 DEF Lists, m
<1>8. \A i, j \in 1..m : i # j => U[i] \cap U[j] = {}
  BY <1>6, <1>7
<1>9. \A i, j \in 1..m : i # j /\ xs[i].issues = <<>> /\ xs[j].issues = <<>> =>
        DOMAIN xs[i].value \cap DOMAIN xs[j].value = {}
  <2> SUFFICES ASSUME NEW i \in 1..m, NEW j \in 1..m, i # j, xs[i].issues = <<>>, xs[j].issues = <<>>
               PROVE  DOMAIN xs[i].value \cap DOMAIN xs[j].value = {}
    OBVIOUS
  <2>1. DOMAIN xs[i].value \subseteq {t[i]} /\ DOMAIN xs[j].value \subseteq {t[j]} /\ t[i] # t[j]
    BY <1>6, <1>7
  <2> QED
    BY <2>1
<1>10. /\ Tells(g.issues, UNION {U[i] : i \in 1..m}, bail)
       /\ g.issues = <<>> => Merges(g.value, xs, m)
  <2>1. \A i \in 1..m : Tells(xs[i].issues, U[i], bail)
    BY <1>6
  <2> QED
    <3>1. Apart(xs, U, m, bail)
      BY <1>8, <1>9, <2>1 DEF Apart
    <3>2. m \in Nat /\ Len(xs) = m
      BY <1>3, <1>5
    <3>3. Gathers(Gathered(xs, bail), xs, U, m, bail)
      BY <3>1, <3>2, GatheredMeans
    <3> QED
      BY <3>3 DEF g, Gathers
<1>11. \A p : p \in Stops(rule, v) <=> \E i \in 1..m : t[i] = p
  BY <1>2 DEF Lists, m
<1>12. /\ ps \subseteq Stops(rule, v)
       /\ rule.type = "array" => Stops(rule, v) = ps
       /\ rule.type = "object" => Stops(rule, v) \ ps = DOMAIN v.entries \ DOMAIN rule.shape
  BY <1>1 DEF Stops, Places
<1>13. UNION {U[i] : i \in 1..m} = UNION {At(rule, v, W, p) : p \in Stops(rule, v)}
  BY <1>5, <1>11
<1>14. UNION {At(rule, v, W, p) : p \in Stops(rule, v)} = all
  <2>1. ASSUME NEW p \in Stops(rule, v), NEW w \in At(rule, v, W, p)
        PROVE  w \in below \/ (rule.type = "object" /\ w \in refused)
    <3>1. CASE p \in ps
      BY <2>1, <3>1 DEF At
    <3>2. CASE p \notin ps
      <4>1. rule.extra = "reject" /\ w = Issue(<<p>>, "object", "extra")
        BY <2>1, <3>2 DEF At
      <4>2. rule.type = "object" /\ p \in Refused(rule, v)
        BY <1>1, <1>12, <3>2, <4>1 DEF Refused
      <4>3. w \in refused
        BY <4>1, <4>2
      <4> QED
        BY <4>2, <4>3
    <3> QED
      BY <3>1, <3>2
  <2>2. ASSUME NEW w \in below PROVE \E p \in Stops(rule, v) : w \in At(rule, v, W, p)
    BY <1>12 DEF At
  <2>3. ASSUME rule.type = "object", NEW w \in refused
        PROVE  \E p \in Stops(rule, v) : w \in At(rule, v, W, p)
    <3>1. PICK k \in Refused(rule, v) : w = Issue(<<k>>, "object", "extra")
      OBVIOUS
    <3>2. rule.extra = "reject" /\ k \in Stops(rule, v) /\ k \notin ps
      BY <1>12, <2>3, <3>1 DEF Refused
    <3> QED
      BY <3>1, <3>2 DEF At
  <2> HIDE DEF below, refused
  <2>4. \/ rule.type = "array" /\ all = below
        \/ rule.type = "object" /\ all = below \cup refused
    <3>1. CASE rule.type = "array"
      BY <3>1
    <3>2. CASE rule.type = "object"
      BY <3>2
    <3> QED
      BY <1>1, <3>1, <3>2
  <2> HIDE DEF all
  <2> QED
    BY <2>1, <2>2, <2>3, <2>4
<1>15. Tells(g.issues, all, bail)
  <2>1. UNION {U[i] : i \in 1..m} = all
    BY <1>13, <1>14
  <2> HIDE DEF all
  <2> QED
    BY <1>10, <2>1
<1> DEFINE x == Traverse(rule, v, bail, ch)
<1>16. /\ x.issues = g.issues
       /\ g.issues = <<>> => x.value = [v EXCEPT !.entries = g.value]
  <2>1. CASE g.issues = <<>>
    <3>1. x = Ok([v EXCEPT !.entries = g.value])
      BY <1>4, <2>1 DEF Succeeds
    <3> QED
      BY <2>1, <3>1 DEF Ok
  <2>2. CASE g.issues # <<>>
    <3>1. x = Err(g.issues)
      BY <1>4, <2>2 DEF Succeeds
    <3> QED
      BY <2>2, <3>1 DEF Err
  <2> QED
    BY <2>1, <2>2
<1> HIDE DEF x, all
<1>17. ASSUME g.issues = <<>>
       PROVE  g.value = [p \in ps \cup Retained(rule, v) |-> IF p \in ps THEN ch[p].value ELSE v.entries[p]]
  <2> DEFINE F == g.value
  <2>1. /\ F = [p \in DOMAIN F |-> F[p]]
        /\ \A p \in DOMAIN F : \E i \in 1..m : p \in DOMAIN xs[i].value
        /\ \A i \in 1..m : \A p \in DOMAIN xs[i].value : p \in DOMAIN F /\ F[p] = xs[i].value[p]
    BY <1>10, <1>17 DEF Merges
  <2> HIDE DEF F, ps
  <2>2. \A i \in 1..m : xs[i].issues = <<>>
    <3>1. UNION {U[i] : i \in 1..m} = {}
      BY <1>10, <1>17 DEF Tells
    <3>2. \A i \in 1..m : U[i] = {} /\ Tells(xs[i].issues, U[i], bail)
      BY <1>6, <3>1
    <3> QED
      BY <3>2 DEF Tells
  <2>3. Retained(rule, v) = IF rule.extra = "passthrough" /\ rule.type = "object" THEN DOMAIN v.entries ELSE {}
    BY DEF Retained
  <2>4. ASSUME NEW p \in ps \cup Retained(rule, v)
        PROVE  p \in DOMAIN F /\ F[p] = IF p \in ps THEN ch[p].value ELSE v.entries[p]
    <3>1. p \in Stops(rule, v) /\ (p \in ps \/ rule.extra = "passthrough")
      BY <1>12, <2>3, <2>4 DEF Stops
    <3>2. PICK i \in 1..m : t[i] = p
      BY <1>11, <3>1
    <3>3. p \in DOMAIN xs[i].value /\ xs[i].value[p] = IF p \in ps THEN ch[p].value ELSE v.entries[p]
      BY <1>6, <2>2, <3>1, <3>2
    <3> QED
      BY <2>1, <3>3
  <2>5. ASSUME NEW p \in DOMAIN F PROVE p \in ps \cup Retained(rule, v)
    <3>1. PICK i \in 1..m : p \in DOMAIN xs[i].value
      BY <2>1
    <3>2. p = t[i] /\ (p \in ps \/ rule.extra = "passthrough")
      BY <1>6, <2>2, <3>1
    <3>3. p \in Stops(rule, v)
      BY <1>11, <3>2
    <3> QED
      BY <1>1, <1>12, <2>3, <3>2, <3>3
  <2>6. DOMAIN F = ps \cup Retained(rule, v)
    BY <2>4, <2>5
  <2>7. F = [p \in ps \cup Retained(rule, v) |-> IF p \in ps THEN ch[p].value ELSE v.entries[p]]
    BY <2>1, <2>4, <2>6
  <2> QED
    BY <2>7 DEF F
<1>18. /\ Tells(x.issues, all, bail)
       /\ x.issues = <<>> => x.value = [v EXCEPT !.entries = [p \in ps \cup Retained(rule, v) |->
                                          IF p \in ps THEN ch[p].value ELSE v.entries[p]]]
  <2> HIDE DEF ps
  <2> QED
    BY <1>15, <1>16, <1>17
<1> QED
  BY <1>18 DEF Descends, x, all
-----------------------------------------------------------------------------
(* The verdict, layer by layer. *)

\* The checks in the order of their phases are the checks of the rule.
LEMMA ReportedTold ==
  ASSUME NEW r \in Rules, NEW t, InPhases(t, r.checks), Distinct(r.checks),
         NEW s \in Seq(Issues), NEW w, NEW bail, Reported(s, t, Len(t), w, bail, r.type)
  PROVE  /\ Tells(s, {Issue(<<>>, r.type, r.checks[i].name) : i \in Failing(r, w)}, bail)
         /\ s = <<>> <=> Failing(r, w) = {}
<1> DEFINE F == Failing(r, w)
           W == {Issue(<<>>, r.type, r.checks[i].name) : i \in F}
<1>1. /\ r.type \in Types
      /\ r.checks \in Seq(Checks) /\ DOMAIN r.checks = 1..Len(r.checks)
      /\ \A i \in 1..Len(r.checks) : r.checks[i] \in Checks
  <2>1. r.type \in Types /\ r.checks \in Seq(Checks)
    BY RulesAre
  <2> QED
    BY <2>1
<1>2. F = {i \in 1..Len(r.checks) : ~Passes(r.checks[i], w)}
  BY <1>1 DEF Failing
<1>3. /\ \A i \in 1..Len(t) : \E j \in 1..Len(r.checks) : t[i] = r.checks[j]
      /\ \A j \in 1..Len(r.checks) : \E i \in 1..Len(t) : t[i] = r.checks[j]
      /\ Distinct(t)
  BY DEF InPhases
<1>4. /\ s = <<>> <=> \A i \in 1..Len(t) : Passes(t[i], w)
      /\ \A k \in 1..Len(s) :
           \E i \in 1..Len(t) : ~Passes(t[i], w) /\ s[k] = Issue(<<>>, r.type, t[i].name)
      /\ ~bail => \A i \in 1..Len(t) : ~Passes(t[i], w) =>
           \E k \in 1..Len(s) : s[k] = Issue(<<>>, r.type, t[i].name)
      /\ \A k, l \in 1..Len(s) : s[k] = s[l] => k = l
  BY <1>3 DEF Reported
<1> HIDE DEF F
<1>5. W \subseteq Issues
  BY <1>1, <1>2, CheckIssue
<1>6. s = <<>> <=> F = {}
  <2>1. ASSUME s # <<>> PROVE F # {}
    <3>1. PICK i \in 1..Len(t) : ~Passes(t[i], w)
      BY <1>4, <2>1
    <3>2. PICK j \in 1..Len(r.checks) : t[i] = r.checks[j]
      BY <1>3
    <3> QED
      BY <1>2, <3>1, <3>2
  <2>2. ASSUME F # {} PROVE s # <<>>
    <3>1. PICK j \in 1..Len(r.checks) : ~Passes(r.checks[j], w)
      BY <1>2, <2>2
    <3>2. PICK i \in 1..Len(t) : t[i] = r.checks[j]
      BY <1>3
    <3> QED
      BY <1>4, <3>1, <3>2
  <2> QED
    BY <2>1, <2>2
<1>7. s = <<>> <=> W = {}
  BY <1>6
<1>8. ASSUME NEW k \in 1..Len(s) PROVE s[k] \in W
  <2>1. PICK i \in 1..Len(t) : ~Passes(t[i], w) /\ s[k] = Issue(<<>>, r.type, t[i].name)
    BY <1>4
  <2>2. PICK j \in 1..Len(r.checks) : t[i] = r.checks[j]
    BY <1>3
  <2>3. j \in F /\ s[k] = Issue(<<>>, r.type, r.checks[j].name)
    BY <1>2, <2>1, <2>2
  <2> QED
    BY <2>3
<1>9. ASSUME ~bail, NEW x \in W PROVE \E k \in 1..Len(s) : s[k] = x
  <2>1. PICK j \in F : x = Issue(<<>>, r.type, r.checks[j].name)
    OBVIOUS
  <2>2. j \in 1..Len(r.checks) /\ ~Passes(r.checks[j], w)
    BY <1>2
  <2>3. PICK i \in 1..Len(t) : t[i] = r.checks[j]
    BY <1>3, <2>2
  <2>4. \E k \in 1..Len(s) : s[k] = Issue(<<>>, r.type, t[i].name)
    BY <1>4, <1>9, <2>2, <2>3
  <2> QED
    BY <2>1, <2>3, <2>4
<1> HIDE DEF W
<1>10. Tells(s, W, bail)
  BY <1>4, <1>5, <1>7, <1>8, <1>9 DEF Tells
<1> QED
  BY <1>6, <1>10 DEF F, W

\* A value of another type is an issue.
LEMMA TypeIssue ==
  ASSUME NEW type \in Types PROVE Issue(<<>>, "", type) \in Issues
<1>1. <<>> \in Seq(Hops)
  OBVIOUS
<1> QED
  BY <1>1 DEF Issues, Issue

Case(call) == [rule |-> call.rule, value |-> call.value]

\* The result of a call says what is wrong, and otherwise has the cleaned value.
Right(call) ==
  /\ Tells(Validate[call].issues, Wrong[Case(call)], call.bail)
  /\ Validate[call].issues = <<>> => Validate[call].value = Clean[Case(call)]

\* A call is answered rightly when those of lower layers are.
LEMMA RightInTurn ==
  ASSUME NEW n \in 1..Len(Layers), NEW call \in Calls, call.rule \in Built(n),
         \A c \in Calls : c.rule \in Built(n - 1) => Right(c),
         Distinct(call.rule.checks)
  PROVE  Right(call)
<1> DEFINE rule == call.rule
           v == Filled(rule, call.value)
           s == Seen(rule, call.value)
           t == ByPhase(rule.checks)
           checked == ExecuteRules(v, t, call.bail, rule.type)
           d == Case(call)
           x == Validate[call]
           W == Wrong[d]
           C == Clean[d]
<1>1. rule \in Rules /\ call.value \in Values /\ call.bail \in BOOLEAN /\ v \in Values
  BY FilledIs DEF Calls
<1>2. d \in Cases /\ d.rule = rule /\ d.value = call.value
  BY <1>1 DEF Case, Cases
<1>3. x = Outcome(Validate, call) /\ W = Mistakes(Wrong, d) /\ C = Rest(Clean, d)
  BY <1>2, ValidateIs, WrongIs, CleanIs
<1>4. rule.type \in Types
  BY <1>1, RulesAre
<1>5. /\ s.is = v.is
      /\ s = Undefined <=> v = Undefined
      /\ v.is = rule.type => s = Bare(v, t, Len(t))
      /\ rule.type # "string" => s = v
  BY <1>1, SeenIs
<1>6. Skipped(rule, call.value) <=> rule.optional /\ v = Undefined
  BY <1>5 DEF Skipped
<1> HIDE DEF rule, v, s, t, checked, d, x, W, C
<1> SUFFICES Tells(x.issues, W, call.bail) /\ (x.issues = <<>> => x.value = C)
  BY DEF Right, x, W, C, d
<1>7. CASE rule.optional /\ v = Undefined
  <2>1. x = [value |-> Undefined, issues |-> <<>>]
    BY <1>3, <1>7 DEF Outcome, Ok, rule, v
  <2>2. W = {} /\ C = s
    BY <1>2, <1>3, <1>6, <1>7 DEF Mistakes, Rest, s
  <2>3. Tells(<<>>, {}, call.bail)
    BY NothingTold
  <2>4. x.issues = <<>> /\ x.value = Undefined
    BY <2>1
  <2> QED
    BY <1>5, <1>7, <2>2, <2>3, <2>4
<1>8. CASE ~(rule.optional /\ v = Undefined) /\ v.is # rule.type
  <2> DEFINE i == Issue(<<>>, "", rule.type)
  <2>1. x = [value |-> Undefined, issues |-> <<i>>]
    BY <1>3, <1>8 DEF Outcome, Err, rule, v
  <2>2. W = {i}
    BY <1>2, <1>3, <1>5, <1>6, <1>8 DEF Mistakes, s
  <2>3. i \in Issues
    BY <1>4, TypeIssue
  <2> HIDE DEF i
  <2>4. Tells(<<i>>, {i}, call.bail)
    BY <2>3, OneTold
  <2>5. x.issues = <<i>> /\ <<i>> # <<>>
    BY <2>1
  <2> QED
    BY <2>2, <2>4, <2>5
<1>9. CASE ~(rule.optional /\ v = Undefined) /\ v.is = rule.type
  <2> DEFINE f == Failing(rule, s)
             F == {Issue(<<>>, rule.type, rule.checks[i].name) : i \in f}
  <2>1. /\ checked = [value |-> s, issues |-> checked.issues]
        /\ checked.issues \in Seq(Issues)
        /\ Reported(checked.issues, t, Len(t), s, call.bail, rule.type)
        /\ InPhases(t, rule.checks)
        /\ rule.type # "string" => checked.value = v
    <3>1. /\ Done(ExecuteRules(v, ByPhase(rule.checks), call.bail, rule.type), v, ByPhase(rule.checks),
                  Len(ByPhase(rule.checks)), Bare(v, ByPhase(rule.checks), Len(ByPhase(rule.checks))),
                  call.bail, rule.type)
          /\ InPhases(ByPhase(rule.checks), rule.checks)
          /\ rule.type # "string" =>
               ExecuteRules(v, ByPhase(rule.checks), call.bail, rule.type).value = v
      BY <1>1, <1>9, ChecksMean
    <3>2. Done(checked, v, t, Len(t), Bare(v, t, Len(t)), call.bail, rule.type)
      BY <3>1 DEF checked, t
    <3>3. Bare(v, t, Len(t)) = s
      BY <1>5, <1>9
    <3>4. Done(checked, v, t, Len(t), s, call.bail, rule.type)
      BY <3>2, <3>3
    <3> QED
      BY <3>1, <3>3, <3>4 DEF Done, checked, t
  <2>2. Tells(checked.issues, F, call.bail) /\ (checked.issues = <<>> <=> f = {})
    BY <1>1, <2>1, ReportedTold DEF rule
  <2>3. checked.value = s
    BY <2>1
  <2>4. CASE checked.issues # <<>>
    <3>1. x = [value |-> Undefined, issues |-> checked.issues]
      BY <1>3, <1>9, <2>4 DEF Outcome, Err, Succeeds, rule, v, checked, t
    <3>2. W = F
      BY <1>2, <1>3, <1>5, <1>6, <1>9, <2>2, <2>4 DEF Mistakes, s
    <3>3. x.issues = checked.issues
      BY <3>1
    <3> HIDE DEF F
    <3> QED
      BY <2>2, <2>4, <3>2, <3>3
  <2>5. CASE checked.issues = <<>> /\ rule.type = "string"
    <3>1. x = checked
      BY <1>3, <1>9, <2>5 DEF Outcome, Succeeds, rule, v, checked, t
    <3>2. W = {} /\ C = s
      BY <1>2, <1>3, <1>5, <1>6, <1>9, <2>2, <2>5 DEF Mistakes, Rest, s
    <3>3. Tells(<<>>, {}, call.bail)
      BY NothingTold
    <3> HIDE DEF F
    <3> QED
      BY <2>3, <2>5, <3>1, <3>2, <3>3
  <2>6. CASE checked.issues = <<>> /\ rule.type # "string"
    <3> DEFINE ch == [p \in Places(rule, v) |-> Validate[Inner(call, v, p)]]
               Ws == [p \in Places(rule, v) |-> Wrong[Part(rule, v, p)]]
               y == Traverse(rule, v, call.bail, ch)
               all == (UNION {Below(p, Wrong[Part(rule, v, p)]) : p \in Places(rule, v)})
                      \cup IF rule.type = "array" THEN {}
                           ELSE {Issue(<<k>>, "object", "extra") : k \in Refused(rule, v)}
    <3>1. s = v /\ checked.value = v
      BY <1>5, <2>3, <2>6
    <3>2. x = y
      <4>1. x = Traverse(rule, checked.value, call.bail,
                         [p \in Places(rule, checked.value) |-> Validate[Inner(call, checked.value, p)]])
        BY <1>3, <1>9, <2>6 DEF Outcome, Succeeds, rule, v, checked, t
      <4> QED
        BY <3>1, <4>1
    <3>3. W = all
      BY <1>2, <1>3, <1>5, <1>6, <1>9, <2>2, <2>6, <3>1 DEF Mistakes, s
    <3>4. C = [v EXCEPT !.entries = [p \in Places(rule, v) \cup Retained(rule, v) |->
                 IF p \in Places(rule, v) THEN Clean[Part(rule, v, p)] ELSE v.entries[p]]]
      BY <1>2, <1>3, <1>5, <1>6, <1>9, <2>6, <3>1 DEF Rest, s
    <3>5. ASSUME NEW p \in Places(rule, v)
          PROVE  /\ Tells(ch[p].issues, Ws[p], call.bail)
                 /\ ch[p].issues = <<>> => ch[p].value = Clean[Part(rule, v, p)]
      <4> DEFINE c == Inner(call, v, p)
      <4>1. /\ ChildRule(rule, p) \in Built(n - 1) /\ ChildRule(rule, p) \in Rules
            /\ ChildValue(v, p) \in Values
        <5>1. rule \in Built(n)
          BY DEF rule
        <5> QED
          BY <1>1, <1>9, <2>6, <5>1, ChildrenAre
      <4>2. /\ c = [rule |-> ChildRule(rule, p), value |-> ChildValue(v, p), bail |-> call.bail]
            /\ Part(rule, v, p) = [rule |-> ChildRule(rule, p), value |-> ChildValue(v, p)]
        BY DEF Inner, Part, rule
      <4>3. c \in Calls /\ c.rule \in Built(n - 1) /\ c.bail = call.bail
        BY <1>1, <4>1, <4>2 DEF Calls
      <4>4. Case(c) = Part(rule, v, p)
        BY <4>2 DEF Case
      <4> HIDE DEF c
      <4>5. Right(c)
        BY <4>3
      <4>6. /\ Tells(Validate[c].issues, Wrong[Part(rule, v, p)], call.bail)
            /\ Validate[c].issues = <<>> => Validate[c].value = Clean[Part(rule, v, p)]
        BY <4>3, <4>4, <4>5 DEF Right
      <4>7. ch[p] = Validate[c] /\ Ws[p] = Wrong[Part(rule, v, p)]
        BY DEF c
      <4> QED
        BY <4>6, <4>7
    <3> HIDE DEF ch
    <3>6. \A p \in Places(rule, v) : Ws[p] = Wrong[Part(rule, v, p)]
      OBVIOUS
    <3> HIDE DEF Ws
    <3>7. Descends(y, rule, v, call.bail, ch, Ws)
      <4>1. \A p \in Places(rule, v) : Tells(ch[p].issues, Ws[p], call.bail)
        BY <3>5
      <4> QED
        BY <1>1, <1>9, <2>6, <4>1, TraverseMeans
    <3>8. Tells(y.issues, all, call.bail)
      <4>1. {Below(p, Ws[p]) : p \in Places(rule, v)} = {Below(p, Wrong[Part(rule, v, p)]) : p \in Places(rule, v)}
        BY <3>6
      <4> QED
        BY <3>7, <4>1 DEF Descends
    <3>9. ASSUME y.issues = <<>>, NEW p \in Places(rule, v) PROVE ch[p].value = Clean[Part(rule, v, p)]
      <4>1. all = {}
        BY <3>8, <3>9 DEF Tells
      <4>2. Below(p, Wrong[Part(rule, v, p)]) = {}
        BY <4>1
      <4>3. Ws[p] = {}
        BY <3>6, <4>2 DEF Below
      <4>4. ch[p].issues = <<>>
        BY <3>5, <4>3 DEF Tells
      <4> QED
        BY <3>5, <4>4
    <3> HIDE DEF all
    <3>10. ASSUME y.issues = <<>> PROVE y.value = C
      <4>1. [p \in Places(rule, v) \cup Retained(rule, v) |->
              IF p \in Places(rule, v) THEN ch[p].value ELSE v.entries[p]]
            = [p \in Places(rule, v) \cup Retained(rule, v) |->
                IF p \in Places(rule, v) THEN Clean[Part(rule, v, p)] ELSE v.entries[p]]
        BY <3>9, <3>10
      <4> QED
        BY <3>4, <3>7, <3>10, <4>1 DEF Descends
    <3> QED
      BY <3>2, <3>3, <3>8, <3>10
  <2> QED
    BY <2>4, <2>5, <2>6
<1> QED
  BY <1>7, <1>8, <1>9

\* Every call is answered rightly, by induction over the layers.
LEMMA AllRight ==
  ASSUME \A r \in Rules : Distinct(r.checks)
  PROVE  \A call \in Calls : Right(call)
<1> DEFINE m == Len(Layers)
           P == {n \in 0..m : \A c \in Calls : c.rule \in Built(n) => Right(c)}
<1>1. m \in Nat /\ Built(m) = Rules /\ Built(0) = {}
  BY BuiltIs
<1>2. 0 \in P
  BY <1>1
<1>3. ASSUME NEW n \in 1..m, n - 1 \in P PROVE n \in P
  <2>1. \A c \in Calls : c.rule \in Rules
    BY DEF Calls
  <2>2. \A c \in Calls : c.rule \in Built(n) => Right(c)
    BY <1>3, <2>1, RightInTurn
  <2> QED
    BY <1>1, <2>2
<1>4. m \in P
  <2> HIDE DEF P
  <2>1. \A n \in 0..m : n \in P
    BY <1>1, <1>2, <1>3, BoundedInduction
  <2> QED
    BY <1>1, <2>1
<1> QED
  BY <1>1, <1>4 DEF Calls
-----------------------------------------------------------------------------
(* What bail leaves, layer by layer. *)

\* With bail a call comes to the first of its issues and to the same value.
Bailed(x, y) ==
  /\ Shortened(x, y) /\ y.issues \in Seq(Issues)
  /\ y.issues # <<>> => x.value = y.value

\* Bail shortens the issues of a child as they come back, and nothing else.
LEMMA ChildBails ==
  ASSUME NEW p \in Hops, NEW x, NEW y, Shortened(x, y), y.issues \in Seq(Issues)
  PROVE  Shortened(OfChild(p, x), OfChild(p, y)) /\ OfChild(p, y).issues \in Seq(Issues)
<1>1. CASE y.issues = <<>>
  <2>1. x = y
    BY <1>1 DEF Shortened
  <2>2. OfChild(p, y) = [value |-> Single(p, y.value), issues |-> <<>>]
    BY <1>1 DEF OfChild, Succeeds, Ok
  <2> DEFINE o == OfChild(p, y)
  <2>3. o.issues = <<>> /\ <<>> \in Seq(Issues)
    BY <2>2
  <2> HIDE DEF o
  <2>4. Shortened(o, o) /\ o.issues \in Seq(Issues)
    BY <2>3, SameIsShort
  <2> QED
    BY <2>1, <2>4 DEF o
<1>2. CASE y.issues # <<>>
  <2>1. PICK s \in Seq(Issues) : s = y.issues
    OBVIOUS
  <2>2. s # <<>> /\ Len(s) \in Nat /\ Len(s) # 0 /\ DOMAIN s = 1..Len(s) /\ Head(s) = s[1] /\ s[1] \in Issues
    BY <1>2, <2>1
  <2> DEFINE h == Head(s)
             r == <<h>>
             u == Prefixed(p, s)
             o == From(p, h)
  <2>3. x.issues = r
    BY <1>2, <2>1 DEF Shortened
  <2>4. r # <<>> /\ DOMAIN r = {1} /\ r[1] = h
    OBVIOUS
  <2>5. o \in Issues /\ \A i \in 1..Len(s) : From(p, s[i]) \in Issues
    BY <2>2, FromIs
  <2>6. u = [i \in 1..Len(s) |-> From(p, s[i])]
    BY <2>2 DEF Prefixed, From
  <2>7. Prefixed(p, r) = [i \in {1} |-> o]
    BY <2>4 DEF Prefixed, From
  <2> HIDE DEF h
  <2> HIDE DEF r, u, o
  <2>8. u \in Seq(Issues) /\ u # <<>> /\ Head(u) = o
    <3>1. u \in Seq(Issues) /\ Len(u) = Len(s) /\ u[1] = From(p, s[1])
      BY <2>2, <2>5, <2>6
    <3>2. From(p, s[1]) = o
      BY <2>2 DEF o, h
    <3>3. u # <<>> /\ Head(u) = u[1]
      BY <2>2, <3>1
    <3> QED
      BY <3>1, <3>2, <3>3
  <2>9. Prefixed(p, r) = <<o>>
    <3>1. <<o>> = [i \in {1} |-> o]
      OBVIOUS
    <3> QED
      BY <2>7, <3>1
  <2>10. OfChild(p, x).issues = <<o>>
    BY <2>3, <2>4, <2>9 DEF OfChild, Succeeds, Err
  <2>11. OfChild(p, y).issues = u
    BY <1>2, <2>1 DEF OfChild, Succeeds, Err, u
  <2>12. OfChild(p, x).issues = <<Head(u)>>
    BY <2>8, <2>10
  <2>13. Shortened(OfChild(p, x), OfChild(p, y))
    BY <2>8, <2>11, <2>12, HeadIsShort
  <2> QED
    BY <2>8, <2>11, <2>13
<1> QED
  BY <1>1, <1>2

\* Bail does nothing to what a property that is not in the shape comes to.
LEMMA ExtraBails ==
  ASSUME NEW rule \in Rules, NEW v, NEW p \in Hops
  PROVE  Shortened(OfExtra(rule, v, p), OfExtra(rule, v, p)) /\ OfExtra(rule, v, p).issues \in Seq(Issues)
<1> DEFINE x == OfExtra(rule, v, p)
           i == Issue(<<p>>, "object", "extra")
<1>1. rule.extra \in {"strip", "reject", "passthrough"}
  BY RulesAre
<1>2. i \in Issues
  BY ExtraIssue
<1>3. CASE rule.extra = "reject"
  <2>1. x.issues = <<i>>
    BY <1>3 DEF OfExtra, Err
  <2> HIDE DEF x, i
  <2>2. <<i>> \in Seq(Issues) /\ <<i>> # <<>> /\ Head(<<i>>) = i
    BY <1>2
  <2>3. x.issues = <<Head(<<i>>)>>
    BY <2>1, <2>2
  <2>4. Shortened(x, x)
    BY <2>1, <2>2, <2>3, HeadIsShort
  <2> QED
    BY <2>1, <2>2, <2>4 DEF x
<1>4. CASE rule.extra # "reject"
  <2>1. x.issues = <<>> /\ <<>> \in Seq(Issues)
    BY <1>1, <1>4 DEF OfExtra, Ok
  <2> HIDE DEF x
  <2>2. Shortened(x, x)
    BY <2>1, SameIsShort
  <2> QED
    BY <2>1, <2>2 DEF x
<1> QED
  BY <1>3, <1>4

\* Bail leaves the head of what a descent finds.
LEMMA TraverseBails ==
  ASSUME NEW rule \in Rules, rule.type # "string", NEW v \in Values, v.is = rule.type,
         NEW yes, NEW no, NEW xs, NEW ys,
         \A p \in Places(rule, v) : Shortened(xs[p], ys[p]) /\ ys[p].issues \in Seq(Issues)
  PROVE  yes = TRUE /\ no = FALSE =>
           Bailed(Traverse(rule, v, yes, xs), Traverse(rule, v, no, ys))
<1> DEFINE t == Route(rule, v)
           m == Len(t)
           a == [i \in 1..m |-> PartAt(rule, v, xs, t[i])]
           b == [i \in 1..m |-> PartAt(rule, v, ys, t[i])]
           g == Gathered(a, yes)
           h == Gathered(b, no)
           x == Traverse(rule, v, yes, xs)
           y == Traverse(rule, v, no, ys)
<1>1. rule.type \in {"array", "object"}
  BY RulesAre DEF Types
<1>2. t \in Seq(Hops)
  <2>1. rule.type = "array" => v.entries \in Seq(Values)
    BY ValuesAre
  <2>2. rule.type = "object" => DOMAIN rule.shape \subseteq ToSet(Keys) /\ DOMAIN v.entries \subseteq ToSet(Keys)
    BY RulesAre, ValuesAre
  <2> QED
    BY <1>1, <2>1, <2>2, RouteElements
<1>3. m \in Nat /\ DOMAIN t = 1..m /\ \A i \in 1..m : t[i] \in Hops
  BY <1>2
<1>4. /\ x = IF Succeeds(g) THEN Ok([v EXCEPT !.entries = g.value]) ELSE Err(g.issues)
      /\ y = IF Succeeds(h) THEN Ok([v EXCEPT !.entries = h.value]) ELSE Err(h.issues)
  BY <1>3 DEF Traverse, PartAt
<1> HIDE DEF t, m, x, y
<1>5. Len(a) = m /\ Len(b) = m
  BY <1>3
<1>6. ASSUME NEW i \in 1..m PROVE Shortened(a[i], b[i]) /\ b[i].issues \in Seq(Issues)
  <2> DEFINE p == t[i]
  <2>1. a[i] = PartAt(rule, v, xs, p) /\ b[i] = PartAt(rule, v, ys, p) /\ p \in Hops
    BY <1>3
  <2> HIDE DEF p, a, b
  <2>2. CASE p \in Places(rule, v)
    <3>1. a[i] = OfChild(p, xs[p]) /\ b[i] = OfChild(p, ys[p])
      BY <2>1, <2>2 DEF PartAt
    <3>2. Shortened(xs[p], ys[p]) /\ ys[p].issues \in Seq(Issues)
      BY <2>2
    <3> QED
      BY <2>1, <3>1, <3>2, ChildBails
  <2>3. CASE p \notin Places(rule, v)
    <3>1. a[i] = OfExtra(rule, v, p) /\ b[i] = OfExtra(rule, v, p)
      BY <2>1, <2>3 DEF PartAt
    <3> QED
      BY <2>1, <3>1, ExtraBails
  <2> QED
    BY <2>2, <2>3
<1> HIDE DEF a, b
<1>7. yes = TRUE /\ no = FALSE => Shortened(g, h) /\ h.issues \in Seq(Issues)
  BY <1>3, <1>5, <1>6, GatheredBails
<1> HIDE DEF g, h
<1> SUFFICES ASSUME Shortened(g, h), h.issues \in Seq(Issues) PROVE Bailed(x, y)
  BY <1>7 DEF x, y
<1>8. CASE h.issues = <<>>
  <2>1. g = h
    BY <1>8 DEF Shortened
  <2>2. x = y /\ y = [value |-> [v EXCEPT !.entries = h.value], issues |-> <<>>]
    BY <1>4, <1>8, <2>1 DEF Succeeds, Ok
  <2>3. y.issues = <<>> /\ <<>> \in Seq(Issues)
    BY <2>2
  <2>4. Shortened(y, y)
    BY <2>3, SameIsShort
  <2> QED
    BY <2>2, <2>3, <2>4 DEF Bailed
<1>9. CASE h.issues # <<>>
  <2>1. g.issues = <<Head(h.issues)>>
    BY <1>9 DEF Shortened
  <2>2. g.issues # <<>>
    BY <2>1
  <2>3. x.issues = g.issues /\ x.value = Undefined /\ y.issues = h.issues /\ y.value = Undefined
    BY <1>4, <1>9, <2>2 DEF Succeeds, Err
  <2>4. Shortened(x, y)
    BY <1>9, <2>1, <2>3 DEF Shortened
  <2> QED
    BY <2>3, <2>4 DEF Bailed
<1> QED
  BY <1>8, <1>9

\* Two calls that differ in nothing but bail.
Pair(c, d) == c.rule = d.rule /\ c.value = d.value /\ c.bail = TRUE /\ d.bail = FALSE

\* Bail leaves the head of the issues of a call when it does of those of lower layers.
LEMMA BailsInTurn ==
  ASSUME NEW n \in 1..Len(Layers), NEW c \in Calls, NEW d \in Calls, Pair(c, d), c.rule \in Built(n),
         \A e, f \in Calls : e.rule \in Built(n - 1) /\ Pair(e, f) => Bailed(Validate[e], Validate[f])
  PROVE  Bailed(Validate[c], Validate[d])
<1> DEFINE rule == c.rule
           v == Filled(rule, c.value)
           t == ByPhase(rule.checks)
           a == ExecuteRules(v, t, c.bail, rule.type)
           b == ExecuteRules(v, t, d.bail, rule.type)
           x == Validate[c]
           y == Validate[d]
<1>1. /\ rule \in Rules /\ rule \in Built(n) /\ c.value \in Values /\ v \in Values
      /\ c.bail \in BOOLEAN /\ d.bail \in BOOLEAN
  BY FilledIs DEF Calls
<1>2. d.rule = rule /\ d.value = c.value /\ c.bail = TRUE /\ d.bail = FALSE
  BY DEF Pair
<1>3. x = Outcome(Validate, c) /\ y = Outcome(Validate, d)
  BY ValidateIs
<1>4. rule.type \in Types
  BY <1>1, RulesAre
<1>5. /\ x = IF rule.optional /\ v = Undefined THEN Ok(Undefined)
             ELSE IF v.is # rule.type THEN Err(<<Issue(<<>>, "", rule.type)>>)
             ELSE IF ~Succeeds(a) THEN Err(a.issues)
             ELSE IF rule.type = "string" THEN a
             ELSE Traverse(rule, a.value, c.bail,
                           [p \in Places(rule, a.value) |-> Validate[Inner(c, a.value, p)]])
      /\ y = IF rule.optional /\ v = Undefined THEN Ok(Undefined)
             ELSE IF v.is # rule.type THEN Err(<<Issue(<<>>, "", rule.type)>>)
             ELSE IF ~Succeeds(b) THEN Err(b.issues)
             ELSE IF rule.type = "string" THEN b
             ELSE Traverse(rule, b.value, d.bail,
                           [p \in Places(rule, b.value) |-> Validate[Inner(d, b.value, p)]])
  <2>1. d.rule = c.rule /\ d.value = c.value
    BY <1>2
  <2> QED
    BY <1>3, <2>1 DEF Outcome
<1> HIDE DEF x, y, v, t, a, b, rule
<1> SUFFICES Bailed(x, y)
  BY DEF x, y
<1>6. CASE rule.optional /\ v = Undefined
  <2>1. x = y /\ y = [value |-> Undefined, issues |-> <<>>]
    BY <1>5, <1>6 DEF Ok
  <2>2. y.issues = <<>> /\ <<>> \in Seq(Issues)
    BY <2>1
  <2>3. Shortened(y, y)
    BY <2>2, SameIsShort
  <2> QED
    BY <2>1, <2>2, <2>3 DEF Bailed
<1>7. CASE ~(rule.optional /\ v = Undefined) /\ v.is # rule.type
  <2> DEFINE i == Issue(<<>>, "", rule.type)
  <2>1. x = y /\ y = [value |-> Undefined, issues |-> <<i>>]
    BY <1>5, <1>7 DEF Err
  <2>2. i \in Issues
    BY <1>4, TypeIssue
  <2> HIDE DEF i
  <2>3. <<i>> \in Seq(Issues) /\ <<i>> # <<>> /\ Head(<<i>>) = i
    BY <2>2
  <2>4. y.issues = <<i>> /\ y.issues = <<Head(<<i>>)>>
    BY <2>1, <2>3
  <2>5. Shortened(y, y)
    BY <2>3, <2>4, HeadIsShort
  <2> QED
    BY <2>1, <2>3, <2>4, <2>5 DEF Bailed
<1>8. CASE ~(rule.optional /\ v = Undefined) /\ v.is = rule.type
  <2>1. Shortened(a, b) /\ b.issues \in Seq(Issues)
    <3>1. rule.checks \in Seq(Checks)
      BY <1>1, RulesAre
    <3>2. InPhases(t, rule.checks)
      BY <3>1, ByPhaseElements DEF t
    <3>3. t \in Seq(Checks)
      BY <3>2 DEF InPhases
    <3> HIDE DEF a, b
    <3>4. c.bail = TRUE /\ d.bail = FALSE => Shortened(a, b) /\ b.issues \in Seq(Issues)
      BY <1>4, <3>3, ExecuteBails DEF a, b
    <3> QED
      BY <1>2, <3>4
  <2>2. CASE b.issues # <<>>
    <3>1. a.issues = <<Head(b.issues)>>
      BY <2>1, <2>2 DEF Shortened
    <3>2. a.issues # <<>>
      BY <3>1
    <3>3. x = Err(a.issues) /\ y = Err(b.issues)
      BY <1>5, <1>8, <2>2, <3>2 DEF Succeeds
    <3>4. x.issues = a.issues /\ x.value = Undefined /\ y.issues = b.issues /\ y.value = Undefined
      BY <3>3 DEF Err
    <3>5. Shortened(x, y)
      BY <2>2, <3>1, <3>4 DEF Shortened
    <3> QED
      BY <2>1, <3>4, <3>5 DEF Bailed
  <2>3. CASE b.issues = <<>> /\ rule.type = "string"
    <3>1. a = b
      BY <2>1, <2>3 DEF Shortened
    <3>2. x = b /\ y = b
      BY <1>5, <1>8, <2>3, <3>1 DEF Succeeds
    <3>3. Shortened(b, b)
      BY <2>3, SameIsShort
    <3> QED
      BY <2>1, <2>3, <3>2, <3>3 DEF Bailed
  <2>4. CASE b.issues = <<>> /\ rule.type # "string"
    <3>1. a = b
      BY <2>1, <2>4 DEF Shortened
    <3>2. a.value = v
      BY <1>1, <1>8, <2>4, ChecksMean DEF a, t
    <3> DEFINE xs == [p \in Places(rule, v) |-> Validate[Inner(c, v, p)]]
               ys == [p \in Places(rule, v) |-> Validate[Inner(d, v, p)]]
    <3>3. x = Traverse(rule, v, c.bail, xs) /\ y = Traverse(rule, v, d.bail, ys)
      <4>1. /\ x = Traverse(rule, a.value, c.bail,
                            [p \in Places(rule, a.value) |-> Validate[Inner(c, a.value, p)]])
            /\ y = Traverse(rule, b.value, d.bail,
                            [p \in Places(rule, b.value) |-> Validate[Inner(d, b.value, p)]])
        BY <1>5, <1>8, <2>4, <3>1 DEF Succeeds
      <4>2. b.value = v
        BY <3>1, <3>2
      <4> QED
        BY <3>2, <4>1, <4>2
    <3>4. ASSUME NEW p \in Places(rule, v)
          PROVE  Shortened(xs[p], ys[p]) /\ ys[p].issues \in Seq(Issues)
      <4> DEFINE e == Inner(c, v, p)
                 f == Inner(d, v, p)
      <4>1. /\ ChildRule(rule, p) \in Built(n - 1) /\ ChildRule(rule, p) \in Rules
            /\ ChildValue(v, p) \in Values
        BY <1>1, <1>8, <2>4, ChildrenAre
      <4>2. /\ e = [rule |-> ChildRule(rule, p), value |-> ChildValue(v, p), bail |-> c.bail]
            /\ f = [rule |-> ChildRule(rule, p), value |-> ChildValue(v, p), bail |-> d.bail]
        BY <1>2 DEF Inner, rule
      <4>3. e \in Calls /\ f \in Calls /\ e.rule \in Built(n - 1)
        BY <1>1, <4>1, <4>2 DEF Calls
      <4>4. Pair(e, f)
        BY <1>2, <4>2 DEF Pair
      <4>5. xs[p] = Validate[e] /\ ys[p] = Validate[f]
        OBVIOUS
      <4> HIDE DEF e, f, xs, ys
      <4>6. Bailed(Validate[e], Validate[f])
        BY <4>3, <4>4
      <4> QED
        BY <4>5, <4>6 DEF Bailed
    <3> HIDE DEF xs, ys
    <3>5. c.bail = TRUE /\ d.bail = FALSE => Bailed(Traverse(rule, v, c.bail, xs), Traverse(rule, v, d.bail, ys))
      BY <1>1, <1>8, <2>4, <3>4, TraverseBails
    <3> QED
      BY <1>2, <3>3, <3>5
  <2> QED
    BY <2>2, <2>3, <2>4
<1> QED
  BY <1>6, <1>7, <1>8

\* Bail leaves the head of the issues of every call, by induction over the layers.
LEMMA AllBail ==
  \A c, d \in Calls : Pair(c, d) => Bailed(Validate[c], Validate[d])
<1> DEFINE m == Len(Layers)
           P == {n \in 0..m : \A c, d \in Calls : c.rule \in Built(n) /\ Pair(c, d) =>
                                Bailed(Validate[c], Validate[d])}
<1>1. m \in Nat /\ Built(m) = Rules /\ Built(0) = {}
  BY BuiltIs
<1>2. 0 \in P
  BY <1>1
<1>3. ASSUME NEW n \in 1..m, n - 1 \in P PROVE n \in P
  <2>1. \A c, d \in Calls : c.rule \in Built(n) /\ Pair(c, d) => Bailed(Validate[c], Validate[d])
    BY <1>3, BailsInTurn
  <2> QED
    BY <1>1, <2>1
<1>4. m \in P
  <2> HIDE DEF P
  <2>1. \A n \in 0..m : n \in P
    BY <1>1, <1>2, <1>3, BoundedInduction
  <2> QED
    BY <1>1, <2>1
<1> QED
  BY <1>1, <1>4 DEF Calls
-----------------------------------------------------------------------------
(* The call. *)

\* The call made, and what is known of a call and its answer at all times.
Made == Asked(asked, Bails(asked))

ValidationInv ==
  /\ asked \in [rule : Rules, value : Values, bail : {"unset", "yes", "no"}]
  /\ answer.given => answer = [value |-> Validate[Made].value, issues |-> Validate[Made].issues, given |-> TRUE]

\* The answer is what the call comes to (createRule), given once.
THEOREM ValidationInvariant == ValidationSpec => []ValidationInv
<1>1. ValidationInit => ValidationInv
  BY DEF ValidationInit, ValidationInv, NoAnswer
<1>2. ValidationInv /\ [Call]_validationVars => ValidationInv'
  <2> SUFFICES ASSUME ValidationInv, [Call]_validationVars PROVE ValidationInv'
    OBVIOUS
  <2>1. CASE Call
    <3>1. asked' = asked
      BY <2>1 DEF Call
    <3>2. Made' = Made
      BY <3>1 DEF Made
    <3>3. answer' = [value |-> Validate[Made].value, issues |-> Validate[Made].issues, given |-> TRUE]
      BY <2>1 DEF Call, Made
    <3> QED
      BY <3>1, <3>2, <3>3 DEF ValidationInv
  <2>2. CASE UNCHANGED validationVars
    <3>1. asked' = asked /\ answer' = answer
      BY <2>2 DEF validationVars
    <3>2. Made' = Made
      BY <3>1 DEF Made
    <3> QED
      BY <3>1, <3>2 DEF ValidationInv
  <2> QED
    BY <2>1, <2>2
<1> QED
  BY <1>1, <1>2, PTL DEF ValidationSpec

\* The call that is made of what was asked.
LEMMA MadeIs ==
  ASSUME ValidationInv
  PROVE  /\ Bails(asked) \in BOOLEAN
         /\ Made = [rule |-> asked.rule, value |-> asked.value, bail |-> Bails(asked)]
         /\ Made \in Calls
         /\ Asked(asked, FALSE) \in Calls
         /\ Bails(asked) = TRUE => Pair(Made, Asked(asked, FALSE))
         /\ Case(Made) = [rule |-> asked.rule, value |-> asked.value]
<1>1. asked.rule \in Rules /\ asked.value \in Values /\ asked.bail \in {"unset", "yes", "no"}
  BY DEF ValidationInv
<1>2. asked.rule.bail \in BOOLEAN
  <2>1. PICK n \in DOMAIN Layers : asked.rule \in Layers[n]
    BY <1>1 DEF Rules
  <2> QED
    BY <2>1, RulesAssumption
<1>3. Bails(asked) \in BOOLEAN
  BY <1>1, <1>2 DEF Bails
<1> DEFINE b == Bails(asked)
<1>4. Made = [rule |-> asked.rule, value |-> asked.value, bail |-> b]
  BY DEF Made, Asked
<1> DEFINE d == Asked(asked, FALSE)
<1>5. d.rule = asked.rule /\ d.value = asked.value /\ d.bail = FALSE
  BY DEF Asked
<1>6. Made \in Calls /\ d \in Calls
  <2>1. \A no \in BOOLEAN : [rule |-> asked.rule, value |-> asked.value, bail |-> no] \in Calls
    BY <1>1 DEF Calls
  <2>2. FALSE \in BOOLEAN
    OBVIOUS
  <2>3. d = [rule |-> asked.rule, value |-> asked.value, bail |-> FALSE]
    BY DEF Asked
  <2>4. d \in Calls
    BY <2>1, <2>2, <2>3, Zenon
  <2>5. Made \in Calls
    BY <1>3, <1>4, <2>1
  <2> QED
    BY <2>4, <2>5
<1> HIDE DEF b, d
<1>7. b = TRUE => Pair(Made, d)
  <2>1. Made.rule = asked.rule /\ Made.value = asked.value /\ Made.bail = b
    BY <1>4
  <2> QED
    BY <1>5, <2>1 DEF Pair
<1>8. Case(Made) = [rule |-> asked.rule, value |-> asked.value]
  BY <1>4 DEF Case
<1> QED
  BY <1>3, <1>4, <1>6, <1>7, <1>8 DEF b, d

\* A value is accepted exactly when nothing is wrong with it, and reported is what
\* is wrong, each once: for validators built of validators to any depth, whose
\* checks have different names (createRule, executeRules, the traversals).
THEOREM VerdictsAreRight ==
  ASSUME \A r \in Rules : Distinct(r.checks)
  PROVE  ValidationSpec => []VerdictIsRight
<1>1. ASSUME ValidationInv PROVE VerdictIsRight
  <2> SUFFICES ASSUME answer.given PROVE VerdictIsRight
    BY DEF VerdictIsRight
  <2> DEFINE c == [rule |-> asked.rule, value |-> asked.value]
             s == answer.issues
             W == Wrong[c]
             b == Bails(asked)
  <2>1. Made \in Calls /\ Case(Made) = c /\ b \in BOOLEAN
    BY <1>1, MadeIs
  <2>2. Made.bail = b
    <3>1. Made = [rule |-> asked.rule, value |-> asked.value, bail |-> b]
      BY <1>1, MadeIs
    <3> QED
      BY <3>1
  <2>3. s = Validate[Made].issues /\ answer.value = Validate[Made].value
    <3>1. answer = [value |-> Validate[Made].value, issues |-> Validate[Made].issues, given |-> TRUE]
      BY <1>1 DEF ValidationInv
    <3> QED
      BY <3>1
  <2>4. Right(Made)
    BY <2>1, AllRight
  <2>5. Tells(s, W, Made.bail) /\ (s = <<>> => answer.value = Clean[c])
    BY <2>1, <2>3, <2>4 DEF Right
  <2> HIDE DEF c
  <2> HIDE DEF s, W, b
  <2>6. /\ s \in Seq(Issues) /\ (s = <<>> <=> W = {})
        /\ \A k \in 1..Len(s) : s[k] \in W
        /\ ~b => \A w \in W : \E k \in 1..Len(s) : s[k] = w
        /\ \A k, l \in 1..Len(s) : s[k] = s[l] => k = l
    BY <2>2, <2>5 DEF Tells
  <2>7. DOMAIN s = 1..Len(s)
    BY <2>6
  <2>8. ToSet(s) \subseteq W /\ IsInjective(s)
    BY <2>6, <2>7 DEF ToSet, IsInjective
  <2>9. ~b => ToSet(s) = W
    BY <2>6, <2>7, <2>8 DEF ToSet
  <2> QED
    BY <2>5, <2>6, <2>8, <2>9 DEF VerdictIsRight, Succeeds, s, W, c, b
<1> QED
  BY <1>1, ValidationInvariant, PTL

\* bail leaves the first issue of the report, at whatever depth it was found, and
\* what is handed on (executeRules, traverseObject, traverseArray).
THEOREM BailKeepsTheHead == ValidationSpec => []BailStopsAtTheFirst
<1>1. ASSUME ValidationInv PROVE BailStopsAtTheFirst
  <2> SUFFICES ASSUME answer.given, Bails(asked) PROVE BailStopsAtTheFirst
    BY DEF BailStopsAtTheFirst
  <2> DEFINE all == Validate[Asked(asked, FALSE)]
             x == Validate[Made]
  <2>1. Bailed(x, all)
    <3>1. Bails(asked) = TRUE
      BY <1>1, MadeIs
    <3>2. Made \in Calls /\ Asked(asked, FALSE) \in Calls /\ Pair(Made, Asked(asked, FALSE))
      BY <1>1, <3>1, MadeIs
    <3> QED
      BY <3>2, AllBail
  <2>2. answer.issues = x.issues /\ answer.value = x.value
    <3>1. answer = [value |-> x.value, issues |-> x.issues, given |-> TRUE]
      BY <1>1 DEF ValidationInv
    <3> QED
      BY <3>1
  <2> HIDE DEF all, x
  <2>3. CASE all.issues = <<>>
    BY <2>1, <2>2, <2>3 DEF Bailed, Shortened, BailStopsAtTheFirst, Succeeds, all
  <2>4. CASE all.issues # <<>>
    BY <2>1, <2>2, <2>4 DEF Bailed, Shortened, BailStopsAtTheFirst, Succeeds, all
  <2> QED
    BY <2>3, <2>4
<1> QED
  BY <1>1, ValidationInvariant, PTL
=============================================================================
