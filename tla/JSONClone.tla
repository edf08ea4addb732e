------------------------------ MODULE JSONClone ------------------------------
(***************************************************************************)
(* How SerializedErrorParser copies the metadata of an untrusted error:    *)
(* the loop of cloneJSONValue(), a depth-first walk with a stack of its    *)
(* own.  Containers that are met twice are copied once and shared, and a   *)
(* container that is met inside itself is refused.  A copy is called by    *)
(* the name of its source: there is one copy for each.                     *)
(***************************************************************************)
EXTENDS Naturals, Sequences, FiniteSets, SequencesExt

CONSTANTS
  Nodes,     \* the objects and arrays of the input
  Root,      \* the metadata record
  Heaps      \* the inputs: what each container holds, in order

Scalar == "scalar"       \* a string, a boolean, null or a finite number
Junk == "junk"           \* undefined, a function, a symbol, NaN
Accessor == "accessor"   \* a property that is not data, or a hole

\* A container is ordinary, or it has a prototype of its own.
Containers == [ordinary : BOOLEAN, entries : Seq(Nodes \cup {Scalar, Junk, Accessor})]

ASSUME CloneAssumption ==
  /\ Root \in Nodes /\ IsFiniteSet(Nodes)
  /\ Nodes \cap {Scalar, Junk, Accessor} = {}
  /\ Heaps \subseteq [Nodes -> Containers]

VARIABLES
  heap,      \* the input
  frames,    \* the stack: a container, and how many of its entries are done
  active,    \* the containers on the way from the root
  clones,    \* the containers that have a copy
  copy,      \* copy[n]: the entries of the copy of n
  ended,     \* the containers that were left, in that order
  outcome    \* "running", "copied" or "refused"

cloneVars == <<heap, frames, active, clones, copy, ended, outcome>>

Entries(n) == heap[n].entries

-----------------------------------------------------------------------------
Top == frames[Len(frames)]

\* The entry that the loop looks at.
Entry == Entries(Top.node)[Top.done + 1]

\* createCloneFrame(): all entries are read before the first is copied.
Readable(n) == heap[n].ordinary /\ \A i \in DOMAIN Entries(n) : Entries(n)[i] # Accessor

Advanced == [frames EXCEPT ![Len(frames)].done = @ + 1]

\* Mutant: what is there already is left out.
DefineFresh(value) ==
  IF value \in clones THEN copy ELSE [copy EXCEPT ![Top.node] = Append(@, value)]

\* defineCloneValue() on the copy of the container at the top.
Define(value) == [copy EXCEPT ![Top.node] = Append(@, value)]

Looking ==
  /\ outcome = "running"
  /\ frames # <<>>
  /\ Top.done < Len(Entries(Top.node))

\* The root must be a record that can be read.
Begin ==
  /\ outcome = "ready"
  /\ IF Readable(Root)
     THEN /\ frames' = <<[node |-> Root, done |-> 0]>>
          /\ active' = {Root} /\ clones' = {Root}
          /\ outcome' = "running"
     ELSE /\ outcome' = "refused"
          /\ UNCHANGED <<frames, active, clones>>
  /\ UNCHANGED <<heap, copy, ended>>

\* Mutant: a container that was left still counts as active.
LeftActive(n) == active

Left(n) == active \ {n}

\* A container is done: back to the one that holds it.
Leave ==
  /\ outcome = "running"
  /\ frames # <<>>
  /\ Top.done = Len(Entries(Top.node))
  /\ active' = Left(Top.node)
  /\ ended' = Append(ended, Top.node)
  /\ frames' = Front(frames)
  /\ outcome' = IF Len(frames) = 1 THEN "copied" ELSE "running"
  /\ UNCHANGED <<heap, clones, copy>>

CopyScalar ==
  /\ Looking
  /\ Entry = Scalar
  /\ frames' = Advanced
  /\ copy' = Define(Scalar)
  /\ UNCHANGED <<heap, active, clones, ended, outcome>>

\* Mutant: only the container itself counts as a circle.
CircleOfOne(n) == n = Top.node

Circle(n) == n \in active

\* What is not JSON, what holds itself, and what cannot be read.
Refuse ==
  /\ Looking
  /\ \/ Entry = Junk
     \/ Entry \in Nodes /\ Circle(Entry)
     \/ Entry \in Nodes \ clones /\ ~Readable(Entry)
  /\ outcome' = "refused"
  /\ frames' = Advanced
  /\ UNCHANGED <<heap, active, clones, copy, ended>>

\* The copy there is already.
Share ==
  /\ Looking
  /\ Entry \in clones /\ ~Circle(Entry)
  /\ frames' = Advanced
  /\ copy' = Define(Entry)
  /\ UNCHANGED <<heap, active, clones, ended, outcome>>

\* A copy to be filled.
Descend ==
  /\ Looking
  /\ Entry \in Nodes \ clones /\ Readable(Entry)
  /\ frames' = Append(Advanced, [node |-> Entry, done |-> 0])
  /\ active' = active \cup {Entry}
  /\ clones' = clones \cup {Entry}
  /\ copy' = Define(Entry)
  /\ UNCHANGED <<heap, ended, outcome>>
-----------------------------------------------------------------------------
CloneInit ==
  /\ heap \in Heaps
  /\ frames = <<>> /\ ended = <<>>
  /\ active = {} /\ clones = {}
  /\ copy = [n \in Nodes |-> <<>>]
  /\ outcome = "ready"

CloneNext == Begin \/ Leave \/ CopyScalar \/ Refuse \/ Share \/ Descend

CloneSpec == CloneInit /\ [][CloneNext]_cloneVars

-----------------------------------------------------------------------------
(* Properties *)

\* Every variable keeps to its kind.
CloneTypeOK ==
  /\ heap \in Heaps
  /\ frames \in Seq([node : Nodes, done : Nat])
  /\ active \in SUBSET Nodes /\ clones \in SUBSET Nodes
  /\ copy \in [Nodes -> Seq(Nodes \cup {Scalar})]
  /\ ended \in Seq(Nodes)
  /\ outcome \in {"ready", "running", "copied", "refused"}

Held(n) == {Entries(n)[i] : i \in DOMAIN Entries(n)} \cap Nodes

\* What can be reached from the containers `from`, by the input alone.
Reached(from) ==
  LET reach[k \in 0..Cardinality(Nodes)] ==
        IF k = 0 THEN from ELSE reach[k - 1] \cup UNION {Held(n) : n \in reach[k - 1]}
  IN reach[Cardinality(Nodes)]

\* Metadata is "rebuilt into fresh structures": every container that is copied
\* is copied entry by entry, and whatever the copies hold is a copy again.
CopyIsWhole ==
  outcome = "copied" =>
    /\ Root \in clones
    /\ \A n \in clones : copy[n] = Entries(n) /\ Held(n) \subseteq clones

\* Nothing that holds itself, through whatever else, is accepted: each copy
\* was left after all that it holds.
NoCircleIsCopied ==
  outcome = "copied" =>
    /\ \A n \in clones : \E i \in DOMAIN ended : ended[i] = n
    /\ \A i \in DOMAIN ended : \A m \in Held(ended[i]) : \E j \in 1..(i - 1) : ended[j] = m

\* A refusal has a cause in what the root reaches: a circle, something that is
\* not JSON or cannot be read; to be met twice is no cause.
RefusedForCause ==
  outcome = "refused" =>
    \E n \in Reached({Root}) :
      ~Readable(n) \/ Contains(Entries(n), Junk) \/ n \in Reached(Held(n))
=============================================================================
