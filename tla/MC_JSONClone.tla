---------------------------- MODULE MC_JSONClone ----------------------------
(* Instances of JSONClone for TLC. *)
EXTENDS JSONClone

CONSTANTS n1, n2, n3

ThreeNodes == {n1, n2, n3}

Held1 == {Scalar, n1, n2, n3}
Small(values) == {<<>>} \cup {<<v>> : v \in values} \cup {<<v, w>> : v, w \in values}

\* Every graph of three containers with up to two entries each, some of them
\* not readable or with something that is not JSON.
SomeContainers ==
  {[ordinary |-> TRUE, entries |-> es] : es \in Small(Held1) \cup {<<n3, Junk>>, <<n2, Accessor>>}}
  \cup {[ordinary |-> FALSE, entries |-> <<Scalar>>]}

SomeHeaps == [ThreeNodes -> SomeContainers]
=============================================================================
