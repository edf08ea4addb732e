CONSTANTS
  n1 = n1
  n2 = n2
  n3 = n3
  Nodes <- ThreeNodes
  Root = n1
  Heaps <- SomeHeaps
SPECIFICATION CloneSpec
INVARIANTS
  CopyIsWhole
  NoCircleIsCopied
  RefusedForCause
CHECK_DEADLOCK FALSE
