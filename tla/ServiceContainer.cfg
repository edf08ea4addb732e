CONSTANTS
  scope1 = scope1
  name1 = name1
  name2 = name2
  Root = Root
  NoOne = NoOne
  Containers <- OneScope
  Names <- TwoNames
  MaxRegistrations = 3
  MaxInstances = 3
SYMMETRY Interchangeable
SPECIFICATION Spec
INVARIANTS
  OneValuePerScope
  CacheIsCurrent
  DependentsEndFirst
  DisposalIsComplete
  NothingEndedIsServed
CHECK_DEADLOCK FALSE
