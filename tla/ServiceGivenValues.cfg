CONSTANTS
  scope1 = scope1
  name1 = name1
  name2 = name2
  Root = Root
  NoOne = NoOne
  Containers <- OneScope
  Names <- TwoNames
  MaxRegistrations = 3
  MaxInstances = 3
SYMMETRY Interchangeable
SPECIFICATION Spec
INVARIANTS
  GivenValuesEndFirst
CHECK_DEADLOCK FALSE
