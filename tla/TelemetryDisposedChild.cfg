CONSTANTS
  c1 = c1
  c2 = c2
  c3 = c3
  name = name
  NoOne = NoOne
  Clients <- ThreeClients
  Names <- OneName
  MaxEntries = 2
  MaxHandles = 1
  MaxMarks = 1
  MaxFrozen = 1
  MaxUses = 4
  MaxFlushes = 2
  Faults = {}
SYMMETRY Alike
SPECIFICATION Spec
INVARIANT
  DisposedTakesNoChild
CHECK_DEADLOCK FALSE
