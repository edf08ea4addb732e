CONSTANTS
  key1 = key1
  key2 = key2
  Keys <- TwoKeys
  Layers <- SomeLayers
  Values <- SomeValues
SPECIFICATION ValidationSpec
INVARIANTS
  VerdictIsRight
  BailStopsAtTheFirst
CHECK_DEADLOCK FALSE
