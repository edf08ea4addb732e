CONSTANTS
  c1 = c1
  c2 = c2
  c3 = c3
  Callers <- TwoCallers
  Faults <- AllFaults
SPECIFICATION Spec
PROPERTIES
  ErrorIsFinal
