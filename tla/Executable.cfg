CONSTANTS
  c1 = c1
  c2 = c2
  c3 = c3
  Callers <- ThreeCallers
  Faults <- AllFaults
SPECIFICATION Spec
INVARIANTS
  OneWorker
  NothingRunsOnReleased
PROPERTIES
  AnswersAreHonest
  EveryCallIsAnswered
  ImplementsContract
