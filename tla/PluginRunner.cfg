CONSTANTS
  Modes <- ThreeModes
  Length = 2
  Keys <- OneKey
  Ttls <- ForeverOrOne
  MaxTime = 1
  MaxRoots = 2
  MaxFrames = 4
SPECIFICATION Spec
INVARIANTS
  HitsAreFresh
  LastAnswerIsKept
  ValuesComeFromBelow
  RestRunsOnce
PROPERTIES
  EveryFrameSettles
CHECK_DEADLOCK FALSE
