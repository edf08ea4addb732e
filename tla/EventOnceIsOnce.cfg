CONSTANTS
  e1 = e1
  e2 = e2
  l1 = l1
  l2 = l2
  noted = noted
  glob = glob
  NoOne = NoOne
  Emitters <- TwoEmitters
  Listeners <- OneListener
  Types <- OneType
  Patterns <- TwoPatterns
  Covers <- BothCover
  MaxOrder = 2
  MaxEvents = 2
SYMMETRY Alike
SPECIFICATION Spec
INVARIANT
  OnceIsOnce
CHECK_DEADLOCK FALSE
