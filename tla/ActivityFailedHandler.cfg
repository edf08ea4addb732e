CONSTANTS
  a1 = a1
  a2 = a2
  a3 = a3
  u1 = u1
  u2 = u2
  App = App
  Activities <- TwoActivities
  Users <- OneUser
  Places <- AnyPlace
  Faults <- AllFaults
SPECIFICATION Spec
INVARIANTS
  FailedHandlerEndsActivity
CHECK_DEADLOCK FALSE
