CONSTANTS
  a1 = a1
  a2 = a2
  a3 = a3
  u1 = u1
  u2 = u2
  App = App
  Activities <- ThreeActivities
  Users <- OneUser
  Places <- FamilyPlaces
  Faults <- SomeFaults
SPECIFICATION Spec
INVARIANTS
  RootsAreListed
  NoOrphans
CHECK_DEADLOCK FALSE
