CONSTANTS
  early = early
  late = late
  apart = apart
  k1 = k1
  k2 = k2
  Plugins <- ThreePlugins
  Order <- PreAndPost
  Alone <- OnlyApart
  Startups <- ThreeOrTwo
  Newcomers <- OnlyEarly
  Precious <- OnlyLate
  Freezable <- OnlyTheFork
  MaxRunners = 3
  Calls = {k1}
  MaxScopes = 2
  Kinds <- FourKinds
  Outcomes <- Telling
  Faults = {"factory", "reducer"}
SPECIFICATION Spec
INVARIANTS
  MemoIsCurrent
  Released
  AnswersAreEarned
PROPERTY
  ScopeKeepsItsSnapshot
CHECK_DEADLOCK FALSE
