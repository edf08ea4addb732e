CONSTANTS
  early = early
  late = late
  apart = apart
  k1 = k1
  k2 = k2
  Plugins <- ThreePlugins
  Order <- PreAndPost
  Alone <- OnlyApart
  Startups <- ThreeOrTwo
  Newcomers <- OnlyEarly
  Precious <- OnlyLate
  Freezable <- OnlyTheFork
  MaxRunners = 3
  Calls = {k1}
  MaxScopes = 2
  Kinds <- FourKinds
  Outcomes <- Telling
  Faults = {"listener"}
SPECIFICATION Spec
INVARIANT
  Released
CHECK_DEADLOCK FALSE
