CONSTANTS
  r1 = r1
  r2 = r2
  reader1 = reader1
  reader2 = reader2
  reader3 = reader3
  Responses <- TwoResponses
  Readers <- ThreeReaders
  MaxResponses = 3
  MaxReads = 5
SPECIFICATION ResponderSpec
INVARIANTS
  InOrderExactlyOnce
  NobodyStranded
PROPERTIES
  ImplementsStream
CHECK_DEADLOCK FALSE
