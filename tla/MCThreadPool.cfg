SPECIFICATION FairSpec
CONSTANTS
  w1 = w1
  w2 = w2
  loop = loop
  r1 = r1
  r2 = r2
  NULL = NULL
  Workers <- MCWorkers
  Producers <- MCProducers
  Requests <- MCRequests
  MAX_REQUESTS = 1
  MaxAppends = 5
  MaxInterrupts = 1
INVARIANTS NoStrandedRequest
PROPERTIES ImplementsHandoff RequestIsTaken
CHECK_DEADLOCK FALSE
