SPECIFICATION Spec
CONSTANTS
  Conns = {c1, c2}
  NULL = NULL
  NFD = 5
  MAX_EVENT_NUMBER = 3
INVARIANT BoundIsFound
