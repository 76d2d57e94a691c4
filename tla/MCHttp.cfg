SPECIFICATION MCSpec
CONSTANTS
  w1 = w1
  w2 = w2
  Fds <- MCFds
  Workers <- MCWorkers
  MAX_FD = 2
  MAX_REQUESTS = 1
  READ_BUFFER_SIZE = 3
  MaxClients = 3
  MaxPieces = 2
  Texts <- MCTexts
  BUFFER_SIZE = 12
INVARIANTS OneHand CountIsOpen CutsDoNotMatter
PROPERTIES EachIsHeard
CHECK_DEADLOCK FALSE
