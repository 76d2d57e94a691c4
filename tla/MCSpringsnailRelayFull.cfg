SPECIFICATION MCSpec
CONSTANTS
  BUF_SIZE = 2
  SOCK = 2
  BYTES <- MCBytes
  TALKS <- MCAtOnce
  Conns = {c1, c2}
  NULL = NULL
  NFD = 5
  MAX_EVENT_NUMBER = 3
  N = 2
  ConnsPerChild = 1
  MaxClients = 2
  MaxCrashes = 1
  MaxStale = 1
PROPERTY FullBufferIsWritten
CHECK_DEADLOCK FALSE
