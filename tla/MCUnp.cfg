SPECIFICATION MCSpec
CONSTANTS
  t1 = t1
  t2 = t2
  c1 = c1
  c2 = c2
  c3 = c3
  c4 = c4
  none = none
  Threads <- MCThreads
  Conns <- MCConns
  AcceptErrors <- MCErrors
  MAXNCLI = 3
  NoConn = none
  Clients = {"c1", "c2"}
  MAXLINE = 2
  Room = 2
  MaxTyped = 6
INVARIANTS OneOwner NoStrandedWork NothingKept
PROPERTIES ImplementsHandoff WorkIsTaken EachIsAnswered
CHECK_DEADLOCK FALSE
