SPECIFICATION MCSpec
CONSTANTS
  N = 3
  MaxCame = 2
  MaxFailed = 1
  MaxKilled = 1
  PoolN = 2
  MaxClients = 2
  MaxDeaths = 1
INVARIANTS OneAccepter
PROPERTIES IsAccepted SignalEnds ArrivalServed OrphansEnd
CHECK_DEADLOCK FALSE
