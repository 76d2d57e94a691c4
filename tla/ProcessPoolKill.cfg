SPECIFICATION Spec
CONSTANTS
  N = 2
  MaxClients = 2
  MaxDeaths = 1
INVARIANTS KillsOwn
CHECK_DEADLOCK FALSE
