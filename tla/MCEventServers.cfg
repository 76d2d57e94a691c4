SPECIFICATION MCSpec
CONSTANTS
  NFds = 2
  Timers = {t1, t2}
  NULL = NULL
  TIMESLOT = 1
  MaxData = 2
  SelectFds = {4, 5, 6}
  FD_SETSIZE = 2
  Signums = {"chld", "term"}
  Stopping = {"term"}
  Room = 2
  ToRead = 2
  MaxRaised = 4
  MaxCame = 2
  Threads = {"t1", "t2"}
  EpollFds = {"fd5", "fd6"}
  MaxEpollCame = 2
  MaxTexts = 2
INVARIANTS OneTimerEach NoStaleEvent NobodyLeftBehind
PROPERTIES OnlyIdleAreClosed AbandonedAreClosed EachIsServed
CHECK_DEADLOCK FALSE
