SPECIFICATION MCSpec
CONSTANTS
  Timers = {t1, t2}
  ListTimers = {l1, l2, l3, l4}
  HeapTimers = {h1, h2, h3, h4, h5}
  NULL = NULL
  NotSet = NotSet
  N = 3
  TI = 2
  MaxTimeout = 14
  MaxTicks = 9
  ListMaxTime = 3
  HeapMaxTime = 2
  MaxDelay = 2
  Cap = 4
SYMMETRY Symmetry
INVARIANTS OnTime Structures
PROPERTIES ImplementsAlarms OthersImplementAlarms
CHECK_DEADLOCK FALSE
