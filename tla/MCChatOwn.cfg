SPECIFICATION Spec
CONSTANTS
  Fds = {"fd5", "fd6", "fd7"}
  MAX_CLIENT_NUM = 3
  MaxCame = 3
  MaxTexts = 2
INVARIANT SentToOthers
CHECK_DEADLOCK FALSE
