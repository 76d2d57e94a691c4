SPECIFICATION MCSpec
CONSTANTS
  Pids = {1, 2}
  USER_LIMIT = 2
  MaxTexts = 1
  Fds = {fd5, fd6, fd7}
  MAX_CLIENT_NUM = 3
  MaxChatCame = 4
  MaxChatTexts = 2
  PipeRoom = 1
  MaxTyped = 2
  MaxClientTexts = 2
INVARIANTS TableTrue NothingGoesAstray
SYMMETRY Symmetry
CHECK_DEADLOCK FALSE
