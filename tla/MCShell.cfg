SPECIFICATION Spec
CONSTANTS
  LINES = 2
  COLUMNS_IN_LINE = 3
  NL = "n"
  LSH_RL_BUFSIZE = 2
  LSH_TOK_BUFSIZE = 1
  MaxLine = 3
  MaxLoc = 10
  MaxVisits = 1
  MaxUserBlocks = 1
  MaxDropped = 1
INVARIANTS TypeOK RoomForNext EchoShowsLine TokensAreWords PromptHeap
PROPERTY LineIsRun
CHECK_DEADLOCK FALSE
