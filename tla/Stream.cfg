SPECIFICATION FairSpec
CONSTANTS
  board = board
  Clients = {board}
  Kinds = {"heat", "lap", "void", "quiet"}
  RetainedWindow = 1
  MaxLog = 4
  MaxDrops = 1
INVARIANTS
  ExactCursor
  NoGap
  NoStaircase
  SchedulesHeard
PROPERTIES
  NoNeedlessSnapshot
  CatchesUp
  ImplementsFollower
CHECK_DEADLOCK FALSE
