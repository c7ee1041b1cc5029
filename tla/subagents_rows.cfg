SPECIFICATION Spec
CONSTANTS
  chat = chat
  Roots = {chat}
  None = None
  MaxSubs = 2
  MaxDepth = 3
  MaxConcurrent = 1
  MaxChildren = 3
  Ways = {"user", "tool"}
  Faults = {"db", "timeout", "restart", "stray", "early stop"}
INVARIANTS TypeOK TasksWithinReach NoticeTrue
PROPERTY FinishedRowsFinal
CHECK_DEADLOCK FALSE
