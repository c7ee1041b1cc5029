SPECIFICATION BackgroundSpec
CONSTANTS
  chat = chat
  Roots = {chat}
  None = None
  MaxSubs = 3
  MaxDepth = 3
  MaxConcurrent = 1
  MaxChildren = 2
  Ways = {"user"}
  Faults = {"timeout"}
  Commands = {1, 2}
  MaxStops = 1
  ModelIds <- SomeIds
  KnownModels <- Known
  Recommended <- Gpt
  MaxListed = 3
  ReplyTexts <- DeliveredTexts
  ChunkLimit = 9
  MessageLimit = 15
  MaxFailures = 1
INVARIANTS ChildrenBounded StoppedStaysStopped ActiveRowsHaveTasks JobsInv MenuInv ReplyInv
PROPERTY BackgroundEnds
CHECK_DEADLOCK FALSE
