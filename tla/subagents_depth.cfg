SPECIFICATION Spec
CONSTANTS
  chat = chat
  Roots = {chat}
  None = None
  MaxSubs = 3
  MaxDepth = 2
  MaxConcurrent = 3
  MaxChildren = 3
  Ways = {"tool"}
  Faults = {}
INVARIANT DepthBounded
CHECK_DEADLOCK FALSE
