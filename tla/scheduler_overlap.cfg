SPECIFICATION Spec
CONSTANTS
  j1 = j1
  j2 = j2
  u1 = u1
  Jobs = {j1}
  None = None
  Users = {u1}
  Due <- EveryTick
  Period = 2
  Margin = 1
  Permits = 1
  MaxTime = 5
  MaxRuns = 2
  MaxOps = 1
  MaxRestarts = 0
  Kinds = {"create"}
  Faults = {}
INVARIANT ConcurrentJobsBounded
CHECK_DEADLOCK FALSE
