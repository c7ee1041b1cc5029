SPECIFICATION FairSpec
CONSTANTS
  j1 = j1
  j2 = j2
  u1 = u1
  Jobs = {j1, j2}
  None = None
  Users = {u1}
  Due <- TwoJobs
  Period = 2
  Margin = 1
  Permits = 1
  MaxTime = 4
  MaxRuns = 2
  MaxOps = 2
  MaxRestarts = 1
  Kinds = {"create", "disable", "delete", "enable"}
  Faults = {"db", "timeout"}
INVARIANTS FiringInv OffStaysOff
PROPERTY TickEnds
CHECK_DEADLOCK FALSE
