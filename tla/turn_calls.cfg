SPECIFICATION CallsSpec
CONSTANTS
  MaxTurns = 2
  MaxCalls = 2
  Window = 5
  Keep <- KeepFew
  Modes = {"auto", "manual", "policy"}
  PolicyAsks = TRUE
  Kinds = {"send", "privileged"}
  LongTexts = {FALSE}
  Faults = {"chat", "stream"}
  MaxBatch = 2
  MaxIds = 3
  Skills = {s1}
  Plugins = {p1}
  Editors = {e1}
  Cli = cli
  MaxOps = 3
  MaxLoads = 2
INVARIANTS TurnInv GatedCallsRunApproved OnlyOnce QuestionKept ExtInv
