SPECIFICATION FairSpec
CONSTANTS
  MaxTurns = 1
  MaxCalls = 2
  Window = 3
  Keep <- KeepFew
  Modes = {"policy", "subagent"}
  PolicyAsks = TRUE
  Kinds = {"safe", "privileged"}
  LongTexts = {FALSE}
  Faults = {"chat", "limit", "stream", "tool"}
  MaxBatch = 2
  MaxIds = 3
PROPERTIES OutcomeSpec TurnEnds
