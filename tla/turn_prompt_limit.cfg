SPECIFICATION FairSpec
CONSTANTS
  MaxTurns = 1
  MaxCalls = 1
  Window = 4
  Keep <- KeepFew
  Modes = {"auto"}
  PolicyAsks = TRUE
  Kinds = {"safe"}
  LongTexts = {FALSE, TRUE}
  Faults = {"limit"}
  MaxBatch = 1
  MaxIds = 1
PROPERTY TurnEnds
