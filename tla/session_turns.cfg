SPECIFICATION WorkspaceSpec
CONSTANTS
  c1 = c1
  c2 = c2
  m1 = m1
  m2 = m2
  Chats = {c1}
  Models = {m1, m2}
  DefaultModel = m1
  None = None
  MaxTurns = 3
  DefaultAuto = FALSE
  UserDoes <- NoSpawn
  Faults = {"typing", "db", "restart"}
  Held = 1
  PatientUser = TRUE
  b1 = b1
  b2 = b2
  BootChats = {b1, b2}
  MaxMessages = 3
  MaxFaults = 1
  MaxLines = 1
  k1 = k1
  k2 = k2
  MemoryChats = {k1, k2}
  MemoryUsers = {"u1"}
  Words = {0, 3}
  Secrets = {3}
  Similar <- Similarity
  Threshold = 1
  TopK = 3
  MaxStored = 4
  MaxItem = 2
  MaxTotal = 5
  Indexes <- IndexFiles
  Earlier <- EarlierTurns
  MaxPerFile = 4
  MaxAllFiles = 6
  ItemFloor = 2
  MaxMemories = 2
  FileCalls = {1, 2}
  FirstTrees <- Trees
  MaxHits = 1
  Updates = {1, 2}
  MaxVersion = 3
  MaxCommands = 4
  MaxChanges = 5
INVARIANTS TurnsAreSeen ModelSticks ApprovalsSettleOnce BootInv MemoryInv FilesInv InstallInv
PROPERTY HandlerReturns
