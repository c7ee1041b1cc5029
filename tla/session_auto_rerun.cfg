SPECIFICATION Spec
CONSTANTS
  c1 = c1
  c2 = c2
  m1 = m1
  m2 = m2
  Chats = {c1, c2}
  Models = {m1}
  DefaultModel = m1
  None = None
  MaxTurns = 2
  DefaultAuto = FALSE
  UserDoes <- TextAndMode
  Faults = {}
  Held = 1
  PatientUser = FALSE
INVARIANTS ApprovalsSettleOnce
