SPECIFICATION CallsSpec
CONSTANTS
  h1 = h1
  h2 = h2
  t1 = t1
  n1 = n1
  n2 = n2
  Handlers = {h1}
  Tasks = {t1}
  Inner = {n1, n2}
  None = None
  Sources <- AllSources
  Permits = 2
  Tools = {"shell", "bash", "run_now"}
  Endless = {"shell"}
  MaxBegun = 7
  TokenCalls = {1, 2}
  Logins = {1, 2}
  Life = 3
  Guess = 2
  Margin = 1
  Expires = 1
  Interval = 1
  SlowDown = 1
  MaxRejections = 1
  Bodies <- StreamBodies
  Replies <- WholeReplies
INVARIANTS CallsInv InnerTurnsAwaited AuditComplete TokenInv StreamInv
PROPERTY WaitsEnd
CHECK_DEADLOCK FALSE
