SPECIFICATION FairSpec
CONSTANTS
  Records = {1}
  Workers = {w1,w2}
  Handlers = {h1}
  None = None
  Modes = {"background"}
  AdminOps = {}
  MaxAttempts = 3
  LockTicks = 2
  BaseDelay = 1
  MaxDelay = 2
  KisMayFail = TRUE
  AttemptCap = 4
  MaxContent = 1
  ArticleCap = 4
  MaxFaults = 3
CHECK_DEADLOCK FALSE
INVARIANTS
  AttemptsAreCounted
PROPERTIES
  PendingSettles
