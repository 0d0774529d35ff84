SPECIFICATION Spec
CONSTANTS
  Records = {1}
  Workers = {w1, w2}
  Handlers = {h1}
  None = None
  Modes = {"off", "inline", "background"}
  AdminOps = {"reindex", "requeue", "reparse", "delete"}
  MaxAttempts = 2
  LockTicks = 1
  BaseDelay = 1
  MaxDelay = 2
  KisMayFail = TRUE
  AttemptCap = 3
  MaxContent = 2
  ArticleCap = 1
  MaxFaults = 1
SYMMETRY Symmetry
CHECK_DEADLOCK FALSE
INVARIANTS
  RowConsistent
  ValidClaimOwnsRow
  IndexedHasKnowledge
  RunningIsAttended
PROPERTIES
  ImplementsExclusiveJobs
