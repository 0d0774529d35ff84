SPECIFICATION MCSpec
CONSTANTS
  w1 = w1
  w2 = w2
  r1 = r1
  NoValue = NoValue
  None = NoValue
  Zone <- MCZone
  IdRank <- MCIdRank
  Exports = {1, 2}
  Snapshots = {1}
  Workers = {w1, w2}
  Sessions = {r1}
  Officers <- MCOfficers
  Requested <- MCRequested
  Datasets <- MCDatasets
  MaxJobs <- MCMaxJobs
  MaxFaults = 1
INVARIANTS
  FileIffCompleted
  ContentInScope
  ReportsAddUp
PROPERTIES
  ImplementsExclusiveJobs
  QueuesDrain
CHECK_DEADLOCK FALSE
