SPECIFICATION Spec
CONSTANTS
  s1 = s1
  s2 = s2
  Cases = {c1, c2}
  Handlers = {h1, h2}
  Stations = {s1, s2}
  Lettered = {s1}
  None = None
  Forms <- SomeForms
  Asked = {"FIR_Registered", "Closed_No_FIR", "Under_Investigation", "Transferred"}
  CctnsUrl = TRUE
  SyncTries = 2
  MaxSeq = 2
  MaxRequests = 5
  MaxAborts = 1
SYMMETRY Symmetry
CHECK_DEADLOCK FALSE
INVARIANTS
  FirHasNumber
  CctnsAgrees
  UniqueUnlessShaken
PROPERTIES
  FreshMovesFollowTable
