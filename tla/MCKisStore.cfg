SPECIFICATION StoreSpec
CONSTANTS
  Requests = {q1, q2, q3, q4}
  RequireDatabase = FALSE
  MaxStarts = 2
SYMMETRY Symmetry
CHECK_DEADLOCK FALSE
INVARIANTS
  SavedIsClosed
  QuietlySavedStays
PROPERTIES
  KeepsACopy
