SPECIFICATION Spec
CONSTANTS
  rec = rec
  doc = doc
  theft = theft
  Theft = Theft
  Records = {rec}
  Documents = {doc}
  Claims = {theft, Theft}
  NodeOf <- NodeOfClaim
  Extracted <- ExtractedFrom
  LinksTo <- LinksFrom
  Clients = {c1, c2}
  None = None
  AutoPublish = TRUE
  MaxSnapshots = 2
  MaxEvents = 2
SYMMETRY ClientSymmetry
CHECK_DEADLOCK FALSE
INVARIANTS
  RowsAgree
  IndexedIsComplete
  PassingWikiIsClosed
