SPECIFICATION Spec
CONSTANTS
  scan = scan
  copyOfScan = copyOfScan
  Names = {scan, copyOfScan}
  SafeName <- LastComponent
  Contents = {text, pages}
  Requests = {r1, r2}
  MaxFiles = 2
  MaxRequests = 3
  MaxDocuments = 4
SYMMETRY Symmetry
CHECK_DEADLOCK FALSE
INVARIANTS
  VersionsAreInOrder
  ReadableUnlessPurged
