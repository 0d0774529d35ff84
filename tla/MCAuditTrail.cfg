SPECIFICATION Spec
CONSTANTS
  Entries = {e1, e2, e3, e4}
  Writers = {w1, w2}
  None = None
  Window = 2
  MaxLegacy = 2
  MaxClock = 6
  Retention = TRUE
SYMMETRY Symmetry
CHECK_DEADLOCK FALSE
INVARIANTS
  LinksAreSound
PROPERTIES
  BrokenStaysBroken
