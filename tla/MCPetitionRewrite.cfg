SPECIFICATION Spec
SYMMETRY Symmetry
CONSTANTS
  s1 = s1
  s2 = s2
  Sessions = {s1, s2}
  Requests <- MCRequests
  Worked <- MCWorked
  Evaluated <- MCEvaluated
  NoOne = NoOne
  None = NoOne
  CategoryFor <- MCCategoryFor
  SlugOf <- MCSlugOf
  CategoryOrder <- MCCategoryOrder
  CompoundCategories <- MCCompound
  BracketedLabels <- MCBracketed
  ParsedOutputs <- MCParsedOutputs
  Questions <- MCQuestions
  MaxDrafts = 3
  MaxBatches = 2
VIEW View
CONSTRAINT Undisturbed
INVARIANTS
  LineageIsSound
  OnlyApprovedIsReleased
  RowsStayUnique
PROPERTIES
  EveryGapHasOnePlaceholder
  AcceptedIsFinal
CHECK_DEADLOCK FALSE
