SPECIFICATION Spec
CONSTANTS
  r1 = r1
  r2 = r2
  NoRow = NoRow
  Records <- MCRecords
  Stored <- MCStored
  b1 = b1
  b2 = b2
  Users = {u1}
  Batches = {b1, b2}
  Questions <- MCQuestions
  Ask <- MCAsk
  Verdict <- MCVerdict
  Edited <- MCEdited
  Versions = {2}
  MaxEdits = 1
  MaxFaults = 1
INVARIANTS FilesAreReadable NoForgottenFile ColumnsFollowTheParse AnswersAreTrue GapsAreAsked
VIEW View
SYMMETRY Symmetry
CHECK_DEADLOCK FALSE
