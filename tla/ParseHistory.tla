---------------------------- MODULE ParseHistory ----------------------------
(***************************************************************************)
(* The history of parsed documents: rows of parse_records and the files    *)
(* they name in object storage.  Uploads save a row after its file and     *)
(* tell the client how it went; users delete one record or clear them all; *)
(* administrators run batches over rows they have read before, and edit    *)
(* the checklist every parse is judged by.                                 *)
(*                                                                         *)
(* A database transaction, a call to the object store and an answer to the *)
(* client are steps of their own.  A parse is known by where it comes      *)
(* from: the upload or a later re-parse of the file.  The queue columns of *)
(* the rows are in KisQueue, the document in its case in CaseDocuments,    *)
(* parsing itself in ComplaintParsing.                                     *)
(***************************************************************************)
EXTENDS ChecklistAnalysis

CONSTANTS
  Records,    \* one parse record each upload would save
  Stored,     \* records of earlier days, saved by a parser that did not rank sections
  Users,      \* users' requests that delete
  Batches,    \* administrators' batch requests
  Edited,     \* questions an administrator adds or edits
  NoRow,      \* no such row
  MaxEdits,   \* bound: edits of the checklist
  MaxFaults   \* bound: failures of storage, database, client or server

\* What a parse says, whether its BNS sections are ranked, and its analysis.
Output == [from : {"upload", "reparse"}, ranked : BOOLEAN, analysis : Analyses]

Parse(from, ranked) == [from |-> from, ranked |-> ranked, analysis |-> NoAnalysis]

NoOutput == Parse("none", FALSE)

\* The columns a row of parse_records has for its readers.
Row == [output : Output, score : {"upload", "reparse"}, format : {"upload", "reparse"},
        linked : BOOLEAN]

ASSUME StoredAssumption == Stored \subseteq Records
ASSUME VerdictAssumption == DOMAIN Verdict = {"upload", "reparse"}
ASSUME NoRowAssumption == NoRow \notin Records \cup Row
ASSUME BoundsAssumption == MaxEdits \in Nat /\ MaxFaults \in Nat

VARIABLES
  row,      \* row[r]: the row of parse_records or NoRow
  file,     \* the records whose file is in the object store
  upload,   \* upload[r]: where it is, whether it streams from a case, its output
  doc,      \* doc[r]: the case document of the upload: "none", "attached", "parsed"
  user,     \* user[u]: where a deletion is, and the files it still has to erase
  batch,    \* batch[b]: the batch, the outputs it read, what it has left and holds
  table,    \* petition_checklist_questions
  edits,    \* edits of the checklist so far
  faults,   \* failures so far
  history   \* what has happened to records; see Nothing

vars == <<row, file, upload, doc, user, batch, table, edits, faults, history>>

\* lost: an insert was committed and its answer lost; failed: an update after the
\* insert was refused; removed: a user deleted the row; overtaken: a clear
\* deleted a row it had not read; leftover: a failure came between a file and its
\* row; overwritten: the last output written is older than the columns.
Nothing == [lost |-> {}, failed |-> {}, removed |-> {}, overtaken |-> {},
            leftover |-> {}, overwritten |-> {}]

Note(what, records) == history' = [history EXCEPT ![what] = @ \cup records]

Fault == faults < MaxFaults /\ faults' = faults + 1

\* Reading the questions may fail.
ChecklistWorks(works) == IF works THEN UNCHANGED faults ELSE Fault

Exists(r) == row[r] # NoRow

\* Before the insert nobody but the upload knows the record.
BeforeInsert == {"new", "parsing", "put", "insert"}
Ended == {"done", "error", "unsaved", "gone"}

Idle == [op |-> "idle", todo |-> {}, snap |-> <<>>, rec |-> NoRow, held |-> NoOutput]
Finished == [Idle EXCEPT !.op = "over"]
Over == [pc |-> "over", files |-> {}]

InsertedRow(output) ==
  [output |-> output, score |-> output.from, format |-> output.from, linked |-> FALSE]

Init ==
  /\ row = [r \in Records |->
              IF r \in Stored THEN InsertedRow(Parse("upload", FALSE)) ELSE NoRow]
  /\ file = Stored
  /\ upload = [r \in Records |->
                 [pc |-> IF r \in Stored THEN "done" ELSE "new",
                  streams |-> FALSE, output |-> NoOutput]]
  /\ doc = [r \in Records |-> "none"]
  /\ user = [u \in Users |-> [pc |-> "idle", files |-> {}]]
  /\ batch = [b \in Batches |-> Idle]
  /\ table = [q \in Questions |->
                [version |-> IF q \in Edited THEN 0 ELSE 1, active |-> q \notin Edited]]
  /\ edits = 0
  /\ faults = 0
  /\ history = Nothing

-----------------------------------------------------------------------------
(* Uploads: POST /api/parse and /api/parse/stream. *)

Goto(r, pc) == upload' = [upload EXCEPT ![r].pc = pc]

\* A stream from a case first puts the document into it; that this fails is
\* only logged.
Begin(r) ==
  /\ upload[r].pc = "new"
  /\ \E streams \in BOOLEAN :
       /\ upload' = [upload EXCEPT ![r].pc = "parsing", ![r].streams = streams]
       /\ IF streams
          THEN \/ doc' = [doc EXCEPT ![r] = "attached"] /\ UNCHANGED faults
               \/ Fault /\ UNCHANGED doc
          ELSE UNCHANGED <<doc, faults>>
  /\ UNCHANGED <<row, file, user, batch, table, edits, history>>

\* OCR, parsing and the checklist.
ParseUpload(r) ==
  /\ upload[r].pc = "parsing"
  /\ \E works \in BOOLEAN :
       /\ ChecklistWorks(works)
       /\ upload' = [upload EXCEPT ![r].pc = "put",
            ![r].output = Enriched(Parse("upload", TRUE), table, works)]
  /\ UNCHANGED <<row, file, doc, user, batch, table, edits, history>>

\* No configuration, an unreadable document or a failure of OCR: nothing is saved.
ParseFails(r) ==
  /\ upload[r].pc = "parsing"
  /\ Goto(r, "error")
  /\ UNCHANGED <<row, file, doc, user, batch, table, edits, faults, history>>

\* save_parse_record: first the file, then the row.
PutFile(r) ==
  /\ upload[r].pc = "put"
  /\ \/ file' = file \cup {r} /\ Goto(r, "insert") /\ UNCHANGED faults
     \/ Fault /\ Goto(r, "unsaved") /\ UNCHANGED file
  /\ UNCHANGED <<row, doc, user, batch, table, edits, history>>

InsertRow(r) ==
  /\ upload[r].pc = "insert"
  /\ row' = [row EXCEPT ![r] = InsertedRow(upload[r].output)]
  /\ Goto(r, IF upload[r].streams THEN "link" ELSE "queue")
  /\ UNCHANGED <<file, doc, user, batch, table, edits, faults, history>>

\* Mutant: the file of a refused insert is not taken back.
InsertRefusedFileKept(r) ==
  /\ upload[r].pc = "insert"
  /\ Fault
  /\ Goto(r, "unsaved")
  /\ UNCHANGED <<row, file, doc, user, batch, table, edits, history>>

\* Any exception of the insert takes the file back: the row may have been committed all the
\* same, and the store may refuse as well, or both.
InsertRefused(r) ==
  /\ upload[r].pc = "insert"
  /\ Fault
  /\ \/ UNCHANGED row /\ file' = file \ {r} /\ UNCHANGED history
     \/ UNCHANGED row /\ UNCHANGED file /\ Note("leftover", {r})
     \/ /\ row' = [row EXCEPT ![r] = InsertedRow(upload[r].output)]
        /\ file' \in {file, file \ {r}}
        /\ Note("lost", {r})
  /\ Goto(r, "unsaved")
  /\ UNCHANGED <<doc, user, batch, table, edits>>

\* Mutant: a link that fails ends the upload as one that was not saved.
LinkOrGiveUp(r) ==
  /\ upload[r].pc = "link"
  /\ \/ /\ row' = IF Exists(r) THEN [row EXCEPT ![r].linked = TRUE] ELSE row
        /\ Goto(r, "document") /\ UNCHANGED <<faults, history>>
     \/ Fault /\ Note("failed", {r}) /\ Goto(r, "unsaved") /\ UNCHANGED row
  /\ UNCHANGED <<file, doc, user, batch, table, edits>>

\* The case of the row, then the parse of the document: failures are logged.
LinkToCase(r) ==
  /\ upload[r].pc = "link"
  /\ \/ /\ row' = IF Exists(r) THEN [row EXCEPT ![r].linked = TRUE] ELSE row
        /\ UNCHANGED <<faults, history>>
     \/ Fault /\ Note("failed", {r}) /\ UNCHANGED row
  /\ Goto(r, "document")
  /\ UNCHANGED <<file, doc, user, batch, table, edits>>

UpdateDocument(r) ==
  /\ upload[r].pc = "document"
  /\ \/ /\ doc' = IF doc[r] = "attached" THEN [doc EXCEPT ![r] = "parsed"] ELSE doc
        /\ UNCHANGED <<faults, history>>
     \/ Fault /\ Note("failed", {r}) /\ UNCHANGED doc
  /\ Goto(r, "queue")
  /\ UNCHANGED <<row, file, user, batch, table, edits>>

\* Handing the row to KIS may fail the request of a record that is saved.
Answer(r) ==
  /\ upload[r].pc = "queue"
  /\ \/ Goto(r, "done") /\ UNCHANGED faults
     \/ Fault /\ Goto(r, "error")
  /\ UNCHANGED <<row, file, doc, user, batch, table, edits, history>>

\* The client of a stream disconnects: whatever is awaited is cancelled, and a
\* cancelled save takes nothing back.
Disconnect(r) ==
  /\ upload[r].streams
  /\ upload[r].pc \in {"parsing", "put", "insert", "link", "document", "queue"}
  /\ Fault
  /\ \/ UNCHANGED <<row, file>>
     \/ upload[r].pc = "put" /\ file' = file \cup {r} /\ UNCHANGED row
     \/ /\ upload[r].pc = "insert"
        /\ row' = [row EXCEPT ![r] = InsertedRow(upload[r].output)] /\ UNCHANGED file
  /\ Goto(r, "gone")
  /\ Note("leftover", {r})
  /\ UNCHANGED <<doc, user, batch, table, edits>>

-----------------------------------------------------------------------------
(* DELETE /api/history/{id} and DELETE /api/history. *)

\* Mutant: the file goes first and the row next.
DeleteFileFirst(u, r) ==
  /\ user[u].pc = "idle"
  /\ Exists(r)
  /\ file' = file \ {r}
  /\ user' = [user EXCEPT ![u] = [pc |-> "clear", files |-> {r}]]
  /\ UNCHANGED <<row, upload, doc, batch, table, edits, faults, history>>

\* The row is deleted and committed, then its file.
DeleteRecord(u, r) ==
  /\ user[u].pc = "idle"
  /\ Exists(r)
  /\ row' = [row EXCEPT ![r] = NoRow]
  /\ user' = [user EXCEPT ![u] = [pc |-> "erase", files |-> {r}]]
  /\ Note("removed", {r})
  /\ UNCHANGED <<file, upload, doc, batch, table, edits, faults>>

\* Clearing reads which files there are ...
ReadFiles(u) ==
  /\ user[u].pc = "idle"
  /\ user' = [user EXCEPT ![u] = [pc |-> "clear", files |-> {r \in Records : Exists(r)}]]
  /\ UNCHANGED <<row, file, upload, doc, batch, table, edits, faults, history>>

\* ... and deletes all rows, those committed in between included.
DeleteAllRows(u) ==
  LET gone == {r \in Records : Exists(r)} IN
  /\ user[u].pc = "clear"
  /\ row' = [r \in Records |-> NoRow]
  /\ user' = [user EXCEPT ![u].pc = "erase"]
  /\ history' = [history EXCEPT !.removed = @ \cup gone,
                                !.overtaken = @ \cup (gone \ user[u].files)]
  /\ UNCHANGED <<file, upload, doc, batch, table, edits, faults>>

\* One file after the other; the first the store refuses ends the request.
EraseFile(u) ==
  /\ user[u].pc = "erase"
  /\ \E r \in user[u].files :
       \/ /\ file' = file \ {r}
          /\ user' = [user EXCEPT ![u].files = @ \ {r}]
          /\ UNCHANGED <<faults, history>>
       \/ /\ Fault
          /\ Note("leftover", user[u].files)
          /\ user' = [user EXCEPT ![u] = Over]
          /\ UNCHANGED file
  /\ UNCHANGED <<row, upload, doc, batch, table, edits>>

DeletionEnds(u) ==
  /\ user[u].pc = "erase" /\ user[u].files = {}
  /\ user' = [user EXCEPT ![u] = Over]
  /\ UNCHANGED <<row, file, upload, doc, batch, table, edits, faults, history>>

-----------------------------------------------------------------------------
(* Batches: each reads the rows once and then works through them.  The     *)
(* order of the rows is left open.                                         *)

Outputs == [r \in {s \in Records : Exists(s)} |-> row[r].output]

\* A batch that re-parses only needs to know the rows.
BeginBatch(b, op) ==
  /\ batch[b].op = "idle"
  /\ batch' = [batch EXCEPT ![b] =
       [Idle EXCEPT !.op = op, !.todo = DOMAIN Outputs,
                    !.snap = IF op = "reparse" THEN <<>> ELSE Outputs]]
  /\ UNCHANGED <<row, file, upload, doc, user, table, edits, faults, history>>

\* What the batch makes of a row: the file parsed again, the output it read judged
\* again, or the sections of the output it read ranked.
Made(b, r, works) ==
  CASE batch[b].op = "reparse"   -> Enriched(Parse("reparse", TRUE), table, works)
    [] batch[b].op = "checklist" -> Enriched(batch[b].snap[r], table, works)
    [] batch[b].op = "bns"       -> [batch[b].snap[r] EXCEPT !.ranked = TRUE]

\* Nothing to do for a row whose file is gone or whose sections are ranked.
Skipped(b, r) ==
  \/ batch[b].op = "reparse" /\ r \notin file
  \/ batch[b].op = "bns" /\ batch[b].snap[r].ranked

MakeOutput(b) ==
  /\ batch[b].rec = NoRow
  /\ \E r \in batch[b].todo, works \in BOOLEAN :
       /\ ~Skipped(b, r)
       /\ ChecklistWorks(works)
       /\ batch' = [batch EXCEPT ![b].rec = r, ![b].held = Made(b, r, works)]
  /\ UNCHANGED <<row, file, upload, doc, user, table, edits, history>>

\* The row is skipped, or anything that fails on the way is an error of this row only.
Forget(b, r) == [batch[b] EXCEPT !.todo = @ \ {r}, !.rec = NoRow, !.held = NoOutput]

PassOver(b) ==
  /\ \E r \in batch[b].todo :
       /\ \/ batch[b].rec = NoRow /\ Skipped(b, r) /\ UNCHANGED faults
          \/ batch[b].rec \in {NoRow, r} /\ Fault
       /\ batch' = [batch EXCEPT ![b] = Forget(b, r)]
  /\ UNCHANGED <<row, file, upload, doc, user, table, edits, history>>

\* Mutant: the score and the format of a re-parse are not written.
UpdatedOutputOnly(b, r) == [row[r] EXCEPT !.output = batch[b].held]

\* The columns each batch writes; a re-parse writes them all.
Updated(b, r) ==
  LET held == batch[b].held IN
  CASE batch[b].op = "reparse" ->
         [row[r] EXCEPT !.output = held, !.score = held.from, !.format = held.from]
    [] batch[b].op = "checklist" -> [row[r] EXCEPT !.output = held, !.score = held.from]
    [] batch[b].op = "bns" -> [row[r] EXCEPT !.output = held]

\* Another batch has replaced the output since this one read it.
Overtaken(b, r) ==
  /\ batch[b].op # "reparse"
  /\ row[r].output.from # batch[b].held.from

\* UPDATE ... WHERE id = r: a row deleted meanwhile is passed over in silence.
WriteOutput(b) ==
  LET r == batch[b].rec IN
  /\ r # NoRow
  /\ row' = IF Exists(r) THEN [row EXCEPT ![r] = Updated(b, r)] ELSE row
  /\ batch' = [batch EXCEPT ![b] = Forget(b, r)]
  /\ history' = [history EXCEPT !.overwritten =
       IF Exists(r) /\ Overtaken(b, r) THEN @ \cup {r}
       ELSE IF batch[b].op = "reparse" THEN @ \ {r} ELSE @]
  /\ UNCHANGED <<file, upload, doc, user, table, edits, faults>>

BatchEnds(b) ==
  /\ batch[b].op \notin {"idle", "over"} /\ batch[b].todo = {}
  /\ batch' = [batch EXCEPT ![b] = Finished]
  /\ UNCHANGED <<row, file, upload, doc, user, table, edits, faults, history>>

-----------------------------------------------------------------------------
(* What readers of the history are given. *)

\* GET /api/history: columns of the row beside what its output says.
Listed(r) ==
  [score |-> row[r].score, format |-> row[r].format, says |-> row[r].output.from]

\* GET /api/history/{id}: the output, judged by the checklist of this moment.
Shown(r, works) == Enriched(row[r].output, table, works)

\* GET /api/history/{id}/file.
Served(r) == Exists(r) /\ r \in file

-----------------------------------------------------------------------------
(* The checklist and the server. *)

\* POST and PATCH /api/rewrite-checklist/questions: any version, active or not.
SaveQuestion(q) ==
  /\ edits < MaxEdits
  /\ edits' = edits + 1
  /\ \E x \in QuestionRow : table' = [table EXCEPT ![q] = x]
  /\ UNCHANGED <<row, file, upload, doc, user, batch, faults, history>>

\* The server ends: every request in progress ends with it.
Crash ==
  /\ Fault
  /\ upload' = [r \in Records |->
       IF upload[r].pc \in Ended \cup {"new"} THEN upload[r]
       ELSE [upload[r] EXCEPT !.pc = "gone"]]
  /\ user' = [u \in Users |-> IF user[u].pc = "idle" THEN user[u] ELSE Over]
  /\ batch' = [b \in Batches |-> IF batch[b].op = "idle" THEN batch[b] ELSE Finished]
  /\ Note("leftover", {r \in Records : upload[r].pc = "insert"}
                      \cup UNION {user[u].files : u \in Users})
  /\ UNCHANGED <<row, file, doc, table, edits>>

UploadStep(r) ==
  \/ Begin(r) \/ ParseUpload(r) \/ ParseFails(r) \/ PutFile(r) \/ InsertRow(r)
  \/ InsertRefused(r) \/ LinkToCase(r) \/ UpdateDocument(r) \/ Answer(r) \/ Disconnect(r)

UserStep(u) ==
  \/ \E r \in Records : DeleteRecord(u, r)
  \/ ReadFiles(u) \/ DeleteAllRows(u) \/ EraseFile(u) \/ DeletionEnds(u)

BatchStep(b) ==
  \/ \E op \in {"reparse", "checklist", "bns"} : BeginBatch(b, op)
  \/ MakeOutput(b) \/ PassOver(b) \/ WriteOutput(b) \/ BatchEnds(b)

Next ==
  \/ \E r \in Records : UploadStep(r)
  \/ \E u \in Users : UserStep(u)
  \/ \E b \in Batches : BatchStep(b)
  \/ \E q \in Edited : SaveQuestion(q)
  \/ Crash

Spec == Init /\ [][Next]_vars

-----------------------------------------------------------------------------
\* What the rows, the requests and the history of records are made of.
UploadPlaces == BeforeInsert \cup {"link", "document", "queue"} \cup Ended
Working == {"reparse", "checklist", "bns"}
Snapshots == UNION {[S -> Output] : S \in SUBSET Records}
UploadRow == [pc : UploadPlaces, streams : BOOLEAN, output : Output \cup {NoOutput}]
UserRow == [pc : {"idle", "clear", "erase", "over"}, files : SUBSET Records]
BatchRow == [op : Working \cup {"idle", "over"}, todo : SUBSET Records, snap : Snapshots,
             rec : Records \cup {NoRow}, held : Output \cup {NoOutput}]

TypeOK ==
  /\ row \in [Records -> Row \cup {NoRow}]
  /\ file \subseteq Records
  /\ upload \in [Records -> UploadRow]
  /\ doc \in [Records -> {"none", "attached", "parsed"}]
  /\ user \in [Users -> UserRow]
  /\ batch \in [Batches -> BatchRow]
  /\ table \in [Questions -> [version : Versions \cup {0, 1}, active : BOOLEAN]]
  /\ edits \in 0..MaxEdits /\ faults \in 0..MaxFaults
  /\ history \in [DOMAIN Nothing -> SUBSET Records]

\* Every row's file can be read (get_history_file, batch_reparse), however
\* deletions, clears, uploads and failures interleave: a file is erased only
\* after its row is gone for good.  Only an insert whose answer was lost leaves
\* a row without its file.
FilesAreReadable ==
  \A r \in Records : Exists(r) => Served(r) \/ r \in history.lost

\* While nothing is in progress no file is kept without a row, unless a failure
\* came between the two or a clear deleted a row it had not read.
Quiet ==
  /\ \A r \in Records : upload[r].pc \in Ended \cup {"new"}
  /\ \A u \in Users : user[u].pc \in {"idle", "over"}

NoForgottenFile ==
  Quiet => \A r \in file :
             Exists(r) \/ r \in history.leftover \cup history.overtaken

\* The score and the format listed in the history are those of the output listed
\* beside them, whatever uploads and batches run side by side, unless a batch wrote back an
\* output that a re-parse had replaced.
ColumnsFollowTheParse ==
  \A r \in Records :
    Exists(r) /\ r \notin history.overwritten =>
      Listed(r).score = Listed(r).says /\ Listed(r).format = Listed(r).says

\* What the client is told is so: "done" means the record is in the history and
\* linked to its case, its case document shows the parse, unless a user removed
\* it or an update was refused; "could not be saved" means it never was there,
\* unless the answer to the insert was lost.
AnswersAreTrue ==
  \A r \in Records :
    /\ upload[r].pc = "done" /\ r \notin history.failed =>
         /\ doc[r] # "attached"
         /\ IF Exists(r) THEN upload[r].streams => row[r].linked
            ELSE r \in history.removed
    /\ upload[r].pc = "unsaved" =>
         r \in history.lost \/ (~Exists(r) /\ r \notin history.removed)

\* Merging findings that read alike hides no gap: in every analysis stored or
\* shown each question that found something missing has an action item that
\* reads the same and is at least as grave, and the counts account for them.
GapsAreAsked ==
  \A r \in Records : Exists(r) =>
    /\ AsksEveryGap(row[r].output.analysis)
    /\ \A works \in BOOLEAN : AsksEveryGap(Shown(r, works).analysis)
=============================================================================
