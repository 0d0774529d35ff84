-------------------------- MODULE ParseProofs --------------------------
(***************************************************************************)
(* Proofs about parsing.  ParseHistory, for any records, users, batches,   *)
(* questions and number of failures; the checklist analysis of its outputs *)
(* (merging findings that read alike hides no gap, for any questions and   *)
(* any verdicts on them); and ComplaintParsing, for any documents,         *)
(* configurations, readings of the rules and answers of the model.         *)
(***************************************************************************)
EXTENDS ParseHistory, ComplaintParsing, FiniteSetTheorems, SequenceTheorems, WellFoundedInduction, TLAPS

-----------------------------------------------------------------------------
\* The checklist analysis.

LEMMA SmallestOf ==
  ASSUME NEW S \in SUBSET Nat, S # {}
  PROVE  \E x \in S : \A y \in S : x <= y
<1>1. PICK x \in S : \A y \in S : <<y, x>> \notin OpToRel(<, Nat)
  BY NatLessThanWellFounded, WFMin
<1>2. \A y \in S : ~(y < x)
  BY <1>1 DEF OpToRel
<1> QED BY <1>2

\* What a question's finding is made of.
Finding(parse, q) ==
  [question |-> q, category |-> Ask[q].category, severity |-> Ask[q].severity,
   status |-> Verdict[parse][q].status, detail |-> Verdict[parse][q].detail]

\* The findings of any questions: finitely many, one to a question, of known severity.
Findings(E) ==
  /\ IsFiniteSet(E)
  /\ \A e \in E : e.question \in Nat /\ SeverityRank[e.severity] \in 1..3
  /\ \A e, f \in E : e.question = f.question => e = f

LEMMA EvaluationsAreFindings ==
  ASSUME NEW parse, NEW questions \in SUBSET Questions
  PROVE  Findings(EvaluateChecklistQuestions(parse, questions))
<1> DEFINE S == {r \in questions :
                   /\ "petition" \in Ask[r].purposes
                   /\ \A p \in questions : p < r => Ask[p].text # Ask[r].text}
           E == {Finding(parse, q) : q \in S}
           g == [q \in S |-> Finding(parse, q)]
<1>1. EvaluateChecklistQuestions(parse, questions) = E
  BY DEF EvaluateChecklistQuestions, Finding
<1>2. S \in SUBSET Questions
  OBVIOUS
<1> HIDE DEF S
<1>3. IsFiniteSet(S)
  BY <1>2, QuestionsAssumption, FS_Subset
<1>4. g \in Surjection(S, E)
  BY DEF Surjection
<1>5. IsFiniteSet(E)
  <2> HIDE DEF g, E
  <2> QED BY <1>3, <1>4, FS_Surjection
<1>6. \A q \in S : /\ Finding(parse, q).question = q
                   /\ Finding(parse, q).severity = Ask[q].severity
  BY DEF Finding
<1>7. \A e \in E : e.question \in Nat /\ SeverityRank[e.severity] \in 1..3
  BY <1>2, <1>6, QuestionsAssumption, SeverityAssumption DEF SeverityRank
<1>8. \A e, f \in E : e.question = f.question => e = f
  BY <1>6
<1> QED BY <1>1, <1>5, <1>7, <1>8 DEF Findings

\* Of the gravest findings that read like one the first is kept.
LEMMA DedupeKeepsTheGravest ==
  ASSUME NEW E, Findings(E), NEW e \in E, e.status \in Actionable
  PROVE  \E f \in DedupeEvaluations(E) :
           /\ f = e \/ ReadsLike(e, f)
           /\ SeverityRank[f.severity] >= SeverityRank[e.severity]
<1> DEFINE rank(f) == SeverityRank[f.severity]
           G == {f \in E : f = e \/ ReadsLike(e, f)}
<1>1. \A f \in E : rank(f) \in 1..3 /\ f.question \in Nat
  BY DEF Findings
<1>2. ASSUME NEW f \in G, NEW x \in E \ {f}, ReadsLike(f, x) PROVE x \in G
  BY <1>2 DEF ReadsLike
<1>3. ASSUME NEW k \in 1..3, \A f \in G : rank(f) <= k, \E f \in G : rank(f) = k
      PROVE  \E f \in DedupeEvaluations(E) : f \in G /\ rank(f) >= rank(e)
  <2> DEFINE T == {f.question : f \in {x \in G : rank(x) = k}}
  <2>1. T \in SUBSET Nat /\ T # {}
    BY <1>1, <1>3
  <2>2. PICK n \in T : \A m \in T : n <= m
    BY <2>1, SmallestOf
  <2>3. PICK f \in G : rank(f) = k /\ f.question = n
    OBVIOUS
  <2>4. ASSUME NEW x \in E \ {f}, ReadsLike(f, x)
        PROVE  rank(x) < rank(f) \/ (rank(x) = rank(f) /\ x.question > f.question)
    <3>1. x \in G /\ rank(x) <= k
      BY <1>2, <1>3, <2>4
    <3>2. CASE rank(x) = k
      <4>1. x.question >= f.question
        BY <2>2, <2>3, <3>1, <3>2
      <4>2. x.question # f.question
        BY <2>4 DEF Findings
      <4> QED BY <1>1, <2>3, <3>2, <4>1, <4>2
    <3> QED BY <1>1, <2>3, <3>1, <3>2
  <2>5. f \in DedupeEvaluations(E)
    BY <2>4 DEF DedupeEvaluations
  <2>6. e \in G
    OBVIOUS
  <2> QED BY <1>3, <2>3, <2>5, <2>6
<1>4. \E k \in 1..3 : (\A f \in G : rank(f) <= k) /\ (\E f \in G : rank(f) = k)
  <2>1. e \in G
    OBVIOUS
  <2>2. \A f \in G : rank(f) \in 1..3
    BY <1>1
  <2> HIDE DEF G, rank
  <2>3. CASE \E f \in G : rank(f) = 3
    BY <2>2, <2>3
  <2>4. CASE (\A f \in G : rank(f) # 3) /\ \E f \in G : rank(f) = 2
    BY <2>2, <2>4
  <2>5. CASE \A f \in G : rank(f) = 1
    BY <2>1, <2>5
  <2> QED BY <2>2, <2>3, <2>4, <2>5
<1>5. PICK f \in DedupeEvaluations(E) : f \in G /\ rank(f) >= rank(e)
  BY <1>3, <1>4
<1> QED BY <1>5

LEMMA CountsAddUp ==
  ASSUME NEW E, IsFiniteSet(E)
  PROVE  Count(E, Actionable \cup {"present"}) - Count(E, {"present"})
           = Cardinality({e \in E : e.status \in Actionable})
<1> DEFINE A == {e \in E : e.status \in Actionable}
           P == {e \in E : e.status \in {"present"}}
           B == {e \in E : e.status \in Actionable \cup {"present"}}
<1>1. IsFiniteSet(A) /\ IsFiniteSet(P) /\ Cardinality(A) \in Nat /\ Cardinality(P) \in Nat
  BY FS_Subset, FS_CardinalityType
<1>2. B = A \cup P /\ A \cap P = {}
  BY DEF Actionable
<1> HIDE DEF A, P, B
<1>3. Cardinality(B) = Cardinality(A) + Cardinality(P)
  <2>1. Cardinality(A \cap P) = 0
    BY <1>2, FS_EmptySet
  <2>2. Cardinality(A \cup P) = Cardinality(A) + Cardinality(P) - Cardinality(A \cap P)
    BY <1>1, FS_Union
  <2> QED BY <1>1, <1>2, <2>1, <2>2
<1> QED BY <1>1, <1>3 DEF Count, A, P, B

\* In every analysis there can be each gap is asked for, as gravely as it was found, and
\* the counts agree with the items.
THEOREM EveryAnalysisAsks == \A a \in Analyses : AsksEveryGap(a)
<1>1. AsksEveryGap(NoAnalysis) /\ AsksEveryGap(Unanalysed("unavailable"))
  BY DEF NoAnalysis, Unanalysed, AsksEveryGap
<1>2. ASSUME NEW E, Findings(E) PROVE AsksEveryGap(BuildChecklistAnalysis(E))
  <2> DEFINE public == DedupeEvaluations(E)
             items == {e \in public : e.status \in Actionable}
             grave == {e \in items : SeverityRank[e.severity] >= SeverityRank.mandatory}
             a == BuildChecklistAnalysis(E)
  <2>1. IsFiniteSet(public)
    BY <1>2, FS_Subset DEF DedupeEvaluations, Findings
  <2>2. Cardinality(items) \in Nat /\ Cardinality(grave) \in Nat
    BY <2>1, FS_Subset, FS_CardinalityType
  <2>3. /\ a.judged = E /\ a.evaluations = public
        /\ a.mandatory = Cardinality(grave)
        /\ a.recommended = Cardinality(items) - Cardinality(grave)
        /\ a.applicable = Count(public, Actionable \cup {"present"})
        /\ a.present = Count(public, {"present"})
    BY DEF BuildChecklistAnalysis
  <2>4. a.applicable - a.present = Cardinality(items)
    BY <2>1, <2>3, CountsAddUp
  <2> HIDE DEF items, grave, public, a
  <2>5. a.mandatory + a.recommended = a.applicable - a.present
    BY <2>2, <2>3, <2>4
  <2> QED BY <1>2, <2>3, <2>5, DedupeKeepsTheGravest DEF AsksEveryGap, public, a
<1> QED BY <1>1, <1>2, EvaluationsAreFindings DEF Analyses

-----------------------------------------------------------------------------
\* Outputs and rows.

LEMMA ParseIsOutput ==
  ASSUME NEW from \in {"upload", "reparse"}, NEW ranked \in BOOLEAN
  PROVE  Parse(from, ranked) \in Output
BY DEF Parse, Output, Analyses

\* Judging an output again changes nothing but its analysis.
LEMMA EnrichedOutput ==
  ASSUME NEW o \in Output, NEW t, NEW works \in BOOLEAN
  PROVE  /\ Enriched(o, t, works) \in Output
         /\ Enriched(o, t, works).from = o.from
         /\ Enriched(o, t, works).ranked = o.ranked
<1> DEFINE built == BuildChecklistAnalysis(EvaluateChecklistQuestions(o.from, LatestActive(t)))
           a == IF works THEN built
                ELSE IF o.analysis = NoAnalysis THEN Unanalysed("unavailable") ELSE o.analysis
<1>1. LatestActive(t) \in SUBSET Questions
  BY DEF LatestActive, Active
<1>2. o.from \in DOMAIN Verdict
  BY VerdictAssumption DEF Output
<1>3. built \in Analyses
  BY <1>1, <1>2 DEF Analyses
<1>4. a \in Analyses
  BY <1>3 DEF Output, Analyses
<1>5. Enriched(o, t, works) = [o EXCEPT !.analysis = a]
  BY DEF Enriched
<1> HIDE DEF a
<1> QED BY <1>4, <1>5 DEF Output

LEMMA InsertedIsRow ==
  ASSUME NEW o \in Output
  PROVE  /\ InsertedRow(o) \in Row
         /\ InsertedRow(o).output = o
         /\ InsertedRow(o).score = o.from /\ InsertedRow(o).format = o.from
         /\ InsertedRow(o).linked = FALSE
BY DEF InsertedRow, Row, Output

LEMMA RowIsNotNoRow == \A x \in Row : x # NoRow
BY NoRowAssumption

LEMMA EmptySnapshot == <<>> \in Snapshots
<1>1. <<>> \in [{} -> Output]
  OBVIOUS
<1> QED BY <1>1 DEF Snapshots

LEMMA SnapshotOutput ==
  ASSUME NEW f \in Snapshots, NEW r \in DOMAIN f
  PROVE  f[r] \in Output
BY DEF Snapshots

LEMMA OutputsIsSnapshot ==
  ASSUME TypeOK
  PROVE  /\ Outputs \in Snapshots
         /\ DOMAIN Outputs \subseteq Records
<1>1. \A r \in Records : Exists(r) => row[r].output \in Output
  BY DEF TypeOK, Exists, Row
<1>2. Outputs \in [{s \in Records : Exists(s)} -> Output]
  BY <1>1 DEF Outputs
<1>3. {s \in Records : Exists(s)} \in SUBSET Records
  OBVIOUS
<1> QED BY <1>2, <1>3 DEF Snapshots

-----------------------------------------------------------------------------
\* What an upload is about to insert is an output, and so is what a batch holds; a batch
\* has work left only while it is one, and has read what it needs for it.

UploadsInHand ==
  \A r \in Records : upload[r].pc \in {"put", "insert"} => upload[r].output \in Output

BatchesInHand ==
  \A b \in Batches :
    /\ batch[b].todo # {} => batch[b].op \in Working
    /\ batch[b].rec # NoRow => batch[b].rec \in batch[b].todo /\ batch[b].held \in Output
    /\ batch[b].op \in {"checklist", "bns"} => batch[b].todo \subseteq DOMAIN batch[b].snap

TInv == TypeOK /\ UploadsInHand /\ BatchesInHand

LEMMA InitTypes == Init => TInv
<1> SUFFICES ASSUME Init PROVE TInv
  OBVIOUS
<1>1. row \in [Records -> Row \cup {NoRow}]
  <2>1. InsertedRow(Parse("upload", FALSE)) \in Row
    BY ParseIsOutput, InsertedIsRow
  <2> QED BY <2>1 DEF Init
<1>2. upload \in [Records -> UploadRow]
  BY DEF Init, UploadRow, UploadPlaces, BeforeInsert, Ended
<1>3. batch \in [Batches -> BatchRow]
  BY EmptySnapshot DEF Init, Idle, BatchRow
<1>4. history \in [DOMAIN Nothing -> SUBSET Records]
  BY DEF Init, Nothing
<1>5. edits \in 0..MaxEdits /\ faults \in 0..MaxFaults
  BY BoundsAssumption DEF Init
<1>6. file \subseteq Records /\ doc \in [Records -> {"none", "attached", "parsed"}]
  BY StoredAssumption DEF Init
<1>7. user \in [Users -> UserRow]
  BY DEF Init, UserRow
<1>8. table \in [Questions -> [version : Versions \cup {0, 1}, active : BOOLEAN]]
  BY DEF Init
<1>9. TypeOK
  BY <1>1, <1>2, <1>3, <1>4, <1>5, <1>6, <1>7, <1>8 DEF TypeOK
<1>10. UploadsInHand
  BY DEF Init, UploadsInHand
<1>11. BatchesInHand
  BY DEF Init, Idle, BatchesInHand
<1> QED BY <1>9, <1>10, <1>11 DEF TInv

LEMMA SameBatches ==
  ASSUME BatchesInHand, UNCHANGED batch
  PROVE  BatchesInHand'
BY DEF BatchesInHand

LEMMA SameUploads ==
  ASSUME UploadsInHand, UNCHANGED upload
  PROVE  UploadsInHand'
BY DEF UploadsInHand

LEMMA FaultTypes ==
  ASSUME TypeOK, Fault \/ UNCHANGED faults
  PROVE  faults' \in 0..MaxFaults
BY BoundsAssumption DEF Fault, TypeOK

LEMMA NoteTypes ==
  ASSUME TypeOK, NEW what \in DOMAIN Nothing, NEW S \in SUBSET Records,
         Note(what, S) \/ UNCHANGED history
  PROVE  history' \in [DOMAIN Nothing -> SUBSET Records]
BY DEF Note, TypeOK

LEMMA Noted == {"lost", "failed", "removed", "overtaken", "leftover", "overwritten"} = DOMAIN Nothing
BY DEF Nothing

\* Linking a row leaves the rest of it alone.
LEMMA LinkedIsRow ==
  ASSUME NEW x \in Row
  PROVE  [x EXCEPT !.linked = TRUE] \in Row
BY DEF Row

LEMMA UploadMoves ==
  ASSUME NEW x \in UploadRow, NEW pc \in UploadPlaces
  PROVE  /\ [x EXCEPT !.pc = pc] \in UploadRow
         /\ [x EXCEPT !.pc = pc].pc = pc
         /\ [x EXCEPT !.pc = pc].streams = x.streams
         /\ [x EXCEPT !.pc = pc].output = x.output
BY DEF UploadRow

\* An upload moves on to a place that is one.
LEMMA OneUpload ==
  ASSUME TInv, NEW r \in Records, NEW x \in UploadRow,
         x.pc \in {"put", "insert"} => x.output \in Output,
         upload' = [upload EXCEPT ![r] = x]
  PROVE  upload' \in [Records -> UploadRow] /\ UploadsInHand'
BY DEF TInv, TypeOK, UploadsInHand

LEMMA GotoTypes ==
  ASSUME TInv, NEW r \in Records, NEW pc \in UploadPlaces, Goto(r, pc),
         pc \in {"put", "insert"} => upload[r].output \in Output
  PROVE  upload' \in [Records -> UploadRow] /\ UploadsInHand'
<1> DEFINE x == [upload[r] EXCEPT !.pc = pc]
<1>1. x \in UploadRow /\ x.pc = pc /\ x.output = upload[r].output
  BY UploadMoves DEF TInv, TypeOK
<1>2. upload' = [upload EXCEPT ![r] = x]
  BY DEF Goto
<1> HIDE DEF x
<1> QED BY <1>1, <1>2, OneUpload

LEMMA UploadTypes ==
  ASSUME TInv, NEW r \in Records, UploadStep(r)
  PROVE  TInv'
<1> USE DEF TInv
<1> USE Noted
<1>1. {"put", "insert", "link", "document", "queue", "unsaved", "error", "gone"} \subseteq UploadPlaces
  BY DEF UploadPlaces, BeforeInsert, Ended
<1>2. CASE Begin(r)
  <2>1. PICK streams \in BOOLEAN :
          upload' = [upload EXCEPT ![r].pc = "parsing", ![r].streams = streams]
    BY <1>2 DEF Begin
  <2> DEFINE x == [upload[r] EXCEPT !.pc = "parsing", !.streams = streams]
  <2>2. upload' \in [Records -> UploadRow] /\ UploadsInHand'
    <3>1. upload[r] \in UploadRow
      BY DEF TypeOK
    <3>2. x \in UploadRow /\ x.pc = "parsing"
      BY <3>1 DEF UploadRow, UploadPlaces, BeforeInsert
    <3>3. upload' = [upload EXCEPT ![r] = x]
      BY <2>1 DEF TypeOK
    <3> HIDE DEF x
    <3> QED BY <3>2, <3>3, OneUpload
  <2>3. doc' \in [Records -> {"none", "attached", "parsed"}]
    BY <1>2 DEF Begin, TypeOK
  <2>4. Fault \/ UNCHANGED faults
    BY <1>2 DEF Begin
  <2>5. UNCHANGED <<row, file, user, batch, table, edits, history>>
    BY <1>2 DEF Begin
  <2> QED BY <2>2, <2>3, <2>4, <2>5, SameBatches, FaultTypes DEF TypeOK
<1>3. CASE ParseUpload(r)
  <2>1. PICK works \in BOOLEAN :
          /\ ChecklistWorks(works)
          /\ upload' = [upload EXCEPT ![r].pc = "put",
               ![r].output = Enriched(Parse("upload", TRUE), table, works)]
    BY <1>3 DEF ParseUpload
  <2> DEFINE o == Enriched(Parse("upload", TRUE), table, works)
  <2>2. o \in Output
    BY ParseIsOutput, EnrichedOutput
  <2>3. upload' = [upload EXCEPT ![r].pc = "put", ![r].output = o]
    BY <2>1
  <2> HIDE DEF o
  <2> DEFINE x == [upload[r] EXCEPT !.pc = "put", !.output = o]
  <2>4. upload' \in [Records -> UploadRow] /\ UploadsInHand'
    <3>1. upload[r] \in UploadRow
      BY DEF TypeOK
    <3>2. x \in UploadRow /\ x.output = o
      BY <2>2, <3>1 DEF UploadRow, UploadPlaces, BeforeInsert
    <3>3. upload' = [upload EXCEPT ![r] = x]
      BY <2>3 DEF TypeOK
    <3> HIDE DEF x
    <3> QED BY <2>2, <3>2, <3>3, OneUpload
  <2>5. Fault \/ UNCHANGED faults
    BY <2>1 DEF ChecklistWorks
  <2>6. UNCHANGED <<row, file, doc, user, batch, table, edits, history>>
    BY <1>3 DEF ParseUpload
  <2> QED BY <2>4, <2>5, <2>6, SameBatches, FaultTypes DEF TypeOK
<1>4. CASE ParseFails(r)
  <2>1. Goto(r, "error")
    BY <1>4 DEF ParseFails
  <2>2. UNCHANGED <<row, file, doc, user, batch, table, edits, faults, history>>
    BY <1>4 DEF ParseFails
  <2> QED BY <1>1, <2>1, <2>2, GotoTypes, SameBatches DEF TypeOK
<1>5. CASE PutFile(r)
  <2>1. \/ Goto(r, "insert") /\ upload[r].output \in Output
        \/ Goto(r, "unsaved")
    BY <1>5 DEF PutFile, UploadsInHand
  <2>2. file' \subseteq Records /\ (Fault \/ UNCHANGED faults)
    BY <1>5 DEF PutFile, TypeOK
  <2>3. UNCHANGED <<row, doc, user, batch, table, edits, history>>
    BY <1>5 DEF PutFile
  <2>4. upload' \in [Records -> UploadRow] /\ UploadsInHand'
    BY <1>1, <2>1, GotoTypes
  <2> QED BY <2>2, <2>3, <2>4, SameBatches, FaultTypes DEF TypeOK
<1>6. ASSUME UploadStep(r), upload[r].pc = "insert"
      PROVE  [row EXCEPT ![r] = InsertedRow(upload[r].output)] \in [Records -> Row \cup {NoRow}]
  BY <1>6, InsertedIsRow DEF UploadsInHand, TypeOK
<1>7. CASE InsertRow(r)
  <2>1. row' \in [Records -> Row \cup {NoRow}]
    BY <1>6, <1>7 DEF InsertRow, TypeOK
  <2>2. Goto(r, "link") \/ Goto(r, "queue")
    BY <1>7 DEF InsertRow
  <2>3. UNCHANGED <<file, doc, user, batch, table, edits, faults, history>>
    BY <1>7 DEF InsertRow
  <2>4. upload' \in [Records -> UploadRow] /\ UploadsInHand'
    BY <1>1, <2>2, GotoTypes
  <2> QED BY <2>1, <2>3, <2>4, SameBatches DEF TypeOK
<1>8. CASE InsertRefused(r)
  <2>1. row' \in [Records -> Row \cup {NoRow}]
    BY <1>6, <1>8 DEF InsertRefused, TypeOK
  <2>2. file' \subseteq Records /\ Fault
    BY <1>8 DEF InsertRefused, TypeOK
  <2>3. UNCHANGED history \/ Note("leftover", {r}) \/ Note("lost", {r})
    BY <1>8 DEF InsertRefused
  <2>4. history' \in [DOMAIN Nothing -> SUBSET Records]
    BY <2>3, NoteTypes
  <2>5. Goto(r, "unsaved") /\ UNCHANGED <<doc, user, batch, table, edits>>
    BY <1>8 DEF InsertRefused
  <2> QED BY <1>1, <2>1, <2>2, <2>4, <2>5, GotoTypes, SameBatches, FaultTypes DEF TypeOK
<1>9. CASE LinkToCase(r)
  <2>1. row' \in [Records -> Row \cup {NoRow}]
    BY <1>9, LinkedIsRow DEF LinkToCase, Exists, TypeOK
  <2>2. (Fault \/ UNCHANGED faults) /\ (Note("failed", {r}) \/ UNCHANGED history)
    BY <1>9 DEF LinkToCase
  <2>3. history' \in [DOMAIN Nothing -> SUBSET Records]
    BY <2>2, NoteTypes
  <2>4. Goto(r, "document") /\ UNCHANGED <<file, doc, user, batch, table, edits>>
    BY <1>9 DEF LinkToCase
  <2> QED BY <1>1, <2>1, <2>2, <2>3, <2>4, GotoTypes, SameBatches, FaultTypes DEF TypeOK
<1>10. CASE UpdateDocument(r)
  <2>1. doc' \in [Records -> {"none", "attached", "parsed"}]
    BY <1>10 DEF UpdateDocument, TypeOK
  <2>2. (Fault \/ UNCHANGED faults) /\ (Note("failed", {r}) \/ UNCHANGED history)
    BY <1>10 DEF UpdateDocument
  <2>3. history' \in [DOMAIN Nothing -> SUBSET Records]
    BY <2>2, NoteTypes
  <2>4. Goto(r, "queue") /\ UNCHANGED <<row, file, user, batch, table, edits>>
    BY <1>10 DEF UpdateDocument
  <2> QED BY <1>1, <2>1, <2>2, <2>3, <2>4, GotoTypes, SameBatches, FaultTypes DEF TypeOK
<1>11. CASE Answer(r)
  <2>1. (Goto(r, "done") \/ Goto(r, "error")) /\ (Fault \/ UNCHANGED faults)
    BY <1>11 DEF Answer
  <2>2. "done" \in UploadPlaces
    BY DEF UploadPlaces, Ended
  <2>3. upload' \in [Records -> UploadRow] /\ UploadsInHand'
    BY <1>1, <2>1, <2>2, GotoTypes
  <2>4. UNCHANGED <<row, file, doc, user, batch, table, edits, history>>
    BY <1>11 DEF Answer
  <2> QED BY <2>1, <2>3, <2>4, SameBatches, FaultTypes DEF TypeOK
<1>12. CASE Disconnect(r)
  <2>1. row' \in [Records -> Row \cup {NoRow}]
    BY <1>6, <1>12 DEF Disconnect, TypeOK
  <2>2. file' \subseteq Records /\ Fault
    BY <1>12 DEF Disconnect, TypeOK
  <2>3. Note("leftover", {r})
    BY <1>12 DEF Disconnect
  <2>4. history' \in [DOMAIN Nothing -> SUBSET Records]
    BY <2>3, NoteTypes
  <2>5. Goto(r, "gone") /\ UNCHANGED <<doc, user, batch, table, edits>>
    BY <1>12 DEF Disconnect
  <2> QED BY <1>1, <2>1, <2>2, <2>4, <2>5, GotoTypes, SameBatches, FaultTypes DEF TypeOK
<1> QED BY <1>2, <1>3, <1>4, <1>5, <1>7, <1>8, <1>9, <1>10, <1>11, <1>12 DEF UploadStep

LEMMA HistoryTypes ==
  ASSUME TypeOK, NEW what \in DOMAIN Nothing
  PROVE  history[what] \in SUBSET Records
BY DEF TypeOK

LEMMA UserTypes ==
  ASSUME TInv, NEW u \in Users, UserStep(u)
  PROVE  TInv'
<1> USE DEF TInv
<1> USE Noted
<1>0. user[u] \in UserRow /\ user[u].files \subseteq Records
  BY DEF TypeOK, UserRow
<1>1. ASSUME NEW x \in UserRow, user' = [user EXCEPT ![u] = x]
      PROVE  user' \in [Users -> UserRow]
  BY <1>1 DEF TypeOK
<1>2. ASSUME NEW r \in Records, DeleteRecord(u, r)
      PROVE  TInv'
  <2>1. row' \in [Records -> Row \cup {NoRow}]
    BY <1>2 DEF DeleteRecord, TypeOK
  <2>2. [pc |-> "erase", files |-> {r}] \in UserRow
    BY DEF UserRow
  <2>3. user' \in [Users -> UserRow]
    BY <1>1, <1>2, <2>2 DEF DeleteRecord
  <2>4. Note("removed", {r}) /\ UNCHANGED <<file, upload, doc, batch, table, edits, faults>>
    BY <1>2 DEF DeleteRecord
  <2>5. history' \in [DOMAIN Nothing -> SUBSET Records]
    BY <2>4, NoteTypes
  <2> QED BY <2>1, <2>3, <2>4, <2>5, SameUploads, SameBatches DEF TypeOK
<1>3. CASE ReadFiles(u)
  <2>1. [pc |-> "clear", files |-> {r \in Records : Exists(r)}] \in UserRow
    BY DEF UserRow
  <2>2. user' \in [Users -> UserRow]
    BY <1>1, <1>3, <2>1 DEF ReadFiles
  <2>3. UNCHANGED <<row, file, upload, doc, batch, table, edits, faults, history>>
    BY <1>3 DEF ReadFiles
  <2> QED BY <2>2, <2>3, SameUploads, SameBatches DEF TypeOK
<1>4. CASE DeleteAllRows(u)
  <2> DEFINE gone == {r \in Records : Exists(r)}
  <2>1. row' \in [Records -> Row \cup {NoRow}]
    BY <1>4 DEF DeleteAllRows
  <2>2. [user[u] EXCEPT !.pc = "erase"] \in UserRow
    BY <1>0 DEF UserRow
  <2>3. user' \in [Users -> UserRow]
    BY <1>1, <1>4, <2>2 DEF DeleteAllRows
  <2>4. history' = [history EXCEPT !.removed = @ \cup gone,
                                   !.overtaken = @ \cup (gone \ user[u].files)]
    BY <1>4 DEF DeleteAllRows
  <2>5. gone \in SUBSET Records
    OBVIOUS
  <2> HIDE DEF gone
  <2>6. history' \in [DOMAIN Nothing -> SUBSET Records]
    BY <2>4, <2>5, HistoryTypes DEF TypeOK
  <2>7. UNCHANGED <<file, upload, doc, batch, table, edits, faults>>
    BY <1>4 DEF DeleteAllRows
  <2> QED BY <2>1, <2>3, <2>6, <2>7, SameUploads, SameBatches DEF TypeOK
<1>5. CASE EraseFile(u)
  <2>1. PICK r \in user[u].files :
          \/ /\ file' = file \ {r}
             /\ user' = [user EXCEPT ![u].files = @ \ {r}]
             /\ UNCHANGED <<faults, history>>
          \/ /\ Fault
             /\ Note("leftover", user[u].files)
             /\ user' = [user EXCEPT ![u] = Over]
             /\ UNCHANGED file
    BY <1>5 DEF EraseFile
  <2>2. [user[u] EXCEPT !.files = @ \ {r}] \in UserRow /\ Over \in UserRow
    BY <1>0 DEF UserRow, Over
  <2>3. user' \in [Users -> UserRow]
    BY <1>1, <2>1, <2>2
  <2>4. file' \subseteq Records /\ (Fault \/ UNCHANGED faults)
    BY <2>1 DEF TypeOK
  <2>5. Note("leftover", user[u].files) \/ UNCHANGED history
    BY <2>1
  <2>6. history' \in [DOMAIN Nothing -> SUBSET Records]
    BY <1>0, <2>5, NoteTypes
  <2>7. UNCHANGED <<row, upload, doc, batch, table, edits>>
    BY <1>5 DEF EraseFile
  <2> QED BY <2>3, <2>4, <2>6, <2>7, FaultTypes, SameUploads, SameBatches DEF TypeOK
<1>6. CASE DeletionEnds(u)
  <2>1. Over \in UserRow
    BY DEF UserRow, Over
  <2>2. user' \in [Users -> UserRow]
    BY <1>1, <1>6, <2>1 DEF DeletionEnds
  <2>3. UNCHANGED <<row, file, upload, doc, batch, table, edits, faults, history>>
    BY <1>6 DEF DeletionEnds
  <2> QED BY <2>2, <2>3, SameUploads, SameBatches DEF TypeOK
<1> QED BY <1>2, <1>3, <1>4, <1>5, <1>6 DEF UserStep

-----------------------------------------------------------------------------
\* Batches.

LEMMA BatchFields ==
  ASSUME TInv, NEW b \in Batches
  PROVE  /\ batch[b] \in BatchRow
         /\ batch[b].todo \subseteq Records /\ batch[b].snap \in Snapshots
         /\ batch[b].todo # {} => batch[b].op \in Working
         /\ batch[b].rec # NoRow => batch[b].rec \in batch[b].todo /\ batch[b].held \in Output
         /\ batch[b].op \in {"checklist", "bns"} => batch[b].todo \subseteq DOMAIN batch[b].snap
BY DEF TInv, TypeOK, BatchesInHand, BatchRow

\* A batch stays well typed and in hand when its new state is.
LEMMA OneBatch ==
  ASSUME TInv, NEW b \in Batches, NEW x \in BatchRow, batch' = [batch EXCEPT ![b] = x],
         x.todo # {} => x.op \in Working,
         x.rec # NoRow => x.rec \in x.todo /\ x.held \in Output,
         x.op \in {"checklist", "bns"} => x.todo \subseteq DOMAIN x.snap
  PROVE  batch' \in [Batches -> BatchRow] /\ BatchesInHand'
BY DEF TInv, TypeOK, BatchesInHand

LEMMA MadeIsOutput ==
  ASSUME TInv, NEW b \in Batches, NEW r \in batch[b].todo, NEW works \in BOOLEAN
  PROVE  Made(b, r, works) \in Output
<1>1. CASE batch[b].op = "reparse"
  BY <1>1, ParseIsOutput, EnrichedOutput DEF Made
<1>2. batch[b].op \in {"checklist", "bns"} => batch[b].snap[r] \in Output
  BY BatchFields, SnapshotOutput
<1>3. CASE batch[b].op = "checklist"
  BY <1>2, <1>3, EnrichedOutput DEF Made
<1>4. CASE batch[b].op = "bns"
  BY <1>2, <1>4 DEF Made, Output
<1>5. batch[b].op \in Working
  BY BatchFields
<1> QED BY <1>1, <1>3, <1>4, <1>5 DEF Working

LEMMA ForgetIsInHand ==
  ASSUME TInv, NEW b \in Batches, NEW r
  PROVE  /\ Forget(b, r) \in BatchRow /\ Forget(b, r).rec = NoRow
         /\ Forget(b, r).todo # {} => Forget(b, r).op \in Working
         /\ Forget(b, r).op \in {"checklist", "bns"} =>
              Forget(b, r).todo \subseteq DOMAIN Forget(b, r).snap
<1> DEFINE x == batch[b]
<1>1. x \in BatchRow /\ x.todo \subseteq Records
  BY BatchFields
<1>2. Forget(b, r) = [x EXCEPT !.todo = x.todo \ {r}, !.rec = NoRow, !.held = NoOutput]
  BY DEF Forget
<1> HIDE DEF x
<1>3. /\ Forget(b, r) \in BatchRow /\ Forget(b, r).rec = NoRow
      /\ Forget(b, r).todo = x.todo \ {r} /\ Forget(b, r).op = x.op
      /\ Forget(b, r).snap = x.snap
  BY <1>1, <1>2 DEF BatchRow
<1> QED BY <1>3, BatchFields DEF x

LEMMA UpdatedIsRow ==
  ASSUME TInv, NEW b \in Batches, batch[b].rec # NoRow, row[batch[b].rec] \in Row
  PROVE  Updated(b, batch[b].rec) \in Row
<1> DEFINE r == batch[b].rec
           held == batch[b].held
<1>1. held \in Output /\ held.from \in {"upload", "reparse"}
  BY BatchFields DEF Output
<1>2. batch[b].op \in Working
  BY BatchFields
<1> HIDE DEF held, r
<1>3. /\ [row[r] EXCEPT !.output = held, !.score = held.from, !.format = held.from] \in Row
      /\ [row[r] EXCEPT !.output = held, !.score = held.from] \in Row
      /\ [row[r] EXCEPT !.output = held] \in Row
  BY <1>1 DEF Row, r
<1> QED BY <1>2, <1>3 DEF Updated, Working, r, held

LEMMA BatchTypes ==
  ASSUME TInv, NEW b \in Batches, BatchStep(b)
  PROVE  TInv'
<1> USE DEF TInv
<1>1. ASSUME NEW op \in Working, BeginBatch(b, op) PROVE TInv'
  <2> DEFINE x == [Idle EXCEPT !.op = op, !.todo = DOMAIN Outputs,
                               !.snap = IF op = "reparse" THEN <<>> ELSE Outputs]
  <2>1. batch' = [batch EXCEPT ![b] = x]
    BY <1>1 DEF BeginBatch
  <2>2. (IF op = "reparse" THEN <<>> ELSE Outputs) \in Snapshots
    BY EmptySnapshot, OutputsIsSnapshot
  <2>3. DOMAIN Outputs \subseteq Records
    BY OutputsIsSnapshot
  <2>4. x \in BatchRow
    BY <2>2, <2>3 DEF Idle, BatchRow
  <2>5. x.op = op /\ x.rec = NoRow /\ x.todo = DOMAIN Outputs
        /\ (op # "reparse" => x.snap = Outputs)
    BY DEF Idle
  <2> HIDE DEF x
  <2>6. batch' \in [Batches -> BatchRow] /\ BatchesInHand'
    BY <2>1, <2>4, <2>5, OneBatch DEF Working
  <2>7. UNCHANGED <<row, file, upload, doc, user, table, edits, faults, history>>
    BY <1>1 DEF BeginBatch
  <2> QED BY <2>6, <2>7, SameUploads DEF TypeOK
<1>2. CASE MakeOutput(b)
  <2>1. PICK r \in batch[b].todo, works \in BOOLEAN :
          /\ ChecklistWorks(works)
          /\ batch' = [batch EXCEPT ![b].rec = r, ![b].held = Made(b, r, works)]
    BY <1>2 DEF MakeOutput
  <2> DEFINE x == [batch[b] EXCEPT !.rec = r, !.held = Made(b, r, works)]
  <2>2. Made(b, r, works) \in Output
    BY MadeIsOutput
  <2>3. x \in BatchRow /\ x.rec = r /\ x.held = Made(b, r, works)
        /\ x.op = batch[b].op /\ x.todo = batch[b].todo /\ x.snap = batch[b].snap
    BY <2>2, BatchFields DEF BatchRow
  <2>4. batch' = [batch EXCEPT ![b] = x]
    BY <2>1 DEF TypeOK
  <2> HIDE DEF x
  <2>5. batch' \in [Batches -> BatchRow] /\ BatchesInHand'
    BY <2>2, <2>3, <2>4, OneBatch, BatchFields
  <2>6. Fault \/ UNCHANGED faults
    BY <2>1 DEF ChecklistWorks
  <2>7. UNCHANGED <<row, file, upload, doc, user, table, edits, history>>
    BY <1>2 DEF MakeOutput
  <2> QED BY <2>5, <2>6, <2>7, FaultTypes, SameUploads DEF TypeOK
<1>3. CASE PassOver(b)
  <2>1. PICK r \in batch[b].todo :
          (Fault \/ UNCHANGED faults) /\ batch' = [batch EXCEPT ![b] = Forget(b, r)]
    BY <1>3 DEF PassOver
  <2>2. batch' \in [Batches -> BatchRow] /\ BatchesInHand'
    BY <2>1, ForgetIsInHand, OneBatch
  <2>3. UNCHANGED <<row, file, upload, doc, user, table, edits, history>>
    BY <1>3 DEF PassOver
  <2> QED BY <2>1, <2>2, <2>3, FaultTypes, SameUploads DEF TypeOK
<1>4. CASE WriteOutput(b)
  <2> DEFINE r == batch[b].rec
  <2>1. r \in Records
    BY <1>4, BatchFields DEF WriteOutput
  <2>2. row' \in [Records -> Row \cup {NoRow}]
    BY <1>4, <2>1, UpdatedIsRow DEF WriteOutput, Exists, TypeOK
  <2>3. batch' = [batch EXCEPT ![b] = Forget(b, r)]
    BY <1>4 DEF WriteOutput
  <2>4. batch' \in [Batches -> BatchRow] /\ BatchesInHand'
    BY <2>3, ForgetIsInHand, OneBatch
  <2>5. \E S \in SUBSET Records : history' = [history EXCEPT !.overwritten = S]
    <3>1. history.overwritten \in SUBSET Records
      BY Noted, HistoryTypes
    <3> DEFINE S == IF Exists(r) /\ Overtaken(b, r) THEN history.overwritten \cup {r}
                    ELSE IF batch[b].op = "reparse" THEN history.overwritten \ {r}
                    ELSE history.overwritten
    <3>2. S \in SUBSET Records
      BY <2>1, <3>1
    <3>3. history' = [history EXCEPT !.overwritten = S]
      BY <1>4 DEF WriteOutput
    <3> QED BY <3>2, <3>3
  <2>6. history' \in [DOMAIN Nothing -> SUBSET Records]
    BY <2>5 DEF TypeOK
  <2>7. UNCHANGED <<file, upload, doc, user, table, edits, faults>>
    BY <1>4 DEF WriteOutput
  <2> QED BY <2>2, <2>4, <2>6, <2>7, SameUploads DEF TypeOK
<1>5. CASE BatchEnds(b)
  <2>1. Finished \in BatchRow /\ Finished.rec = NoRow /\ Finished.todo = {}
    BY EmptySnapshot DEF Finished, Idle, BatchRow
  <2>2. batch' = [batch EXCEPT ![b] = Finished]
    BY <1>5 DEF BatchEnds
  <2>3. batch' \in [Batches -> BatchRow] /\ BatchesInHand'
    BY <2>1, <2>2, OneBatch
  <2>4. UNCHANGED <<row, file, upload, doc, user, table, edits, faults, history>>
    BY <1>5 DEF BatchEnds
  <2> QED BY <2>3, <2>4, SameUploads DEF TypeOK
<1> QED BY <1>1, <1>2, <1>3, <1>4, <1>5 DEF BatchStep, Working

-----------------------------------------------------------------------------
LEMMA CrashTypes ==
  ASSUME TInv, Crash
  PROVE  TInv'
<1> USE DEF TInv
<1>1. \A r \in Records : upload[r] \in UploadRow
  BY DEF TypeOK
<1>2. upload' \in [Records -> UploadRow] /\ UploadsInHand'
  <2>1. \A r \in Records : [upload[r] EXCEPT !.pc = "gone"] \in UploadRow
                           /\ [upload[r] EXCEPT !.pc = "gone"].pc = "gone"
    BY <1>1, UploadMoves DEF UploadPlaces, Ended
  <2> QED BY <1>1, <2>1 DEF Crash, UploadsInHand, Ended
<1>3. user' \in [Users -> UserRow]
  BY DEF Crash, TypeOK, UserRow, Over
<1>4. batch' \in [Batches -> BatchRow] /\ BatchesInHand'
  <2>1. Finished \in BatchRow /\ Finished.rec = NoRow /\ Finished.todo = {} /\ Finished.op = "over"
    BY EmptySnapshot DEF Finished, Idle, BatchRow
  <2>2. \A b \in Batches : batch'[b] \in {batch[b], Finished}
    BY DEF Crash
  <2>3. batch' \in [Batches -> BatchRow]
    BY <2>1, <2>2 DEF Crash, TypeOK
  <2> QED BY <2>1, <2>2, <2>3 DEF BatchesInHand
<1>5. history' \in [DOMAIN Nothing -> SUBSET Records]
  <2> DEFINE S == {r \in Records : upload[r].pc = "insert"} \cup UNION {user[u].files : u \in Users}
  <2>1. S \in SUBSET Records
    BY DEF TypeOK, UserRow
  <2>2. Note("leftover", S)
    BY DEF Crash
  <2> QED BY <2>1, <2>2, Noted, NoteTypes
<1>6. Fault /\ UNCHANGED <<row, file, doc, table, edits>>
  BY DEF Crash
<1> QED BY <1>2, <1>3, <1>4, <1>5, <1>6, FaultTypes DEF TypeOK

LEMMA SaveTypes ==
  ASSUME TInv, NEW q \in Edited, SaveQuestion(q)
  PROVE  TInv'
<1> USE DEF TInv
<1>1. table' \in [Questions -> [version : Versions \cup {0, 1}, active : BOOLEAN]]
  BY DEF SaveQuestion, QuestionRow, TypeOK
<1>2. edits' \in 0..MaxEdits
  BY BoundsAssumption DEF SaveQuestion, TypeOK
<1>3. UNCHANGED <<row, file, upload, doc, user, batch, faults, history>>
  BY DEF SaveQuestion
<1> QED BY <1>1, <1>2, <1>3, SameUploads, SameBatches DEF TypeOK

LEMMA NextTypes == TInv /\ [Next]_vars => TInv'
<1>1. TInv /\ UNCHANGED vars => TInv'
  BY SameUploads, SameBatches DEF vars, TInv, TypeOK
<1> QED BY <1>1, UploadTypes, UserTypes, BatchTypes, CrashTypes, SaveTypes DEF Next

\* Every reachable state of the history is well typed.
THEOREM TypeCorrect == Spec => []TypeOK
<1>1. Spec => []TInv
  BY InitTypes, NextTypes, PTL DEF Spec
<1>2. TInv => TypeOK
  BY DEF TInv
<1> QED BY <1>1, <1>2, PTL

-----------------------------------------------------------------------------
(* Rows and files. *)

\* A row comes only after its file, and a file goes only after its row: what a deletion
\* is about to erase was inserted once, so that it cannot come back.
NotYetInserted == \A r \in Records : upload[r].pc \in BeforeInsert => ~Exists(r)
FileComesFirst == \A r \in Records : upload[r].pc = "insert" => r \in file
OnlyKnownFiles ==
  \A u \in Users : user[u].pc \in {"clear", "erase"} =>
    \A r \in user[u].files : upload[r].pc \notin BeforeInsert
FileGoesLast ==
  \A u \in Users : user[u].pc = "erase" => \A r \in user[u].files : ~Exists(r)

FInv == NotYetInserted /\ FileComesFirst /\ OnlyKnownFiles /\ FileGoesLast /\ FilesAreReadable

\* What an upload does to another record, and to whoever else is at work: nothing.
LEMMA UploadFrame ==
  ASSUME TInv, NEW r \in Records, UploadStep(r)
  PROVE  /\ \A s \in Records \ {r} :
              /\ upload'[s] = upload[s] /\ row'[s] = row[s] /\ doc'[s] = doc[s]
              /\ s \in file' <=> s \in file
         /\ UNCHANGED <<user, batch, table>>
<1> USE DEF TInv, TypeOK, Goto
<1>1. CASE Begin(r)
  BY <1>1 DEF Begin
<1>2. CASE ParseUpload(r)
  BY <1>2 DEF ParseUpload
<1>3. CASE ParseFails(r)
  BY <1>3 DEF ParseFails
<1>4. CASE PutFile(r)
  BY <1>4 DEF PutFile
<1>5. CASE InsertRow(r)
  BY <1>5 DEF InsertRow
<1>6. CASE InsertRefused(r)
  BY <1>6 DEF InsertRefused
<1>7. CASE LinkToCase(r)
  BY <1>7 DEF LinkToCase
<1>8. CASE UpdateDocument(r)
  BY <1>8 DEF UpdateDocument
<1>9. CASE Answer(r)
  BY <1>9 DEF Answer
<1>10. CASE Disconnect(r)
  BY <1>10 DEF Disconnect
<1> QED BY <1>1, <1>2, <1>3, <1>4, <1>5, <1>6, <1>7, <1>8, <1>9, <1>10 DEF UploadStep

LEMMA NoteGrows ==
  ASSUME TypeOK, NEW what \in DOMAIN Nothing, NEW S, Note(what, S) \/ UNCHANGED history
  PROVE  /\ \A h \in DOMAIN Nothing : history[h] \subseteq history'[h]
         /\ Note(what, S) => history'[what] = history[what] \cup S
         /\ \A h \in DOMAIN Nothing \ {what} : history'[h] = history[h]
BY DEF Note, TypeOK

\* Where an upload goes from where, and what becomes of its row and its file meanwhile.
LEMMA UploadMove ==
  ASSUME TInv, NEW r \in Records, UploadStep(r)
  PROVE  LET pc == upload[r].pc  next == upload'[r].pc IN
         \/ /\ pc \in {"new", "parsing", "put"} /\ next \in {"parsing", "put", "error", "unsaved", "gone"}
            /\ UNCHANGED row
            /\ UNCHANGED file \/ (file' = file \cup {r} /\ r \in history'.leftover)
         \/ pc = "put" /\ next = "insert" /\ UNCHANGED row /\ file' = file \cup {r}
         \/ /\ pc = "insert" /\ next \in {"link", "queue"}
            /\ row'[r] = InsertedRow(upload[r].output) /\ UNCHANGED file
         \/ /\ pc = "insert" /\ next = "gone" /\ r \in history'.leftover
            /\ (UNCHANGED row \/ row'[r] = InsertedRow(upload[r].output)) /\ UNCHANGED file
         \/ /\ pc = "insert" /\ next = "unsaved"
            /\ \/ UNCHANGED row /\ (r \notin file' \/ r \in history'.leftover)
               \/ row'[r] = InsertedRow(upload[r].output) /\ r \in history'.lost
         \/ /\ pc \in {"link", "document", "queue"}
            /\ next \in {"document", "queue", "done", "error", "gone"}
            /\ UNCHANGED file /\ (row'[r] # NoRow <=> row[r] # NoRow)
<1> USE DEF TInv, TypeOK, Goto
<1>1. CASE Begin(r)
  BY <1>1 DEF Begin, UploadRow
<1>2. CASE ParseUpload(r)
  BY <1>2 DEF ParseUpload, UploadRow
<1>3. CASE ParseFails(r)
  BY <1>3 DEF ParseFails, UploadRow
<1>4. CASE PutFile(r)
  BY <1>4 DEF PutFile, UploadRow
<1>5. CASE InsertRow(r)
  BY <1>5 DEF InsertRow, UploadRow
<1>6. CASE InsertRefused(r)
  BY <1>6 DEF InsertRefused, UploadRow, Note, Nothing
<1>7. CASE LinkToCase(r)
  <2>1. row[r] # NoRow => row'[r] \in Row
    BY <1>7, LinkedIsRow DEF LinkToCase, Exists
  <2>2. row[r] = NoRow => row'[r] = NoRow
    BY <1>7 DEF LinkToCase, Exists
  <2>3. upload'[r].pc = "document" /\ UNCHANGED file /\ upload[r].pc = "link"
    BY <1>7 DEF LinkToCase, UploadRow
  <2> QED BY <2>1, <2>2, <2>3, RowIsNotNoRow
<1>8. CASE UpdateDocument(r)
  BY <1>8 DEF UpdateDocument, UploadRow
<1>9. CASE Answer(r)
  BY <1>9 DEF Answer, UploadRow
<1>10. CASE Disconnect(r)
  BY <1>10 DEF Disconnect, UploadRow, Note, Nothing
<1> QED BY <1>1, <1>2, <1>3, <1>4, <1>5, <1>6, <1>7, <1>8, <1>9, <1>10 DEF UploadStep

\* Marks on records stay, all but the one a re-parse takes back.
LEMMA MarksStay ==
  ASSUME TInv, [Next]_vars, NEW what \in DOMAIN Nothing \ {"overwritten"}
  PROVE  history[what] \subseteq history'[what]
<1> USE Noted DEF TInv
<1>1. ASSUME NEW r \in Records, UploadStep(r) PROVE history[what] \subseteq history'[what]
  BY <1>1, NoteGrows DEF UploadStep, Begin, ParseUpload, ParseFails, PutFile, InsertRow,
     InsertRefused, LinkToCase, UpdateDocument, Answer, Disconnect
<1>2. ASSUME NEW u \in Users, UserStep(u) PROVE history[what] \subseteq history'[what]
  <2>1. CASE DeleteAllRows(u)
    BY <2>1 DEF DeleteAllRows, TypeOK
  <2>2. CASE ~DeleteAllRows(u)
    BY <1>2, <2>2, NoteGrows DEF UserStep, DeleteRecord, ReadFiles, EraseFile, DeletionEnds
  <2> QED BY <2>1, <2>2
<1>3. ASSUME NEW b \in Batches, BatchStep(b) PROVE history[what] \subseteq history'[what]
  BY <1>3 DEF BatchStep, BeginBatch, MakeOutput, PassOver, WriteOutput, BatchEnds, TypeOK
<1>4. CASE Crash
  BY <1>4, NoteGrows DEF Crash
<1>5. CASE UNCHANGED history
  BY <1>5
<1> QED BY <1>1, <1>2, <1>3, <1>4, <1>5 DEF Next, SaveQuestion, vars

LEMMA UploadFiles ==
  ASSUME TInv, FInv, NEW r \in Records, UploadStep(r)
  PROVE  FInv'
<1> USE DEF TInv, FInv
<1>1. history.lost \subseteq history'.lost
  BY MarksStay, Noted DEF Next
<1>2. \A s \in Records : Exists(s)' => row'[s] # NoRow
  BY DEF Exists
<1>3. NotYetInserted'
  BY UploadFrame, UploadMove DEF NotYetInserted, BeforeInsert, Exists
<1>4. FileComesFirst'
  BY UploadFrame, UploadMove DEF FileComesFirst
<1>5. OnlyKnownFiles'
  BY UploadFrame, UploadMove DEF OnlyKnownFiles, BeforeInsert, TypeOK, UserRow
<1>6. FileGoesLast'
  BY UploadFrame, UploadMove DEF FileGoesLast, OnlyKnownFiles, BeforeInsert, Exists, TypeOK, UserRow
<1>7. FilesAreReadable'
  <2>1. ASSUME NEW s \in Records \ {r}, Exists(s)' PROVE Served(s)' \/ s \in history'.lost
    BY <1>1, <2>1, UploadFrame DEF Exists, Served, FilesAreReadable
  <2>2. ASSUME Exists(r)' PROVE Served(r)' \/ r \in history'.lost
    BY <1>1, <2>2, UploadMove DEF Exists, Served, FilesAreReadable, NotYetInserted, BeforeInsert, FileComesFirst
  <2> QED BY <2>1, <2>2 DEF FilesAreReadable
<1> QED BY <1>3, <1>4, <1>5, <1>6, <1>7

LEMMA UserFiles ==
  ASSUME TInv, FInv, NEW u \in Users, UserStep(u)
  PROVE  FInv'
<1> USE DEF TInv, FInv, TypeOK
<1>0. history.lost \subseteq history'.lost
  BY MarksStay, Noted DEF Next
<1>1. ASSUME NEW r \in Records, DeleteRecord(u, r) PROVE FInv'
  <2>1. /\ row' = [row EXCEPT ![r] = NoRow] /\ Exists(r)
        /\ user' = [user EXCEPT ![u] = [pc |-> "erase", files |-> {r}]]
        /\ UNCHANGED <<file, upload>>
    BY <1>1 DEF DeleteRecord
  <2>2. NotYetInserted' /\ FileComesFirst'
    BY <2>1 DEF NotYetInserted, FileComesFirst, Exists
  <2>3. OnlyKnownFiles' /\ FileGoesLast'
    BY <2>1 DEF OnlyKnownFiles, FileGoesLast, NotYetInserted, Exists
  <2>4. FilesAreReadable'
    BY <1>0, <2>1 DEF FilesAreReadable, Served, Exists
  <2> QED BY <2>2, <2>3, <2>4
<1>2. CASE ReadFiles(u)
  <2>1. /\ user' = [user EXCEPT ![u] = [pc |-> "clear", files |-> {r \in Records : Exists(r)}]]
        /\ UNCHANGED <<row, file, upload, history>>
    BY <1>2 DEF ReadFiles
  <2>2. OnlyKnownFiles' /\ FileGoesLast'
    BY <2>1 DEF OnlyKnownFiles, FileGoesLast, NotYetInserted, Exists
  <2> QED BY <2>1, <2>2 DEF NotYetInserted, FileComesFirst, FilesAreReadable, Served, Exists
<1>3. CASE DeleteAllRows(u)
  <2>1. /\ row' = [r \in Records |-> NoRow] /\ user[u].pc = "clear"
        /\ user' = [user EXCEPT ![u].pc = "erase"]
        /\ UNCHANGED <<file, upload>>
    BY <1>3 DEF DeleteAllRows
  <2>2. \A r \in Records : ~Exists(r)'
    BY <2>1 DEF Exists
  <2>3. OnlyKnownFiles'
    BY <2>1 DEF OnlyKnownFiles, UserRow
  <2>4. FileGoesLast'
    BY <2>1, <2>2 DEF FileGoesLast, UserRow
  <2> QED BY <2>1, <2>2, <2>3, <2>4 DEF NotYetInserted, FileComesFirst, FilesAreReadable
<1>4. CASE EraseFile(u)
  <2>1. PICK r \in user[u].files :
          \/ file' = file \ {r} /\ user' = [user EXCEPT ![u].files = @ \ {r}]
          \/ file' = file /\ user' = [user EXCEPT ![u] = Over]
    BY <1>4 DEF EraseFile
  <2>2. user[u].pc = "erase" /\ UNCHANGED <<row, upload>>
    BY <1>4 DEF EraseFile
  <2>3. r \in Records /\ ~Exists(r) /\ upload[r].pc \notin BeforeInsert
    BY <2>2 DEF OnlyKnownFiles, FileGoesLast, UserRow
  <2>4. NotYetInserted' /\ FileComesFirst'
    BY <2>1, <2>2, <2>3 DEF NotYetInserted, FileComesFirst, Exists, BeforeInsert
  <2>5. OnlyKnownFiles' /\ FileGoesLast'
    <3>1. user'[u].files \subseteq user[u].files
      BY <2>1 DEF Over, UserRow
    <3>2. \A v \in Users \ {u} : user'[v] = user[v]
      BY <2>1
    <3> QED BY <2>2, <3>1, <3>2 DEF OnlyKnownFiles, FileGoesLast, Exists
  <2>6. FilesAreReadable'
    BY <1>0, <2>1, <2>2, <2>3 DEF FilesAreReadable, Served, Exists
  <2> QED BY <2>4, <2>5, <2>6
<1>5. CASE DeletionEnds(u)
  <2>1. user' = [user EXCEPT ![u] = Over] /\ UNCHANGED <<row, file, upload, history>>
    BY <1>5 DEF DeletionEnds
  <2>2. OnlyKnownFiles' /\ FileGoesLast'
    BY <2>1 DEF OnlyKnownFiles, FileGoesLast, Exists, Over
  <2> QED BY <2>1, <2>2 DEF NotYetInserted, FileComesFirst, FilesAreReadable, Served, Exists
<1> QED BY <1>1, <1>2, <1>3, <1>4, <1>5 DEF UserStep

\* A batch neither makes nor deletes a row.
LEMMA BatchKeepsRows ==
  ASSUME TInv, NEW b \in Batches, BatchStep(b)
  PROVE  /\ \A r \in Records : Exists(r)' <=> Exists(r)
         /\ UNCHANGED <<file, upload, doc, user>>
<1> USE DEF TInv
<1>1. CASE WriteOutput(b)
  <2> DEFINE r == batch[b].rec
  <2>1. r # NoRow
    BY <1>1 DEF WriteOutput
  <2>2. r \in Records
    BY <2>1, BatchFields
  <2>3. Exists(r) => Updated(b, r) \in Row
    BY <2>1, <2>2, UpdatedIsRow DEF Exists, TypeOK
  <2>4. row' = IF Exists(r) THEN [row EXCEPT ![r] = Updated(b, r)] ELSE row
    BY <1>1 DEF WriteOutput
  <2> HIDE DEF r
  <2>5. \A s \in Records : Exists(s)' <=> Exists(s)
    <3>1. CASE Exists(r)
      <4>1. row'[r] = Updated(b, r) /\ \A s \in Records \ {r} : row'[s] = row[s]
        BY <2>2, <2>4, <3>1 DEF TypeOK
      <4> QED BY <2>3, <3>1, <4>1, RowIsNotNoRow DEF Exists
    <3>2. CASE ~Exists(r)
      BY <2>4, <3>2 DEF Exists
    <3> QED BY <3>1, <3>2
  <2> QED BY <1>1, <2>5 DEF WriteOutput
<1>2. CASE ~WriteOutput(b)
  <2>1. UNCHANGED <<row, file, upload, doc, user>>
    BY <1>2 DEF BatchStep, BeginBatch, MakeOutput, PassOver, BatchEnds
  <2> QED BY <2>1 DEF Exists
<1> QED BY <1>1, <1>2

LEMMA BatchFiles ==
  ASSUME TInv, FInv, NEW b \in Batches, BatchStep(b)
  PROVE  FInv'
<1>1. history.lost \subseteq history'.lost
  BY MarksStay, Noted DEF Next
<1> QED BY <1>1, BatchKeepsRows DEF FInv, NotYetInserted, FileComesFirst, OnlyKnownFiles,
           FileGoesLast, FilesAreReadable, Served, TInv, TypeOK, UserRow

LEMMA CrashFiles ==
  ASSUME TInv, FInv, Crash
  PROVE  FInv'
<1> USE DEF TInv, FInv, TypeOK
<1>1. history.lost \subseteq history'.lost
  BY MarksStay, Noted DEF Next
<1>2. \A r \in Records : upload'[r].pc \in {upload[r].pc, "gone"} /\ (upload'[r].pc = upload[r].pc \/ upload'[r].pc = "gone")
  BY DEF Crash, UploadRow
<1>3. \A u \in Users : user'[u] = user[u] \/ user'[u].pc = "over"
  BY DEF Crash, Over
<1>4. UNCHANGED <<row, file>>
  BY DEF Crash
<1>5. NotYetInserted' /\ FileComesFirst'
  BY <1>2, <1>4 DEF NotYetInserted, FileComesFirst, Exists, BeforeInsert
<1>6. OnlyKnownFiles' /\ FileGoesLast'
  BY <1>2, <1>3, <1>4 DEF OnlyKnownFiles, FileGoesLast, Exists, BeforeInsert, UserRow
<1>7. FilesAreReadable'
  BY <1>1, <1>4 DEF FilesAreReadable, Served, Exists
<1> QED BY <1>5, <1>6, <1>7

LEMMA InitFiles == Init => FInv
<1> SUFFICES ASSUME Init PROVE FInv
  OBVIOUS
<1>1. \A r \in Records : Exists(r) => r \in Stored
  BY DEF Init, Exists
<1>2. \A r \in Records : upload[r].pc = IF r \in Stored THEN "done" ELSE "new"
  BY DEF Init
<1>3. NotYetInserted /\ FileComesFirst
  BY <1>1, <1>2 DEF NotYetInserted, FileComesFirst, BeforeInsert
<1>4. OnlyKnownFiles /\ FileGoesLast
  BY DEF Init, OnlyKnownFiles, FileGoesLast
<1>5. FilesAreReadable
  BY <1>1 DEF Init, FilesAreReadable, Served
<1> QED BY <1>3, <1>4, <1>5 DEF FInv

LEMMA NextFiles == TInv /\ FInv /\ [Next]_vars => FInv'
<1> SUFFICES ASSUME TInv, FInv, [Next]_vars PROVE FInv'
  OBVIOUS
<1>1. CASE UNCHANGED <<row, file, upload, user, history>>
  BY <1>1 DEF FInv, NotYetInserted, FileComesFirst, OnlyKnownFiles, FileGoesLast,
     FilesAreReadable, Served, Exists
<1>2. CASE \E q \in Edited : SaveQuestion(q)
  BY <1>1, <1>2 DEF SaveQuestion
<1> QED BY <1>1, <1>2, UploadFiles, UserFiles, BatchFiles, CrashFiles DEF Next, vars

\* Whatever uploads, deletions, batches and failures interleave, a row in the history has
\* its file, unless the answer to its insert was lost.
THEOREM RowsHaveFiles == Spec => []FilesAreReadable
<1>1. Spec => [](TInv /\ FInv)
  BY InitTypes, NextTypes, InitFiles, NextFiles, PTL DEF Spec
<1>2. FInv => FilesAreReadable
  BY DEF FInv
<1> QED BY <1>1, <1>2, PTL

-----------------------------------------------------------------------------
\* A file without a row is one that is being saved or erased, or one a failure or a
\* clear has left over.
FilesAccountedFor ==
  \A r \in file :
    \/ Exists(r) \/ r \in history.leftover \cup history.overtaken
    \/ upload[r].pc = "insert"
    \/ \E u \in Users : user[u].pc = "erase" /\ r \in user[u].files

LEMMA NextAccounted == TInv /\ FilesAccountedFor /\ [Next]_vars => FilesAccountedFor'
<1> SUFFICES ASSUME TInv, FilesAccountedFor, [Next]_vars PROVE FilesAccountedFor'
  OBVIOUS
<1> USE DEF TInv, TypeOK
<1>0. history.leftover \subseteq history'.leftover /\ history.overtaken \subseteq history'.overtaken
  BY MarksStay, Noted
<1>1. ASSUME NEW r \in Records, UploadStep(r) PROVE FilesAccountedFor'
  <2>1. ASSUME NEW s \in file', s # r
        PROVE  \/ Exists(s)' \/ s \in history'.leftover \cup history'.overtaken
               \/ upload'[s].pc = "insert"
               \/ \E u \in Users : user'[u].pc = "erase" /\ s \in user'[u].files
    <3>0. file' \subseteq Records
      BY <1>1, UploadTypes
    <3>1. s \in Records /\ s \in file
      BY <1>1, <2>1, <3>0, UploadFrame
    <3>2. upload'[s] = upload[s] /\ row'[s] = row[s] /\ UNCHANGED user
      BY <1>1, <2>1, <3>1, UploadFrame
    <3> QED BY <1>0, <3>1, <3>2 DEF FilesAccountedFor, Exists
  <2>2. ASSUME r \in file'
        PROVE  \/ Exists(r)' \/ r \in history'.leftover \cup history'.overtaken
               \/ upload'[r].pc = "insert"
               \/ \E u \in Users : user'[u].pc = "erase" /\ r \in user'[u].files
    <3>1. UNCHANGED user
      BY <1>1, UploadFrame
    <3>2. upload[r].pc = "insert" => InsertedRow(upload[r].output) # NoRow
      BY InsertedIsRow, RowIsNotNoRow DEF UploadsInHand
    <3> QED BY <1>0, <1>1, <2>2, <3>1, <3>2, UploadMove DEF FilesAccountedFor, Exists
  <2> QED BY <2>1, <2>2 DEF FilesAccountedFor
<1>2. ASSUME NEW u \in Users, UserStep(u) PROVE FilesAccountedFor'
  <2>1. ASSUME NEW r \in Records, DeleteRecord(u, r) PROVE FilesAccountedFor'
    <3>1. row' = [row EXCEPT ![r] = NoRow] /\ user[u].pc = "idle" /\ UNCHANGED <<file, upload>>
      BY <2>1 DEF DeleteRecord
    <3>2. user' = [user EXCEPT ![u] = [pc |-> "erase", files |-> {r}]]
      BY <2>1 DEF DeleteRecord
    <3>3. user'[u].pc = "erase" /\ r \in user'[u].files
      BY <3>2
    <3>4. \A v \in Users : user[v].pc = "erase" => user'[v] = user[v]
      BY <3>1, <3>2
    <3> QED BY <1>0, <3>1, <3>3, <3>4 DEF FilesAccountedFor, Exists
  <2>2. CASE ReadFiles(u)
    <3>1. UNCHANGED <<row, file, upload>> /\ \A v \in Users : user[v].pc = "erase" => user'[v] = user[v]
      BY <2>2 DEF ReadFiles
    <3> QED BY <1>0, <3>1 DEF FilesAccountedFor, Exists
  <2>3. CASE DeleteAllRows(u)
    <3>1. UNCHANGED <<file, upload>> /\ user[u].pc = "clear"
      BY <2>3 DEF DeleteAllRows
    <3>2. user'[u].pc = "erase" /\ user'[u].files = user[u].files
      BY <2>3 DEF DeleteAllRows, UserRow
    <3>3. \A v \in Users : user[v].pc = "erase" => user'[v] = user[v]
      BY <2>3 DEF DeleteAllRows
    <3>4. history'.overtaken = history.overtaken \cup ({r \in Records : Exists(r)} \ user[u].files)
      BY <2>3 DEF DeleteAllRows, Nothing
    <3> QED BY <1>0, <3>1, <3>2, <3>3, <3>4 DEF FilesAccountedFor
  <2>4. CASE EraseFile(u)
    <3>1. PICK r \in user[u].files :
            \/ file' = file \ {r} /\ user' = [user EXCEPT ![u].files = @ \ {r}]
            \/ /\ Note("leftover", user[u].files)
               /\ user' = [user EXCEPT ![u] = Over] /\ UNCHANGED file
      BY <2>4 DEF EraseFile
    <3>2. UNCHANGED <<row, upload>> /\ user[u].pc = "erase"
      BY <2>4 DEF EraseFile
    <3>3. \A v \in Users \ {u} : user'[v] = user[v]
      BY <3>1
    <3>4. CASE file' = file \ {r} /\ user' = [user EXCEPT ![u].files = @ \ {r}]
      <4>1. user'[u].pc = "erase" /\ user'[u].files = user[u].files \ {r}
        BY <3>2, <3>4 DEF UserRow
      <4> QED BY <1>0, <3>2, <3>3, <3>4, <4>1 DEF FilesAccountedFor, Exists
    <3>5. CASE Note("leftover", user[u].files) /\ UNCHANGED file
      <4>1. user[u].files \subseteq history'.leftover
        BY <3>5, NoteGrows, Noted
      <4> QED BY <1>0, <3>2, <3>3, <3>5, <4>1 DEF FilesAccountedFor, Exists
    <3> QED BY <3>1, <3>4, <3>5
  <2>5. CASE DeletionEnds(u)
    <3>1. UNCHANGED <<row, file, upload>> /\ user[u].files = {}
          /\ \A v \in Users \ {u} : user'[v] = user[v]
      BY <2>5 DEF DeletionEnds
    <3> QED BY <1>0, <3>1 DEF FilesAccountedFor, Exists
  <2> QED BY <1>2, <2>1, <2>2, <2>3, <2>4, <2>5 DEF UserStep
<1>3. ASSUME NEW b \in Batches, BatchStep(b) PROVE FilesAccountedFor'
  BY <1>0, <1>3, BatchKeepsRows DEF FilesAccountedFor
<1>4. CASE Crash
  <2> DEFINE S == {r \in Records : upload[r].pc = "insert"} \cup UNION {user[u].files : u \in Users}
  <2>1. S \subseteq history'.leftover
    BY <1>4, NoteGrows, Noted DEF Crash
  <2>2. UNCHANGED <<row, file>>
    BY <1>4 DEF Crash
  <2> QED BY <1>0, <2>1, <2>2 DEF FilesAccountedFor, Exists
<1>5. CASE UNCHANGED <<row, file, upload, user>>
  BY <1>0, <1>5 DEF FilesAccountedFor, Exists
<1> QED BY <1>1, <1>2, <1>3, <1>4, <1>5 DEF Next, SaveQuestion, vars

\* Once all is quiet every file has its row, but for what failures and clears left over.
THEOREM FilesHaveRows == Spec => []NoForgottenFile
<1>1. Init => FilesAccountedFor
  <2> SUFFICES ASSUME Init PROVE FilesAccountedFor
    OBVIOUS
  <2>1. InsertedRow(Parse("upload", FALSE)) # NoRow
    BY ParseIsOutput, InsertedIsRow, RowIsNotNoRow
  <2> QED BY <2>1, StoredAssumption DEF Init, FilesAccountedFor, Exists
<1>2. TInv /\ FilesAccountedFor => NoForgottenFile
  BY DEF TInv, TypeOK, FilesAccountedFor, NoForgottenFile, Quiet, Ended
<1>3. Spec => [](TInv /\ FilesAccountedFor)
  BY <1>1, InitTypes, NextTypes, NextAccounted, PTL DEF Spec
<1> QED BY <1>2, <1>3, PTL

-----------------------------------------------------------------------------
(* Columns and outputs. *)

Agrees(x) == x.score = x.output.from /\ x.format = x.output.from

ColumnsInv == \A r \in Records : Exists(r) /\ r \notin history.overwritten => Agrees(row[r])

LEMMA ColumnsFollow == ColumnsInv <=> ColumnsFollowTheParse
BY DEF ColumnsInv, ColumnsFollowTheParse, Agrees, Listed

LEMMA InsertedAgrees ==
  ASSUME NEW o \in Output
  PROVE  Agrees(InsertedRow(o))
BY InsertedIsRow DEF Agrees

LEMMA LinkedAgrees ==
  ASSUME NEW x \in Row
  PROVE  Agrees([x EXCEPT !.linked = TRUE]) <=> Agrees(x)
BY DEF Agrees, Row

\* What the update of a batch leaves in the columns that are listed.
LEMMA UpdatedColumns ==
  ASSUME TInv, NEW b \in Batches, batch[b].rec # NoRow, row[batch[b].rec] \in Row
  PROVE  LET r == batch[b].rec  from == batch[b].held.from IN
         /\ Updated(b, r).output.from = from
         /\ Updated(b, r).score =
              IF batch[b].op \in {"reparse", "checklist"} THEN from ELSE row[r].score
         /\ Updated(b, r).format = IF batch[b].op = "reparse" THEN from ELSE row[r].format
<1> DEFINE r == batch[b].rec
           held == batch[b].held
<1>1. batch[b].op \in Working
  BY BatchFields
<1>2. row[r] \in Row
  OBVIOUS
<1>3. Updated(b, r) =
        CASE batch[b].op = "reparse" ->
               [row[r] EXCEPT !.output = held, !.score = held.from, !.format = held.from]
          [] batch[b].op = "checklist" -> [row[r] EXCEPT !.output = held, !.score = held.from]
          [] batch[b].op = "bns" -> [row[r] EXCEPT !.output = held]
  BY DEF Updated
<1> HIDE DEF held, r
<1>4. CASE batch[b].op = "reparse"
  BY <1>2, <1>3, <1>4 DEF Row, held, r
<1>5. CASE batch[b].op = "checklist"
  BY <1>2, <1>3, <1>5 DEF Row, held, r
<1>6. CASE batch[b].op = "bns"
  BY <1>2, <1>3, <1>6 DEF Row, held, r
<1> QED BY <1>1, <1>4, <1>5, <1>6 DEF Working

\* What an upload leaves in the row: what it was, what it inserts, or that it is linked.
LEMMA UploadRows ==
  ASSUME TInv, NEW r \in Records, UploadStep(r)
  PROVE  /\ \/ UNCHANGED row
            \/ row'[r] = InsertedRow(upload[r].output) /\ upload[r].output \in Output
            \/ Exists(r) /\ row'[r] = [row[r] EXCEPT !.linked = TRUE]
         /\ history'.overwritten = history.overwritten
<1> USE DEF TInv
<1> USE Noted
<1>1. row \in [Records -> Row \cup {NoRow}]
  BY DEF TypeOK
<1>2. CASE InsertRow(r) \/ InsertRefused(r) \/ Disconnect(r)
  <2>1. upload[r].pc = "insert" => upload[r].output \in Output
    BY DEF UploadsInHand
  <2>2. \/ UNCHANGED row
        \/ upload[r].pc = "insert" /\ row' = [row EXCEPT ![r] = InsertedRow(upload[r].output)]
    BY <1>2 DEF InsertRow, InsertRefused, Disconnect
  <2>3. UNCHANGED history \/ Note("lost", {r}) \/ Note("leftover", {r})
    BY <1>2 DEF InsertRow, InsertRefused, Disconnect
  <2> QED BY <1>1, <2>1, <2>2, <2>3, NoteGrows
<1>3. CASE LinkToCase(r)
  <2>1. UNCHANGED history \/ Note("failed", {r})
    BY <1>3 DEF LinkToCase
  <2>2. (row' = [row EXCEPT ![r].linked = TRUE] /\ Exists(r)) \/ UNCHANGED row
    BY <1>3 DEF LinkToCase
  <2>3. UNCHANGED row \/ (Exists(r) /\ row'[r] = [row[r] EXCEPT !.linked = TRUE])
    BY <1>1, <2>2
  <2>4. history'.overwritten = history.overwritten
    BY <2>1, NoteGrows
  <2> QED BY <2>3, <2>4
<1>4. CASE UpdateDocument(r)
  <2>1. (UNCHANGED history \/ Note("failed", {r})) /\ UNCHANGED row
    BY <1>4 DEF UpdateDocument
  <2> QED BY <2>1, NoteGrows
<1>5. CASE Begin(r) \/ ParseUpload(r) \/ ParseFails(r) \/ PutFile(r) \/ Answer(r)
  BY <1>5 DEF Begin, ParseUpload, ParseFails, PutFile, Answer
<1> QED BY <1>2, <1>3, <1>4, <1>5 DEF UploadStep

\* A deletion leaves every other row as it is.
LEMMA UserRows ==
  ASSUME TInv, NEW u \in Users, UserStep(u)
  PROVE  /\ \A r \in Records : Exists(r)' => row'[r] = row[r]
         /\ history'.overwritten = history.overwritten
<1> USE DEF TInv
<1> USE Noted
<1>1. ASSUME NEW r \in Records, DeleteRecord(u, r)
      PROVE  /\ \A s \in Records : Exists(s)' => row'[s] = row[s]
             /\ history'.overwritten = history.overwritten
  <2>1. row' = [row EXCEPT ![r] = NoRow] /\ Note("removed", {r})
    BY <1>1 DEF DeleteRecord
  <2>2. history'.overwritten = history.overwritten
    BY <2>1, NoteGrows
  <2> QED BY <2>1, <2>2 DEF Exists, TypeOK
<1>2. CASE ReadFiles(u) \/ DeletionEnds(u)
  BY <1>2 DEF ReadFiles, DeletionEnds
<1>3. CASE DeleteAllRows(u)
  <2>1. history'.overwritten = history.overwritten
    BY <1>3 DEF DeleteAllRows, TypeOK, Nothing
  <2>2. \A r \in Records : row'[r] = NoRow
    BY <1>3 DEF DeleteAllRows
  <2> QED BY <2>1, <2>2 DEF Exists
<1>4. CASE EraseFile(u)
  <2>1. (UNCHANGED history \/ Note("leftover", user[u].files)) /\ UNCHANGED row
    BY <1>4 DEF EraseFile
  <2> QED BY <2>1, NoteGrows
<1> QED BY <1>1, <1>2, <1>3, <1>4 DEF UserStep

LEMMA WriteColumns ==
  ASSUME TInv, ColumnsInv, NEW b \in Batches, WriteOutput(b)
  PROVE  ColumnsInv'
<1> DEFINE held == batch[b].held
<1>0. row \in [Records -> Row \cup {NoRow}]
  BY DEF TInv, TypeOK
<1>1. PICK r \in Records : r = batch[b].rec /\ r # NoRow /\ batch[b].op \in Working
  BY BatchFields DEF WriteOutput
<1>2. row' = IF Exists(r) THEN [row EXCEPT ![r] = Updated(b, r)] ELSE row
  BY <1>1 DEF WriteOutput
<1>3. history'.overwritten =
        IF Exists(r) /\ Overtaken(b, r) THEN history.overwritten \cup {r}
        ELSE IF batch[b].op = "reparse" THEN history.overwritten \ {r} ELSE history.overwritten
  BY <1>1 DEF WriteOutput, TInv, TypeOK, Nothing
<1>4. ASSUME NEW s \in Records, s # r, Exists(s)', s \notin history'.overwritten
      PROVE  Agrees(row'[s])
  <2>1. row'[s] = row[s]
    BY <1>0, <1>1, <1>2, <1>4
  <2>2. Exists(s) /\ s \notin history.overwritten
    BY <1>3, <1>4, <2>1 DEF Exists
  <2> QED BY <2>1, <2>2 DEF ColumnsInv
<1>5. ASSUME Exists(r)', r \notin history'.overwritten
      PROVE  Agrees(row'[r])
  <2>1. Exists(r)
    BY <1>2, <1>5 DEF Exists
  <2>2. row[r] \in Row /\ row'[r] = Updated(b, r) /\ ~Overtaken(b, r)
    BY <1>0, <1>1, <1>2, <1>3, <1>5, <2>1 DEF Exists
  <2>3. /\ row'[r].output.from = held.from
        /\ row'[r].score =
             IF batch[b].op \in {"reparse", "checklist"} THEN held.from ELSE row[r].score
        /\ row'[r].format = IF batch[b].op = "reparse" THEN held.from ELSE row[r].format
    BY <1>1, <2>2, UpdatedColumns
  <2>4. CASE batch[b].op = "reparse"
    BY <2>3, <2>4 DEF Agrees
  <2>5. CASE batch[b].op # "reparse"
    <3>1. row[r].output.from = held.from
      BY <2>2, <2>5 DEF Overtaken
    <3>2. Agrees(row[r])
      BY <1>1, <1>3, <1>5, <2>1, <2>2, <2>5 DEF ColumnsInv
    <3> QED BY <2>3, <2>5, <3>1, <3>2 DEF Agrees
  <2> QED BY <2>4, <2>5
<1> QED BY <1>1, <1>4, <1>5 DEF ColumnsInv

LEMMA NextColumns == TInv /\ ColumnsInv /\ [Next]_vars => ColumnsInv'
<1> SUFFICES ASSUME TInv, ColumnsInv, [Next]_vars PROVE ColumnsInv'
  OBVIOUS
<1>1. CASE UNCHANGED row /\ history'.overwritten = history.overwritten
  BY <1>1 DEF ColumnsInv, Exists
<1>2. ASSUME NEW r \in Records, UploadStep(r) PROVE ColumnsInv'
  <2>1. history'.overwritten = history.overwritten /\ \A s \in Records \ {r} : row'[s] = row[s]
    BY <1>2, UploadRows, UploadFrame
  <2>2. ASSUME Exists(r)', r \notin history'.overwritten PROVE Agrees(row'[r])
    <3>1. CASE UNCHANGED row
      BY <2>1, <2>2, <3>1 DEF ColumnsInv, Exists
    <3>2. CASE row'[r] = InsertedRow(upload[r].output) /\ upload[r].output \in Output
      BY <3>2, InsertedAgrees
    <3>3. CASE Exists(r) /\ row'[r] = [row[r] EXCEPT !.linked = TRUE]
      <4>1. row[r] \in Row /\ Agrees(row[r])
        BY <2>1, <2>2, <3>3 DEF ColumnsInv, Exists, TInv, TypeOK
      <4> QED BY <3>3, <4>1, LinkedAgrees
    <3> QED BY <1>2, <3>1, <3>2, <3>3, UploadRows
  <2> QED BY <2>1, <2>2 DEF ColumnsInv, Exists
<1>3. ASSUME NEW u \in Users, UserStep(u) PROVE ColumnsInv'
  BY <1>3, UserRows DEF ColumnsInv, Exists
<1>4. ASSUME NEW b \in Batches, BatchStep(b) PROVE ColumnsInv'
  <2>1. WriteOutput(b) \/ UNCHANGED <<row, history>>
    BY <1>4 DEF BatchStep, BeginBatch, MakeOutput, PassOver, BatchEnds
  <2> QED BY <1>1, <2>1, WriteColumns
<1>5. CASE Crash
  <2> DEFINE S == {r \in Records : upload[r].pc = "insert"} \cup UNION {user[u].files : u \in Users}
  <2>1. Note("leftover", S) /\ UNCHANGED row
    BY <1>5 DEF Crash
  <2> HIDE DEF S
  <2>2. history'.overwritten = history.overwritten
    BY <2>1, NoteGrows, Noted DEF TInv
  <2> QED BY <1>1, <2>1, <2>2
<1>6. CASE UNCHANGED <<row, history>>
  BY <1>1, <1>6
<1> QED BY <1>2, <1>3, <1>4, <1>5, <1>6 DEF Next, SaveQuestion, vars

\* The columns listed in the history are those of the output beside them, unless a batch
\* wrote back what a re-parse had replaced.
THEOREM ColumnsAgree == Spec => []ColumnsFollowTheParse
<1>1. Init => ColumnsInv
  <2> SUFFICES ASSUME Init, NEW r \in Records, Exists(r) PROVE Agrees(row[r])
    BY DEF ColumnsInv
  <2>1. row[r] = InsertedRow(Parse("upload", FALSE))
    BY DEF Init, Exists
  <2> QED BY <2>1, ParseIsOutput, InsertedAgrees
<1>2. Spec => [](TInv /\ ColumnsInv)
  BY <1>1, InitTypes, NextTypes, NextColumns, PTL DEF Spec
<1> QED BY <1>2, ColumnsFollow, PTL

-----------------------------------------------------------------------------
(* Answers. *)

\* What an upload has done so far and what has become of its record since.
StreamsFromCases(r) ==
  /\ upload[r].pc = "new" => ~upload[r].streams
  /\ ~upload[r].streams => doc[r] = "none" /\ upload[r].pc \notin {"link", "document"}
NotThereYet(r) ==
  upload[r].pc \in BeforeInsert => ~Exists(r) /\ r \notin history.removed
NeverThere(r) ==
  upload[r].pc = "unsaved" =>
    r \in history.lost \/ (~Exists(r) /\ r \notin history.removed)
ThereOrRemoved(r) ==
  upload[r].pc \in {"link", "document", "queue", "done"} =>
    Exists(r) \/ r \in history.removed
LinkedUnlessRefused(r) ==
  upload[r].pc \in {"document", "queue", "done"} /\ upload[r].streams =>
    (Exists(r) /\ r \notin history.failed => row[r].linked)
ShownUnlessRefused(r) ==
  upload[r].pc \in {"queue", "done"} /\ r \notin history.failed => doc[r] # "attached"

ToldSoFar(r) ==
  /\ StreamsFromCases(r) /\ NotThereYet(r) /\ NeverThere(r)
  /\ ThereOrRemoved(r) /\ LinkedUnlessRefused(r) /\ ShownUnlessRefused(r)

AInv == \A r \in Records : ToldSoFar(r)

LEMMA InitTold == Init => AInv
<1> SUFFICES ASSUME Init, NEW r \in Records PROVE ToldSoFar(r)
  BY DEF AInv
<1>1. /\ upload[r].pc = (IF r \in Stored THEN "done" ELSE "new")
      /\ upload[r].streams = FALSE /\ doc[r] = "none"
  BY DEF Init
<1>2. r \in Stored <=> Exists(r)
  <2>1. InsertedRow(Parse("upload", FALSE)) # NoRow
    BY ParseIsOutput, InsertedIsRow, RowIsNotNoRow
  <2> QED BY <2>1 DEF Init, Exists
<1>3. history.removed = {}
  BY DEF Init, Nothing
<1> QED BY <1>1, <1>2, <1>3 DEF ToldSoFar, StreamsFromCases, NotThereYet, NeverThere,
           ThereOrRemoved, LinkedUnlessRefused, ShownUnlessRefused, BeforeInsert

\* Nothing of a record changes but marks it does not depend on.
LEMMA SameTold ==
  ASSUME TInv, NEW r \in Records, ToldSoFar(r),
         upload'[r] = upload[r], row'[r] = row[r], doc'[r] = doc[r],
         r \in history'.removed <=> r \in history.removed,
         r \in history.lost => r \in history'.lost,
         r \in history.failed => r \in history'.failed
  PROVE  ToldSoFar(r)'
BY DEF ToldSoFar, StreamsFromCases, NotThereYet, NeverThere, ThereOrRemoved,
   LinkedUnlessRefused, ShownUnlessRefused, Exists

\* Only an upload marks its record as lost or failed, only deletions as removed.
LEMMA UploadMarks ==
  ASSUME TInv, NEW r \in Records, UploadStep(r)
  PROVE  /\ history'.removed = history.removed
         /\ history.lost \subseteq history'.lost /\ history.failed \subseteq history'.failed
<1> USE Noted DEF TInv
<1>1. UNCHANGED history \/ Note("lost", {r}) \/ Note("failed", {r}) \/ Note("leftover", {r})
  BY DEF UploadStep, Begin, ParseUpload, ParseFails, PutFile, InsertRow, InsertRefused,
     LinkToCase, UpdateDocument, Answer, Disconnect
<1> QED BY <1>1, NoteGrows

LEMMA UploadTold ==
  ASSUME TInv, NEW r \in Records, ToldSoFar(r), UploadStep(r)
  PROVE  ToldSoFar(r)'
<1> USE DEF ToldSoFar, StreamsFromCases, NotThereYet, NeverThere, ThereOrRemoved,
        LinkedUnlessRefused, ShownUnlessRefused, BeforeInsert, Exists
<1>0. /\ upload[r] \in UploadRow /\ upload \in [Records -> UploadRow]
      /\ row \in [Records -> Row \cup {NoRow}]
      /\ doc \in [Records -> {"none", "attached", "parsed"}]
  BY DEF TInv, TypeOK
<1>1. /\ history'.removed = history.removed
      /\ history.lost \subseteq history'.lost /\ history.failed \subseteq history'.failed
  BY UploadMarks
<1>2. ASSUME NEW pc \in UploadPlaces, Goto(r, pc)
      PROVE  upload'[r].pc = pc /\ upload'[r].streams = upload[r].streams
  BY <1>0, <1>2, UploadMoves DEF Goto
<1>3. CASE Begin(r)
  <2>1. PICK streams \in BOOLEAN :
          /\ upload' = [upload EXCEPT ![r].pc = "parsing", ![r].streams = streams]
          /\ doc' = (IF streams THEN [doc EXCEPT ![r] = "attached"] ELSE doc) \/ (streams /\ UNCHANGED doc)
    BY <1>3 DEF Begin
  <2>2. upload'[r].pc = "parsing" /\ upload'[r].streams = streams
    BY <1>0, <2>1 DEF UploadRow
  <2>3. UNCHANGED <<row, history>> /\ upload[r].pc = "new"
    BY <1>3 DEF Begin
  <2>4. ~streams => doc'[r] = "none"
    BY <2>1, <2>3
  <2> QED BY <2>2, <2>3, <2>4
<1>4. CASE ParseUpload(r)
  <2>1. upload'[r].pc = "put" /\ upload'[r].streams = upload[r].streams
    BY <1>0, <1>4 DEF ParseUpload, UploadRow
  <2>2. UNCHANGED <<row, doc, history>> /\ upload[r].pc = "parsing"
    BY <1>4 DEF ParseUpload
  <2> QED BY <2>1, <2>2
<1>5. CASE ParseFails(r)
  <2>1. Goto(r, "error") /\ UNCHANGED <<row, doc, history>>
    BY <1>5 DEF ParseFails
  <2>2. upload'[r].pc = "error" /\ upload'[r].streams = upload[r].streams
    BY <1>2, <2>1 DEF UploadPlaces, Ended
  <2> QED BY <2>1, <2>2
<1>6. CASE PutFile(r)
  <2>1. (Goto(r, "insert") \/ Goto(r, "unsaved")) /\ UNCHANGED <<row, doc, history>>
        /\ upload[r].pc = "put"
    BY <1>6 DEF PutFile
  <2>2. upload'[r].pc \in {"insert", "unsaved"} /\ upload'[r].streams = upload[r].streams
    BY <1>2, <2>1 DEF UploadPlaces, Ended
  <2> QED BY <2>1, <2>2
<1>7. ASSUME upload[r].pc = "insert"
      PROVE  InsertedRow(upload[r].output) # NoRow /\ InsertedRow(upload[r].output).linked = FALSE
  BY <1>7, InsertedIsRow, RowIsNotNoRow DEF TInv, UploadsInHand
<1>8. CASE InsertRow(r)
  <2>1. /\ upload[r].pc = "insert" /\ UNCHANGED <<doc, history>>
        /\ row'[r] = InsertedRow(upload[r].output)
        /\ Goto(r, IF upload[r].streams THEN "link" ELSE "queue")
    BY <1>0, <1>8 DEF InsertRow
  <2>2. /\ upload'[r].pc = IF upload[r].streams THEN "link" ELSE "queue"
        /\ upload'[r].streams = upload[r].streams
    BY <1>2, <2>1 DEF UploadPlaces
  <2>3. upload[r].streams \in BOOLEAN
    BY <1>0 DEF UploadRow
  <2> QED BY <1>7, <2>1, <2>2, <2>3
<1>9. CASE InsertRefused(r)
  <2>1. /\ upload[r].pc = "insert" /\ UNCHANGED doc /\ Goto(r, "unsaved")
        /\ UNCHANGED row \/ Note("lost", {r})
    BY <1>9 DEF InsertRefused
  <2>2. upload'[r].pc = "unsaved" /\ upload'[r].streams = upload[r].streams
    BY <1>2, <2>1 DEF UploadPlaces, Ended
  <2>3. UNCHANGED row \/ r \in history'.lost
    BY <2>1, NoteGrows, Noted DEF TInv
  <2> QED BY <1>1, <2>1, <2>2, <2>3
<1>10. CASE LinkToCase(r)
  <2>1. /\ upload[r].pc = "link" /\ UNCHANGED doc /\ Goto(r, "document")
        /\ \/ row' = (IF Exists(r) THEN [row EXCEPT ![r].linked = TRUE] ELSE row)
           \/ Note("failed", {r}) /\ UNCHANGED row
    BY <1>10 DEF LinkToCase
  <2>2. upload'[r].pc = "document" /\ upload'[r].streams = upload[r].streams
    BY <1>2, <2>1 DEF UploadPlaces
  <2>3. CASE Note("failed", {r}) /\ UNCHANGED row
    <3>1. r \in history'.failed
      BY <2>3, NoteGrows, Noted DEF TInv
    <3> QED BY <1>1, <2>1, <2>2, <2>3, <3>1
  <2>4. CASE row' = IF Exists(r) THEN [row EXCEPT ![r].linked = TRUE] ELSE row
    <3>1. row'[r] # NoRow => row[r] # NoRow /\ row'[r].linked = TRUE
      BY <1>0, <2>4 DEF Row
    <3>2. row[r] # NoRow => row'[r] # NoRow
      <4>1. ASSUME row[r] # NoRow PROVE row'[r] \in Row
        <5>1. row[r] \in Row /\ row'[r] = [row[r] EXCEPT !.linked = TRUE]
          BY <1>0, <2>4, <4>1
        <5> QED BY <5>1, LinkedIsRow
      <4> QED BY <4>1, RowIsNotNoRow
    <3> QED BY <1>1, <2>1, <2>2, <3>1, <3>2
  <2> QED BY <2>1, <2>3, <2>4
<1>11. CASE UpdateDocument(r)
  <2>1. /\ upload[r].pc = "document" /\ UNCHANGED row /\ Goto(r, "queue")
        /\ \/ doc' = (IF doc[r] = "attached" THEN [doc EXCEPT ![r] = "parsed"] ELSE doc)
           \/ Note("failed", {r}) /\ UNCHANGED doc
    BY <1>11 DEF UpdateDocument
  <2>2. upload'[r].pc = "queue" /\ upload'[r].streams = upload[r].streams
    BY <1>2, <2>1 DEF UploadPlaces
  <2>3. Note("failed", {r}) => r \in history'.failed
    BY NoteGrows, Noted DEF TInv
  <2>4. doc'[r] # "attached" \/ r \in history'.failed
    BY <1>0, <2>1, <2>3
  <2>5. upload[r].streams
    BY <2>1
  <2> QED BY <1>1, <2>1, <2>2, <2>4, <2>5
<1>12. CASE Answer(r)
  <2>1. upload[r].pc = "queue" /\ UNCHANGED <<row, doc, history>>
        /\ (Goto(r, "done") \/ Goto(r, "error"))
    BY <1>12 DEF Answer
  <2>2. upload'[r].pc \in {"done", "error"} /\ upload'[r].streams = upload[r].streams
    BY <1>2, <2>1 DEF UploadPlaces, Ended
  <2> QED BY <2>1, <2>2
<1>13. CASE Disconnect(r)
  <2>1. upload[r].streams /\ Goto(r, "gone") /\ UNCHANGED doc
    BY <1>13 DEF Disconnect
  <2>2. upload'[r].pc = "gone" /\ upload'[r].streams = upload[r].streams
    BY <1>2, <2>1 DEF UploadPlaces, Ended
  <2> QED BY <2>1, <2>2
<1> QED BY <1>3, <1>4, <1>5, <1>6, <1>8, <1>9, <1>10, <1>11, <1>12, <1>13 DEF UploadStep

\* A row that goes is noted, and only a row that is there can go.
LEMMA UserRemoves ==
  ASSUME TInv, NEW u \in Users, UserStep(u)
  PROVE  /\ \A r \in Records :
              \/ row'[r] = row[r] /\ (r \in history'.removed <=> r \in history.removed)
              \/ Exists(r) /\ ~Exists(r)' /\ r \in history'.removed
         /\ history'.lost = history.lost /\ history'.failed = history.failed
         /\ UNCHANGED <<upload, doc>>
<1> USE Noted DEF TInv
<1>0. row \in [Records -> Row \cup {NoRow}]
  BY DEF TypeOK
<1>1. ASSUME NEW s \in Records, DeleteRecord(u, s)
      PROVE  /\ \A r \in Records :
                  \/ row'[r] = row[r] /\ (r \in history'.removed <=> r \in history.removed)
                  \/ Exists(r) /\ ~Exists(r)' /\ r \in history'.removed
             /\ history'.lost = history.lost /\ history'.failed = history.failed
             /\ UNCHANGED <<upload, doc>>
  <2>1. /\ row' = [row EXCEPT ![s] = NoRow] /\ Note("removed", {s}) /\ Exists(s)
        /\ UNCHANGED <<upload, doc>>
    BY <1>1 DEF DeleteRecord
  <2>2. /\ history'.removed = history.removed \cup {s}
        /\ history'.lost = history.lost /\ history'.failed = history.failed
    BY <2>1, NoteGrows
  <2> QED BY <1>0, <2>1, <2>2 DEF Exists
<1>2. CASE ReadFiles(u) \/ DeletionEnds(u)
  BY <1>2 DEF ReadFiles, DeletionEnds
<1>3. CASE DeleteAllRows(u)
  <2> DEFINE gone == {r \in Records : Exists(r)}
  <2>1. /\ history'.removed = history.removed \cup gone
        /\ history'.lost = history.lost /\ history'.failed = history.failed
    BY <1>3 DEF DeleteAllRows, TypeOK, Nothing
  <2>2. (\A r \in Records : row'[r] = NoRow) /\ UNCHANGED <<upload, doc>>
    BY <1>3 DEF DeleteAllRows
  <2> QED BY <2>1, <2>2 DEF Exists
<1>4. CASE EraseFile(u)
  <2>1. (UNCHANGED history \/ Note("leftover", user[u].files)) /\ UNCHANGED <<row, upload, doc>>
    BY <1>4 DEF EraseFile
  <2> QED BY <2>1, NoteGrows
<1> QED BY <1>1, <1>2, <1>3, <1>4 DEF UserStep

LEMMA UpdatedLinked ==
  ASSUME TInv, NEW b \in Batches, batch[b].rec # NoRow, row[batch[b].rec] \in Row
  PROVE  Updated(b, batch[b].rec).linked = row[batch[b].rec].linked
<1> DEFINE r == batch[b].rec
           held == batch[b].held
<1>1. batch[b].op \in Working
  BY BatchFields
<1>2. row[r] \in Row
  OBVIOUS
<1>3. Updated(b, r) =
        CASE batch[b].op = "reparse" ->
               [row[r] EXCEPT !.output = held, !.score = held.from, !.format = held.from]
          [] batch[b].op = "checklist" -> [row[r] EXCEPT !.output = held, !.score = held.from]
          [] batch[b].op = "bns" -> [row[r] EXCEPT !.output = held]
  BY DEF Updated
<1> HIDE DEF held, r
<1> QED BY <1>1, <1>2, <1>3 DEF Row, Working, r

LEMMA NextTold == TInv /\ AInv /\ [Next]_vars => AInv'
<1> SUFFICES ASSUME TInv, AInv, [Next]_vars PROVE AInv'
  OBVIOUS
<1> USE DEF AInv
<1>1. ASSUME NEW s \in Records, UploadStep(s) PROVE AInv'
  <2>1. ToldSoFar(s)'
    BY <1>1, UploadTold
  <2>2. ASSUME NEW r \in Records, r # s PROVE ToldSoFar(r)'
    BY <1>1, <2>2, SameTold, UploadMarks, UploadFrame
  <2> QED BY <2>1, <2>2
<1>2. ASSUME NEW u \in Users, UserStep(u) PROVE AInv'
  <2> SUFFICES ASSUME NEW r \in Records PROVE ToldSoFar(r)'
    OBVIOUS
  <2>1. UNCHANGED <<upload, doc>> /\ history'.lost = history.lost /\ history'.failed = history.failed
    BY <1>2, UserRemoves
  <2>2. CASE row'[r] = row[r] /\ (r \in history'.removed <=> r \in history.removed)
    BY <2>1, <2>2, SameTold
  <2>3. CASE Exists(r) /\ ~Exists(r)' /\ r \in history'.removed
    BY <2>1, <2>3 DEF ToldSoFar, StreamsFromCases, NotThereYet, NeverThere, ThereOrRemoved,
       LinkedUnlessRefused, ShownUnlessRefused
  <2> QED BY <1>2, <2>2, <2>3, UserRemoves
<1>3. ASSUME NEW b \in Batches, BatchStep(b) PROVE AInv'
  <2> SUFFICES ASSUME NEW r \in Records PROVE ToldSoFar(r)'
    OBVIOUS
  <2>1. UNCHANGED <<upload, doc>> /\ (Exists(r)' <=> Exists(r))
    BY <1>3, BatchKeepsRows
  <2>2. /\ history'.removed = history.removed
        /\ history'.lost = history.lost /\ history'.failed = history.failed
    BY <1>3 DEF BatchStep, BeginBatch, MakeOutput, PassOver, WriteOutput, BatchEnds, TInv,
       TypeOK, Nothing
  <2>3. Exists(r) => row'[r].linked = row[r].linked
    <3>1. CASE UNCHANGED row
      BY <3>1
    <3>2. CASE WriteOutput(b)
      <4>1. PICK s \in Records : s = batch[b].rec /\ s # NoRow
        BY <3>2, BatchFields DEF WriteOutput
      <4>2. row' = IF Exists(s) THEN [row EXCEPT ![s] = Updated(b, s)] ELSE row
        BY <3>2, <4>1 DEF WriteOutput
      <4>3. row \in [Records -> Row \cup {NoRow}]
        BY DEF TInv, TypeOK
      <4>4. Exists(s) => Updated(b, s).linked = row[s].linked
        BY <4>1, <4>3, UpdatedLinked DEF Exists
      <4> QED BY <4>2, <4>3, <4>4
    <3> QED BY <1>3, <3>1, <3>2 DEF BatchStep, BeginBatch, MakeOutput, PassOver, BatchEnds
  <2>4. ToldSoFar(r)
    OBVIOUS
  <2> QED BY <2>1, <2>2, <2>3, <2>4 DEF ToldSoFar, StreamsFromCases, NotThereYet, NeverThere,
             ThereOrRemoved, LinkedUnlessRefused, ShownUnlessRefused
<1>4. CASE Crash
  <2> DEFINE S == {r \in Records : upload[r].pc = "insert"} \cup UNION {user[u].files : u \in Users}
  <2>1. Note("leftover", S) /\ UNCHANGED <<row, doc>>
    BY <1>4 DEF Crash
  <2> HIDE DEF S
  <2>2. /\ history'.removed = history.removed
        /\ history'.lost = history.lost /\ history'.failed = history.failed
    BY <2>1, NoteGrows, Noted DEF TInv
  <2> SUFFICES ASSUME NEW r \in Records PROVE ToldSoFar(r)'
    OBVIOUS
  <2>3. CASE upload'[r] = upload[r]
    BY <2>1, <2>2, <2>3, SameTold
  <2>4. CASE upload'[r] # upload[r]
    <3>1. upload[r] \in UploadRow
      BY DEF TInv, TypeOK
    <3>2. upload'[r] = [upload[r] EXCEPT !.pc = "gone"]
      BY <1>4, <2>4 DEF Crash
    <3>3. upload'[r].pc = "gone" /\ upload'[r].streams = upload[r].streams
      BY <3>1, <3>2, UploadMoves DEF UploadPlaces, Ended
    <3>4. ToldSoFar(r)
      OBVIOUS
    <3> QED BY <2>1, <3>3, <3>4 DEF ToldSoFar, StreamsFromCases, NotThereYet, NeverThere,
               ThereOrRemoved, LinkedUnlessRefused, ShownUnlessRefused, BeforeInsert
  <2> QED BY <2>3, <2>4
<1>5. CASE UNCHANGED <<row, upload, doc, history>>
  BY <1>5, SameTold
<1> QED BY <1>1, <1>2, <1>3, <1>4, <1>5 DEF Next, SaveQuestion, vars

\* What a client is told of its upload is so, whatever deletions and batches interleave,
\* but for an answer of the database that was lost and updates that were refused.
THEOREM ClientsAreToldTheTruth == Spec => []AnswersAreTrue
<1>1. Spec => [](TInv /\ AInv)
  BY InitTypes, NextTypes, InitTold, NextTold, PTL DEF Spec
<1>2. AInv => AnswersAreTrue
  BY DEF AInv, ToldSoFar, NeverThere, ThereOrRemoved, LinkedUnlessRefused, ShownUnlessRefused,
     AnswersAreTrue
<1> QED BY <1>1, <1>2, PTL

-----------------------------------------------------------------------------
\* Whatever checklist was or is in force, no gap is hidden by merging what reads alike.
THEOREM HistoryAsksEveryGap == Spec => []GapsAreAsked
<1>1. TypeOK => GapsAreAsked
  <2> SUFFICES ASSUME TypeOK, NEW r \in Records, Exists(r)
               PROVE  /\ AsksEveryGap(row[r].output.analysis)
                      /\ \A works \in BOOLEAN : AsksEveryGap(Shown(r, works).analysis)
    BY DEF GapsAreAsked
  <2>1. row[r].output \in Output
    BY DEF TypeOK, Exists, Row
  <2>2. \A o \in Output : o.analysis \in Analyses
    BY DEF Output
  <2>3. \A works \in BOOLEAN : Shown(r, works) \in Output
    BY <2>1, EnrichedOutput DEF Shown
  <2> QED BY <2>1, <2>2, <2>3, EveryAnalysisAsks
<1> QED BY <1>1, TypeCorrect, PTL

-----------------------------------------------------------------------------
\* The providers that are asked.

Statuses == {"idle", "running", "translated", "failed", "unavailable"}

\* A call has a score only if it translated and scores are asked for.
IsJob(j) ==
  /\ j = [status |-> j.status, done |-> j.done, text |-> j.text, score |-> j.score]
  /\ j.status \in Statuses
  /\ j.score # None => j.status = "translated" /\ j.score \in Int /\ config.qe

Calls == config \in Configs /\ DOMAIN job = Providers /\ \A p \in Providers : IsJob(job[p])

\* In parallel: whoever leads has the best score of those whose result was taken.
EnsembleLeads ==
  phase = "translate" /\ Ensemble =>
    /\ \A p \in Providers : job[p].status # "idle" => p \in ToSet(Sequence)
    /\ collected \subseteq ToSet(Sequence) /\ \A p \in collected : CallEnded(p)
    /\ best # None => best \in collected /\ job[best].status = "translated"
    /\ \A p \in collected : job[p].status = "translated" =>
         best # None /\ job[p].score <= job[best].score

\* In turn: nobody is asked or has translated the text but the one whose turn it is.
SequenceTries ==
  phase = "translate" /\ ~Ensemble =>
    /\ turn \in 1..Len(Sequence)
    /\ \A p \in Providers : job[p].status \in {"running", "translated"} => p = Sequence[turn]

ChoiceInv ==
  /\ Calls /\ EnsembleLeads /\ SequenceTries /\ BestIsTaken
  /\ phase = "start" =>
       /\ \A p \in Providers : job[p].status = "idle" /\ job[p].score = None
       /\ collected = {} /\ best = None /\ turn = 1

LEMMA SequenceFacts ==
  ASSUME config \in Configs
  PROVE  /\ Sequence \in Seq(Providers) /\ Len(Sequence) \in 0..2
         /\ Len(Sequence) = 2 => Sequence[1] # Sequence[2]
         /\ ToSet(Sequence) = {Sequence[i] : i \in 1..Len(Sequence)}
         /\ ToSet(Sequence) \subseteq Providers
         /\ Ensemble => config.qe /\ Sequence # <<>>
         /\ Sequence # <<>> => Sequence[1] \in Providers /\ Len(Sequence) > 0
<1> DEFINE first == IF config.provider # "auto" THEN config.provider
                    ELSE IF config.project THEN "google" ELSE "openai"
<1>1. Sequence = IF config.provider = "none" THEN <<>>
                 ELSE IF config.fallback \in {"none", first} THEN <<first>>
                 ELSE <<first, config.fallback>>
  BY DEF Sequence
<1>2. config.provider # "none" => first \in Providers
  BY ConfigsAreSettings DEF Providers
<1>3. config.fallback # "none" => config.fallback \in Providers
  BY ConfigsAreSettings
<1> HIDE DEF first
<1>4. /\ Sequence \in Seq(Providers) /\ Len(Sequence) \in 0..2
      /\ Len(Sequence) = 2 => Sequence[1] # Sequence[2]
      /\ Sequence # <<>> => Sequence[1] \in Providers /\ Len(Sequence) > 0
  BY <1>1, <1>2, <1>3
<1>5. DOMAIN Sequence = 1..Len(Sequence) /\ \A i \in 1..Len(Sequence) : Sequence[i] \in Providers
  BY <1>4
<1> QED BY <1>4, <1>5 DEF ToSet, Ensemble

LEMMA BeginChooses ==
  ASSUME ChoiceInv, BeginTranslation
  PROVE  ChoiceInv'
<1>1. /\ phase = "start" /\ config' = config /\ collected' = {} /\ best' = None /\ turn' = 1
      /\ phase' \in {"refine", "translate"}
  BY DEF BeginTranslation, ChoiceInv
<1>2. config \in Configs /\ DOMAIN job = Providers
  BY DEF ChoiceInv, Calls
<1>3. \A p \in Providers : IsJob(job[p]) /\ job[p].status = "idle" /\ job[p].score = None
  BY <1>1 DEF ChoiceInv, Calls
<1>4. CASE phase' = "refine"
  <2>1. job' = job
    BY <1>4 DEF BeginTranslation
  <2> QED BY <1>1, <1>2, <1>3, <1>4, <2>1
       DEF ChoiceInv, Calls, IsJob, EnsembleLeads, SequenceTries, BestIsTaken
<1>5. CASE phase' = "translate"
  <2>1. PICK started :
          /\ started = IF Ensemble THEN ToSet(Sequence) ELSE {Sequence[1]}
          /\ job' = [p \in Providers |->
               IF p \in started THEN [IdleJob EXCEPT !.status = "running"] ELSE IdleJob]
          /\ Sequence # <<>>
    BY <1>5 DEF BeginTranslation
  <2>2. DOMAIN job' = Providers /\ \A p \in Providers :
          /\ job'[p] = [status |-> job'[p].status, done |-> job'[p].done,
                        text |-> job'[p].text, score |-> job'[p].score]
          /\ job'[p].status \in {"idle", "running"} /\ job'[p].score = None
          /\ job'[p].status # "idle" => p \in started
    BY <2>1 DEF IdleJob
  <2>3. Ensemble' <=> Ensemble
    BY <1>1 DEF Ensemble, Sequence
  <2>4. Sequence' = Sequence
    BY <1>1 DEF Sequence
  <2>5. Calls'
    BY <1>1, <1>2, <2>2 DEF Calls, IsJob, Statuses
  <2>6. EnsembleLeads'
    BY <1>1, <2>1, <2>2, <2>3, <2>4 DEF EnsembleLeads
  <2>7. SequenceTries'
    <3> SUFFICES ASSUME ~Ensemble
                 PROVE  /\ 1 \in 1..Len(Sequence)
                        /\ \A p \in Providers : job'[p].status # "idle" => p = Sequence[1]
      BY <1>1, <2>2, <2>3, <2>4 DEF SequenceTries
    <3>1. Len(Sequence) \in Nat /\ Len(Sequence) > 0
      BY <1>2, <2>1, SequenceFacts
    <3>2. started = {Sequence[1]}
      BY <2>1
    <3>3. \A p \in Providers : job'[p].status # "idle" => p = Sequence[1]
      BY <2>2, <3>2
    <3> QED BY <3>1, <3>3
  <2> QED BY <1>1, <1>5, <2>5, <2>6, <2>7 DEF ChoiceInv, BestIsTaken
<1> QED BY <1>1, <1>4, <1>5

\* A call goes on; those whose result has been taken have ended.
LEMMA JobChooses ==
  ASSUME ChoiceInv, NEW p \in Providers, NEW j, IsJob(j), phase = "translate", ~CallEnded(p),
         IF job[p].status = "running" THEN j.status # "idle"
         ELSE job[p].status = "translated" /\ j.status = "translated",
         job' = [job EXCEPT ![p] = j],
         UNCHANGED <<config, phase, collected, best, turn, translation>>
  PROVE  ChoiceInv'
<1>1. job'[p] = j /\ DOMAIN job' = Providers /\ \A q \in Providers \ {p} : job'[q] = job[q]
  BY DEF ChoiceInv, Calls
<1>2. Sequence' = Sequence /\ (Ensemble' <=> Ensemble)
  BY DEF Ensemble, Sequence
<1>3. Calls'
  BY <1>1 DEF ChoiceInv, Calls, IsJob
<1>4. EnsembleLeads'
  <2> SUFFICES ASSUME Ensemble PROVE EnsembleLeads'
    BY <1>2 DEF EnsembleLeads
  <2>1. p \notin collected /\ p \in ToSet(Sequence) /\ ToSet(Sequence) \subseteq Providers
    BY SequenceFacts DEF ChoiceInv, Calls, EnsembleLeads
  <2>2. \A q \in collected : q \in Providers /\ job'[q] = job[q]
    BY <1>1, <2>1 DEF ChoiceInv, EnsembleLeads
  <2>3. \A q \in collected : CallEnded(q)'
    BY <2>2 DEF ChoiceInv, EnsembleLeads, CallEnded
  <2> QED BY <1>1, <1>2, <2>1, <2>2, <2>3 DEF ChoiceInv, EnsembleLeads
<1>5. SequenceTries'
  BY <1>1, <1>2 DEF ChoiceInv, SequenceTries
<1> QED BY <1>3, <1>4, <1>5 DEF ChoiceInv, BestIsTaken

LEMMA ChunkChooses ==
  ASSUME ChoiceInv, NEW p \in Providers, NEW answers, TranslateChunk(p, answers)
  PROVE  ChoiceInv'
<1>1. phase = "translate" /\ job[p].status = "running" /\ ~CallEnded(p)
  BY DEF TranslateChunk, CallEnded
<1>2. IsJob(job[p]) /\ job[p].score = None
  BY <1>1 DEF ChoiceInv, Calls, IsJob
<1>3. UNCHANGED <<config, phase, collected, best, turn, translation>>
  BY DEF TranslateChunk, call
<1>4. DOMAIN job = Providers
  BY DEF ChoiceInv, Calls
<1>5. PICK j : /\ job' = [job EXCEPT ![p] = j]
               /\ IsJob(j) /\ j.status # "idle"
  <2>1. ASSUME NEW s \in {"unavailable", "failed"}, job' = [job EXCEPT ![p].status = s]
        PROVE  \E j : job' = [job EXCEPT ![p] = j] /\ IsJob(j) /\ j.status # "idle"
    <3> DEFINE j == [job[p] EXCEPT !.status = s]
    <3>1. job' = [job EXCEPT ![p] = j]
      BY <2>1
    <3>2. j = [status |-> s, done |-> job[p].done, text |-> job[p].text, score |-> job[p].score]
      BY <1>2 DEF IsJob
    <3>3. IsJob(j) /\ j.status # "idle"
      BY <1>2, <3>2 DEF IsJob, Statuses
    <3> QED BY <3>1, <3>3
  <2>2. ASSUME NEW text, NEW s \in {"running", "failed", "translated"}, NEW n,
               job' = [job EXCEPT ![p] = [status |-> s, done |-> n, text |-> text,
                                          score |-> job[p].score]]
        PROVE  \E j : job' = [job EXCEPT ![p] = j] /\ IsJob(j) /\ j.status # "idle"
    <3> DEFINE j == [status |-> s, done |-> n, text |-> text, score |-> job[p].score]
    <3>1. IsJob(j) /\ j.status # "idle"
      BY <1>2 DEF IsJob, Statuses
    <3> QED BY <2>2, <3>1
  <2>3. \/ \E s \in {"unavailable", "failed"} : job' = [job EXCEPT ![p].status = s]
        \/ \E text, n : \E s \in {"running", "failed", "translated"} :
             job' = [job EXCEPT ![p] = [status |-> s, done |-> n, text |-> text,
                                        score |-> job[p].score]]
    BY DEF TranslateChunk
  <2> QED BY <2>1, <2>2, <2>3
<1> QED BY <1>1, <1>3, <1>5, JobChooses

LEMMA EstimateChooses ==
  ASSUME ChoiceInv, NEW p \in Providers, EstimateQuality(p)
  PROVE  ChoiceInv'
<1>1. /\ phase = "translate" /\ config.qe /\ job[p].status = "translated" /\ job[p].score = None
      /\ ~CallEnded(p)
  BY DEF EstimateQuality, CallEnded
<1>2. UNCHANGED <<config, phase, collected, best, turn, translation>>
  BY DEF EstimateQuality, call
<1>3. PICK score \in Scores \cup {100} : job' = [job EXCEPT ![p].score = score]
  BY DEF EstimateQuality
<1> DEFINE j == [job[p] EXCEPT !.score = score]
<1>4. job' = [job EXCEPT ![p] = j]
  BY <1>3
<1>5. IsJob(job[p]) /\ score \in Int
  BY ConfigsAreSettings DEF ChoiceInv, Calls
<1>6. j = [status |-> job[p].status, done |-> job[p].done, text |-> job[p].text, score |-> score]
  BY <1>5 DEF IsJob
<1>7. IsJob(j) /\ j.status = "translated"
  BY <1>1, <1>5, <1>6 DEF IsJob, Statuses
<1> HIDE DEF j
<1> QED BY <1>1, <1>2, <1>4, <1>7, JobChooses

LEMMA CollectChooses ==
  ASSUME ChoiceInv, NEW p \in Providers, Collect(p)
  PROVE  ChoiceInv'
<1>1. /\ phase = "translate" /\ Ensemble /\ p \in ToSet(Sequence) /\ CallEnded(p)
      /\ p \notin collected /\ collected' = collected \cup {p}
      /\ UNCHANGED <<config, phase, job, turn, translation>>
  BY DEF Collect
<1>2. Sequence' = Sequence /\ Ensemble' /\ config.qe /\ ToSet(Sequence) \subseteq Providers
  BY <1>1, SequenceFacts DEF Ensemble, Sequence, ChoiceInv, Calls
<1>3. \A q \in collected \cup {p} : CallEnded(q)'
  BY <1>1 DEF ChoiceInv, EnsembleLeads, CallEnded
<1>4. \A q \in collected \cup {p} :
        job[q].status = "translated" => job[q].score \in Int
  BY <1>1, <1>2 DEF ChoiceInv, Calls, IsJob, EnsembleLeads, CallEnded
<1>5. /\ best # None => best \in collected /\ job[best].status = "translated"
      /\ \A q \in collected : job[q].status = "translated" =>
           best # None /\ job[q].score <= job[best].score
      /\ best' = IF /\ job[p].status = "translated"
                    /\ best = None \/ job[p].score > job[best].score
                 THEN p ELSE best
      /\ p # None
  BY <1>1, <1>2, ConfigsAreSettings DEF ChoiceInv, EnsembleLeads, Collect
<1>6. EnsembleLeads'
  <2>1. best' # None => best' \in collected \cup {p} /\ job[best'].status = "translated"
    BY <1>5
  <2>2. \A q \in collected \cup {p} : job[q].status = "translated" =>
          best' # None /\ job[q].score <= job[best'].score
    BY <1>4, <1>5
  <2> QED BY <1>1, <1>2, <1>3, <2>1, <2>2 DEF ChoiceInv, EnsembleLeads
<1>7. SequenceTries' /\ Calls'
  BY <1>1, <1>2 DEF ChoiceInv, Calls, IsJob, SequenceTries
<1> QED BY <1>1, <1>6, <1>7 DEF ChoiceInv, BestIsTaken

LEMMA TranslatedIs ==
  ASSUME NEW p, NEW t \in Translated(p)
  PROVE  /\ t.provider = p
         /\ t.flagged <=> job[p].score # None /\ job[p].score < config.threshold
<1> DEFINE low == job[p].score # None /\ job[p].score < config.threshold
<1>1. PICK lang : t = [status |-> "translated", provider |-> p, text |-> job[p].text,
                       lang |-> lang, flagged |-> low]
  BY DEF Translated
<1> HIDE DEF low
<1>2. t.provider = p /\ t.flagged = low
  BY <1>1
<1> QED BY <1>2 DEF low

LEMMA EndEnsembleChooses ==
  ASSUME ChoiceInv, EndEnsemble
  PROVE  ChoiceInv'
<1>1. /\ phase = "translate" /\ Ensemble /\ collected = ToSet(Sequence) /\ phase' = "refine"
      /\ UNCHANGED <<config, job, collected, best, turn>>
      /\ translation' \in IF best # None THEN Translated(best) ELSE {Untranslated("not_needed")}
  BY DEF EndEnsemble, call
<1>2. Sequence' = Sequence /\ Ensemble' /\ config.qe
  BY <1>1, SequenceFacts DEF Ensemble, Sequence, ChoiceInv, Calls
<1>3. Calls'
  BY <1>1 DEF ChoiceInv, Calls, IsJob
<1>4. \A p \in Providers : job[p].status = "translated" =>
        best # None /\ job[p].score <= job[best].score
  BY <1>1 DEF ChoiceInv, EnsembleLeads
<1>5. ASSUME best # None
      PROVE  /\ best \in Providers /\ job[best].status = "translated"
             /\ translation'.provider = best /\ job[best].score # None
             /\ translation'.flagged <=> job[best].score < config.threshold
  <2>1. /\ job[best].status = "translated" /\ CallEnded(best)
        /\ best \in Providers /\ translation' \in Translated(best)
    BY <1>1, <1>5, SequenceFacts DEF ChoiceInv, EnsembleLeads, Calls
  <2>2. job[best].score # None
    BY <1>2, <2>1 DEF CallEnded
  <2> QED BY <2>1, <2>2, TranslatedIs
<1>6. BestIsTaken'
  BY <1>1, <1>2, <1>4, <1>5 DEF BestIsTaken
<1> QED BY <1>1, <1>3, <1>6 DEF ChoiceInv, EnsembleLeads, SequenceTries

LEMMA TryNextChooses ==
  ASSUME ChoiceInv, TryNext
  PROVE  ChoiceInv'
<1>1. PICK p : p = Sequence[turn]
  OBVIOUS
<1>2. /\ phase = "translate" /\ ~Ensemble /\ CallEnded(p) /\ config \in Configs
      /\ config' = config /\ collected' = collected /\ best' = best
  BY <1>1 DEF TryNext, ChoiceInv, Calls
<1>3. Sequence' = Sequence /\ ~Ensemble'
  BY <1>2 DEF Ensemble, Sequence
<1>4. /\ turn \in 1..Len(Sequence) /\ Len(Sequence) \in 0..2 /\ p \in Providers
      /\ \A q \in Providers : job[q].status \in {"running", "translated"} => q = p
  BY <1>1, <1>2, SequenceFacts DEF ChoiceInv, SequenceTries
<1>5. IsJob(job[p])
  BY <1>4 DEF ChoiceInv, Calls
<1>6. CASE job[p].status = "translated"
  <2>1. job' = job /\ phase' = "refine" /\ translation' \in Translated(p) /\ turn' = turn
    BY <1>1, <1>6 DEF TryNext
  <2>2. config.qe <=> job[p].score # None
    BY <1>2, <1>5, <1>6, ConfigsAreSettings DEF IsJob, CallEnded
  <2>3. /\ translation'.provider = p
        /\ translation'.flagged <=> job[p].score # None /\ job[p].score < config.threshold
    BY <2>1, TranslatedIs
  <2>4. BestIsTaken'
    BY <1>2, <1>3, <1>4, <1>6, <2>1, <2>2, <2>3 DEF BestIsTaken
  <2> QED BY <1>2, <2>1, <2>4 DEF ChoiceInv, Calls, IsJob, EnsembleLeads, SequenceTries
<1>7. CASE job[p].status # "translated"
  <2>1. \A q \in Providers : job[q].status \notin {"running", "translated"}
    BY <1>2, <1>4, <1>7 DEF CallEnded
  <2>2. CASE turn < Len(Sequence)
    <3>1. PICK n : n = Sequence[turn + 1]
      OBVIOUS
    <3>2. /\ turn' = turn + 1 /\ job' = [job EXCEPT ![n].status = "running"]
          /\ phase' = phase /\ translation' = translation
      BY <1>1, <1>7, <2>2, <3>1 DEF TryNext
    <3>3. n \in Providers /\ turn + 1 \in 1..Len(Sequence)
      BY <1>2, <1>4, <2>2, <3>1, SequenceFacts
    <3>4. IsJob(job[n]) /\ job[n].score = None
      BY <2>1, <3>3 DEF ChoiceInv, Calls, IsJob
    <3>5. [job[n] EXCEPT !.status = "running"] =
            [status |-> "running", done |-> job[n].done, text |-> job[n].text, score |-> None]
      BY <3>4 DEF IsJob
    <3>6. /\ DOMAIN job' = Providers /\ \A q \in Providers \ {n} : job'[q] = job[q]
          /\ job'[n] = [status |-> "running", done |-> job[n].done, text |-> job[n].text,
                        score |-> None]
      BY <3>2, <3>3, <3>5 DEF ChoiceInv, Calls
    <3>7. Calls'
      BY <1>2, <3>6 DEF ChoiceInv, Calls, IsJob, Statuses
    <3>8. SequenceTries'
      BY <1>3, <2>1, <3>1, <3>2, <3>3, <3>6 DEF SequenceTries
    <3> QED BY <1>2, <1>3, <3>2, <3>7, <3>8 DEF ChoiceInv, EnsembleLeads, BestIsTaken
  <2>3. CASE ~(turn < Len(Sequence))
    <3>1. phase' = "refine" /\ job' = job /\ turn' = turn
      BY <1>1, <1>7, <2>3 DEF TryNext
    <3> QED BY <1>2, <2>1, <3>1
         DEF ChoiceInv, Calls, IsJob, EnsembleLeads, SequenceTries, BestIsTaken
  <2> QED BY <2>2, <2>3
<1> QED BY <1>6, <1>7

LEMMA OthersChoose ==
  ASSUME ChoiceInv, phase' # "start", phase' # "translate", phase \notin {"start", "translate"},
         UNCHANGED <<config, call, translation>>
  PROVE  ChoiceInv'
BY DEF ChoiceInv, Calls, IsJob, EnsembleLeads, SequenceTries, BestIsTaken, Ensemble, Sequence,
       call

LEMMA StepChooses == ChoiceInv /\ [ParseNext]_parseVars => ChoiceInv'
<1> SUFFICES ASSUME ChoiceInv, [ParseNext]_parseVars PROVE ChoiceInv'
  OBVIOUS
<1>1. CASE TranslateViaGoogle \/ TranslateViaOpenAI \/ TranslateViaGemini
  <2>1. \E p \in Providers : \E answers : TranslateChunk(p, answers)
    BY <1>1 DEF TranslateViaGoogle, TranslateViaOpenAI, TranslateViaGemini, Providers
  <2> QED BY <2>1, ChunkChooses
<1>2. CASE SkipRefinement \/ RefineViaOpenAI \/ RefineViaGemini
  <2>1. /\ phase = "refine" /\ phase' \in {"refine", "extract"}
        /\ UNCHANGED <<config, call, translation>>
    BY <1>2 DEF SkipRefinement, RefineViaOpenAI, RefineViaGemini, RefineChunk
  <2> QED BY <2>1, OthersChoose
<1>3. CASE Extract \/ AskModel \/ Write
  BY <1>3, OthersChoose DEF Extract, AskModel, Write
<1>4. CASE UNCHANGED parseVars
  <2>1. UNCHANGED <<config, phase, job, collected, best, turn, translation>>
    BY <1>4 DEF parseVars, call
  <2> QED BY <2>1 DEF ChoiceInv, Calls, IsJob, EnsembleLeads, SequenceTries, BestIsTaken,
                      Ensemble, Sequence, CallEnded
<1> QED BY <1>1, <1>2, <1>3, <1>4, BeginChooses, EstimateChooses, CollectChooses, EndEnsembleChooses,
           TryNextChooses DEF ParseNext, Returned

LEMMA InitChooses == ParseInit => ChoiceInv
BY DEF ParseInit, ChoiceInv, Calls, IsJob, IdleJob, Statuses, EnsembleLeads, SequenceTries,
       BestIsTaken

-----------------------------------------------------------------------------
\* What the fields hold.

LEMMA SmallestIs ==
  ASSUME NEW I \in SUBSET Nat, I # {}
  PROVE  Min(I) \in I
<1>1. \E x \in I : \A y \in I : x <= y
  BY SmallestOf
<1> QED BY <1>1 DEF Min

LEMMA TheIs ==
  /\ \A x : The({x}) = x
  /\ \A S : S # {} => The(S) \in S
BY DEF The

LEMMA RolesAre ==
  /\ ToSet(Roles) = {"who.complainant", "who.victim", "who.accused", "who.witnesses"}
  /\ ToSet(Temporal) = {"when.date", "when.time"}
  /\ Fields = {"who", "what", "when", "where", "why", "how"}
BY DEF ToSet, Roles, Temporal, Fields, FieldOrder

\* The names of a role, and when there are some.
LEMMA ComponentIs ==
  ASSUME NEW values, NEW inferred
  PROVE  \E status, score :
           /\ Component(values, inferred) =
                [status |-> status, values |-> values, score |-> score, inferred |-> inferred]
           /\ status \in {"missing", "present", "uncertain"}
           /\ status = "missing" <=> values = {}
<1>1. CASE values = {}
  BY <1>1 DEF Component
<1>2. CASE values # {} /\ (inferred \/ values \subseteq UnknownActors)
  <2>1. PICK score : score = IF inferred THEN 55 ELSE 60
    OBVIOUS
  <2>2. Component(values, inferred) =
          [status |-> "uncertain", values |-> values, score |-> score, inferred |-> inferred]
    BY <1>2, <2>1 DEF Component
  <2>3. "uncertain" \in {"missing", "present", "uncertain"} /\ ("uncertain" = "missing" <=> values = {})
    BY <1>2
  <2> QED BY <2>2, <2>3
<1>3. CASE values # {} /\ ~(inferred \/ values \subseteq UnknownActors)
  <2>1. Component(values, inferred) =
          [status |-> "present", values |-> values, score |-> 86, inferred |-> inferred]
    BY <1>3 DEF Component
  <2>2. "present" \in {"missing", "present", "uncertain"} /\ ("present" = "missing" <=> values = {})
    BY <1>3
  <2> QED BY <2>1, <2>2
<1> QED BY <1>1, <1>2, <1>3

LEMMA ComponentHolds ==
  ASSUME NEW values, NEW inferred
  PROVE  Component(values, inferred).values = values
<1>1. PICK status, score :
        Component(values, inferred) =
          [status |-> status, values |-> values, score |-> score, inferred |-> inferred]
  BY ComponentIs
<1> QED BY <1>1

LEMMA RaisedHolds ==
  ASSUME NEW values, NEW inferred, NEW c, c = Component(values, inferred), NEW score
  PROVE  [c EXCEPT !.score = score,
            !.status = IF @ = "present" /\ score < 72 THEN "uncertain" ELSE @].values = values
<1>1. PICK status, n :
        c = [status |-> status, values |-> values, score |-> n, inferred |-> inferred]
  BY ComponentIs
<1> QED BY <1>1

LEMMA WhoFieldIs ==
  ASSUME NEW parts, NEW evidence
  PROVE  \/ WhoField(parts, evidence) = {}
         \/ \E status \in {"present", "uncertain"} : \E score :
              WhoField(parts, evidence) =
                {MakeField(status, UNION {parts[r].values : r \in DOMAIN parts}, score, parts,
                           evidence)}
BY DEF WhoField

\* What values rest on: each is attested or backed by S, or the one stock phrase.
Rests(values, f, S) ==
  \A v \in values : IF f = "who" THEN Attested(v, S)
                    ELSE Backed(v, f, S) \/ (f = "how" /\ v = BusJourney)

\* A field rests on S and quotes it, or names the rule.
Among(field, f, S) == Rests(field.value, f, S) /\ field.evidence \subseteq S \cup StockEvidence

\* What S has verbatim rests on it.
LEMMA QuotedRests ==
  ASSUME NEW values, NEW f, NEW S, values \subseteq S
  PROVE  Rests(values, f, S)
BY DEF Rests, Attested, Backed

LEMMA RestsTogether ==
  ASSUME NEW values, NEW others, NEW f, NEW S, Rests(values, f, S), Rests(others, f, S)
  PROVE  Rests(values \cup others, f, S)
BY DEF Rests

\* What has enough of some words still has them when there is more of it.
LEMMA OverlapsMore ==
  ASSUME NEW words, IsFiniteSet(words), NEW S, NEW T, S \subseteq T,
         NEW threshold \in Nat, Overlaps(words, S, threshold)
  PROVE  Overlaps(words, T, threshold)
<1> DEFINE few  == words \cap UNION {Lexical(x).words : x \in S}
           more == words \cap UNION {Lexical(x).words : x \in T}
<1>1. few \subseteq more /\ few \subseteq words /\ more \subseteq words
  OBVIOUS
<1>2. words # {} /\ 100 * Cardinality(few) >= threshold * Cardinality(words)
  BY DEF Overlaps
<1> HIDE DEF few, more
<1>3. IsFiniteSet(more) /\ Cardinality(few) \in Nat /\ Cardinality(more) \in Nat
      /\ Cardinality(words) \in Nat /\ Cardinality(few) <= Cardinality(more)
  BY <1>1, FS_Subset, FS_CardinalityType
<1>4. threshold * Cardinality(words) \in Nat
  BY <1>3
<1>5. \A a, b, n \in Nat : a <= b /\ 100 * a >= n => 100 * b >= n
  OBVIOUS
<1>6. 100 * Cardinality(more) >= threshold * Cardinality(words)
  BY <1>2, <1>3, <1>4, <1>5
<1> QED BY <1>2, <1>6 DEF Overlaps, more

LEMMA LexicalIsFinite ==
  ASSUME NEW v
  PROVE  IsFiniteSet(Lexical(v).words) /\ IsFiniteSet(Lexical(v).role)
<1>1. CASE v \in DOMAIN Lexicon
  BY <1>1, LexiconIsFinite DEF Lexical
<1>2. CASE v \notin DOMAIN Lexicon
  BY <1>2, FS_EmptySet DEF Lexical
<1> QED BY <1>1, <1>2

LEMMA BackedMore ==
  ASSUME NEW v, NEW f, NEW S, NEW T, S \subseteq T
  PROVE  Backed(v, f, S) => Backed(v, f, T)
<1>1. Threshold(f) \in Nat
  BY DEF Threshold
<1>2. Overlaps(Lexical(v).words, S, Threshold(f)) => Overlaps(Lexical(v).words, T, Threshold(f))
  BY <1>1, LexicalIsFinite, OverlapsMore
<1>3. ASSUME f = "why", \E m \in Motives : v \in m.values /\ m.grounds \cap S # {}
      PROVE  \E m \in Motives : v \in m.values /\ m.grounds \cap T # {}
  BY <1>3
<1> QED BY <1>2, <1>3 DEF Backed

LEMMA AttestedMore ==
  ASSUME NEW v, NEW S, NEW T, S \subseteq T
  PROVE  Attested(v, S) => Attested(v, T)
<1>1. Backed(v, "who", S) => Backed(v, "who", T)
  BY BackedMore
<1>2. Overlaps(Lexical(v).role, S, 50) => Overlaps(Lexical(v).role, T, 50)
  BY LexicalIsFinite, OverlapsMore
<1>3. UnknownPatterns \cap S # {} => UnknownPatterns \cap T # {}
  OBVIOUS
<1>4. BackedRole(v, S) => BackedRole(v, T)
  BY <1>1, <1>2, <1>3 DEF BackedRole
<1> QED BY <1>4 DEF Attested

LEMMA RestsMore ==
  ASSUME NEW values, NEW f, NEW S, NEW T, S \subseteq T, Rests(values, f, S)
  PROVE  Rests(values, f, T)
BY AttestedMore, BackedMore DEF Rests

LEMMA FirstFoundIsAmong ==
  ASSUME NEW alternatives, NEW f, NEW S, Len(alternatives) \in Nat,
         \A i \in 1..Len(alternatives) : alternatives[i][1] \subseteq S
  PROVE  Among(FirstFound(alternatives), f, S)
<1> DEFINE I == {i \in 1..Len(alternatives) : alternatives[i][1] # {}}
           k == IF I # {} THEN Min(I) ELSE 0
<1>1. FirstFound(alternatives) =
        IF k = 0 THEN NotFound
        ELSE Found(alternatives[k][2], {The(alternatives[k][1])}, alternatives[k][3])
  BY DEF FirstFound, SelectInSeq
<1>2. I # {} => Min(I) \in I
  <2>1. I \in SUBSET Nat
    OBVIOUS
  <2> HIDE DEF I
  <2> QED BY <2>1, SmallestIs
<1>3. k # 0 => k \in I
  BY <1>2
<1>4. k # 0 => The(alternatives[k][1]) \in S
  BY <1>3, TheIs
<1> HIDE DEF k
<1>5. /\ FirstFound(alternatives).value \subseteq S
      /\ FirstFound(alternatives).evidence \subseteq S
  BY <1>1, <1>4 DEF NotFound, Found, MakeField
<1> QED BY <1>5, QuotedRests DEF Among

\* Fields, roles and instants all rest on S.
Stands(fs, S) ==
  /\ \A f \in Fields : Among(fs[f], f, S)
  /\ \A r \in ToSet(Roles) : Rests(fs["who"].parts[r].values, "who", S)
  /\ \A t \in ToSet(Temporal) : Rests(fs["when"].parts[t].values, "when", S)

WhoStands(field, S) ==
  Among(field, "who", S) /\ \A r \in ToSet(Roles) : Rests(field.parts[r].values, "who", S)

LEMMA WhoFieldStands ==
  ASSUME NEW parts, NEW evidence, NEW fallback, NEW S,
         DOMAIN parts = ToSet(Roles), \A r \in ToSet(Roles) : Rests(parts[r].values, "who", S),
         evidence \subseteq S \cup StockEvidence, WhoStands(fallback, S),
         NEW field, field = WhoField(parts, evidence)
  PROVE  WhoStands(IF field = {} THEN fallback ELSE The(field), S)
<1>1. CASE field = {}
  BY <1>1
<1>2. CASE field # {}
  <2>1. PICK status, score : field = {MakeField(status, UNION {parts[r].values : r \in DOMAIN parts},
                                                score, parts, evidence)}
    BY <1>2, WhoFieldIs
  <2> DEFINE value == UNION {parts[r].values : r \in DOMAIN parts}
  <2>2. The(field) = MakeField(status, value, score, parts, evidence)
    BY <2>1, TheIs
  <2>3. Rests(value, "who", S)
    BY DEF Rests
  <2> HIDE DEF value
  <2>4. /\ The(field).value = value /\ The(field).evidence = evidence
        /\ The(field).parts = parts
    BY <2>2 DEF MakeField
  <2> QED BY <1>2, <2>3, <2>4 DEF WhoStands, Among
<1> QED BY <1>1, <1>2

\* The rules take what they come across.
LEMMA RulesStand ==
  ASSUME NEW h, NEW S,
         \A k \in Phrases : h[k] \subseteq S,
         \A r \in ToSet(Roles) : h.names[r] \subseteq S,
         \A x \in h.places : x.at \in S /\ x.score \in Int /\ x.score <= 104,
         h.unknowns \subseteq DOMAIN Standard
  PROVE  Stands(HeuristicFields(h), S)
<1>0. /\ h.subject \subseteq S /\ h.whatLabel \subseteq S /\ h.event \subseteq S
      /\ h.whenLabel \subseteq S /\ h.date \subseteq S /\ h.time \subseteq S /\ h.header \subseteq S
      /\ h.whyLabel \subseteq S /\ h.reason \subseteq S /\ h.howLabel \subseteq S
      /\ h.method \subseteq S /\ h.unknowns \subseteq S
  BY DEF Phrases
<1>1. WhoStands(HeuristicWho(h), S)
  <2> DEFINE inferred(r) == r = "who.victim" /\ h.names[r] # RoleNames(h, r)
             parts == [r \in ToSet(Roles) |-> Component(RoleNames(h, r), inferred(r))]
             evidence == (UNION {h.names[r] : r \in ToSet(Roles)}) \cup h.unknowns
                         \cup {e \in StockEvidence :
                                 \/ e = "Signature block" /\ h.signed
                                 \/ /\ e = "Victim inferred from first-person complaint narration."
                                    /\ inferred("who.victim")}
             field == WhoField(parts, evidence)
             nobody == MakeField("missing", {}, 0, parts, {})
  <2>1. \A r \in ToSet(Roles) : Rests(RoleNames(h, r), "who", S)
    <3>1. \A r \in ToSet(Roles) : Rests(h.names[r], "who", S)
      BY QuotedRests
    <3>2. Rests({Standard[m] : m \in h.unknowns}, "who", S)
      BY <1>0 DEF Rests, Attested
    <3>3. \A r \in ToSet(Roles) : Rests(h.names[r] \cup {Standard[m] : m \in h.unknowns}, "who", S)
      BY <3>1, <3>2, RestsTogether
    <3> QED BY <3>1, <3>3, RolesAre DEF RoleNames
  <2>2. DOMAIN parts = ToSet(Roles) /\ \A r \in ToSet(Roles) : Rests(parts[r].values, "who", S)
    <3> SUFFICES ASSUME NEW r \in ToSet(Roles) PROVE Rests(parts[r].values, "who", S)
      OBVIOUS
    <3>1. parts[r] = Component(RoleNames(h, r), inferred(r))
      OBVIOUS
    <3> HIDE DEF inferred, parts
    <3>2. parts[r].values = RoleNames(h, r)
      BY <3>1, ComponentHolds
    <3> QED BY <2>1, <3>2
  <2>3. evidence \subseteq S \cup StockEvidence
    BY <1>0
  <2>4. HeuristicWho(h) = IF field = {} THEN nobody ELSE The(field)
    BY DEF HeuristicWho
  <2> HIDE DEF parts, evidence
  <2>5. WhoStands(nobody, S)
    <3>1. nobody.value = {} /\ nobody.evidence = {} /\ nobody.parts = parts
      BY DEF MakeField
    <3> HIDE DEF nobody
    <3> QED BY <2>2, <3>1, QuotedRests DEF WhoStands, Among
  <2> HIDE DEF nobody
  <2> QED BY <2>2, <2>3, <2>4, <2>5, WhoFieldStands
<1>2. Among(HeuristicWhat(h), "what", S)
  <2>1. CASE h.subject # {}
    <3> DEFINE field == MakeField("present", {The(h.subject)}, 92, <<>>, {"Subject"})
    <3>1. HeuristicWhat(h) = field
      BY <2>1 DEF HeuristicWhat
    <3>2. field.value \subseteq S /\ field.evidence \subseteq StockEvidence
      BY <1>0, <2>1, TheIs DEF MakeField, StockEvidence
    <3> HIDE DEF field
    <3> QED BY <3>1, <3>2, QuotedRests DEF Among
  <2>2. CASE h.subject = {}
    <3> DEFINE ways == << <<h.whatLabel, "present", 86>>,
                          <<h.event, IF h.strong THEN "present" ELSE "uncertain",
                                     IF h.strong THEN 84 ELSE 58>> >>
    <3>1. Len(ways) = 2 /\ \A i \in 1..Len(ways) : ways[i][1] \subseteq S
      BY <1>0
    <3>2. HeuristicWhat(h) = FirstFound(ways)
      BY <2>2 DEF HeuristicWhat
    <3> HIDE DEF ways
    <3> QED BY <3>1, <3>2, FirstFoundIsAmong
  <2> QED BY <2>1, <2>2
<1>3. /\ Among(HeuristicWhen(h), "when", S)
      /\ \A t \in ToSet(Temporal) : Rests(HeuristicWhen(h).parts[t].values, "when", S)
  <2> DEFINE date == IF h.date # {} THEN h.date ELSE h.header
             field == HeuristicWhen(h)
  <2>1. /\ field.value \subseteq S /\ field.evidence \subseteq S \cup StockEvidence
        /\ field.parts = Instants(date, h.time)
    BY <1>0 DEF HeuristicWhen, MakeField, StockEvidence
  <2>2. \A t \in ToSet(Temporal) : Instants(date, h.time)[t].values \subseteq S
    BY <1>0, RolesAre DEF Instants
  <2> HIDE DEF field, date
  <2> QED BY <2>1, <2>2, QuotedRests DEF Among, field
<1>4. Among(HeuristicWhere(h), "where", S)
  <2>1. CASE h.places = {}
    <3>1. HeuristicWhere(h).value = {} /\ HeuristicWhere(h).evidence = {}
      BY <2>1 DEF HeuristicWhere, NotFound, Found, MakeField
    <3> QED BY <3>1, QuotedRests DEF Among
  <2>2. CASE h.places # {}
    <3> DEFINE below == {104 - x.score : x \in h.places}
    <3>1. below \in SUBSET Nat /\ below # {}
      BY <2>2
    <3>2. PICK b \in below : \A c \in below : b <= c
      BY <3>1, SmallestOf
    <3>3. \E x \in h.places : \A y \in h.places : y.score <= x.score
      <4>1. PICK x \in h.places : b = 104 - x.score
        BY <3>2
      <4>2. \A y \in h.places : b <= 104 - y.score
        BY <3>2
      <4> QED BY <4>1, <4>2
    <3>4. PICK x \in h.places : HeuristicWhere(h) =
            MakeField("present", {x.at}, x.score, <<>>,
                      IF x.above THEN {"above address reference"} ELSE {x.at})
      BY <2>2, <3>3 DEF HeuristicWhere
    <3> DEFINE quoted == IF x.above THEN {"above address reference"} ELSE {x.at}
    <3>5. /\ HeuristicWhere(h).value = {x.at}
          /\ HeuristicWhere(h).evidence = {"above address reference"}
             \/ HeuristicWhere(h).evidence = {x.at}
      <4>1. quoted = {"above address reference"} \/ quoted = {x.at}
        BY Zenon
      <4>2. HeuristicWhere(h) = MakeField("present", {x.at}, x.score, <<>>, quoted)
        BY <3>4, Zenon
      <4>3. /\ MakeField("present", {x.at}, x.score, <<>>, quoted).value = {x.at}
            /\ MakeField("present", {x.at}, x.score, <<>>, quoted).evidence = quoted
        BY Zenon DEF MakeField
      <4> HIDE DEF quoted
      <4> QED BY <4>1, <4>2, <4>3
    <3>6. /\ HeuristicWhere(h).value \subseteq S
          /\ HeuristicWhere(h).evidence \subseteq S \cup StockEvidence
      BY <3>5 DEF StockEvidence
    <3> QED BY <3>6, QuotedRests DEF Among
  <2> QED BY <2>1, <2>2
<1>5. Among(HeuristicWhy(h), "why", S)
  BY <1>0, FirstFoundIsAmong DEF HeuristicWhy
<1>6. Among(HeuristicHow(h), "how", S)
  <2>1. CASE h.howLabel = {} /\ h.subject # {} /\ h.inBus
    <3> DEFINE field == MakeField("present", {BusJourney}, 80, <<>>, {The(h.subject)})
    <3>1. HeuristicHow(h) = field
      BY <2>1 DEF HeuristicHow
    <3>2. field.value = {BusJourney} /\ field.evidence \subseteq S
      BY <1>0, <2>1, TheIs DEF MakeField
    <3> HIDE DEF field
    <3>3. Rests({BusJourney}, "how", S)
      BY DEF Rests
    <3> QED BY <3>1, <3>2, <3>3 DEF Among
  <2>2. CASE ~(h.howLabel = {} /\ h.subject # {} /\ h.inBus)
    <3> DEFINE ways == << <<h.howLabel, "present", 82>>, <<h.method, "present", 80>>,
                          <<h.event, IF h.strong THEN "present" ELSE "uncertain",
                                     IF h.strong THEN 72 ELSE 56>> >>
    <3>1. Len(ways) = 3 /\ \A i \in 1..Len(ways) : ways[i][1] \subseteq S
      BY <1>0
    <3>2. HeuristicHow(h) = FirstFound(ways)
      BY <2>2 DEF HeuristicHow
    <3> HIDE DEF ways
    <3> QED BY <3>1, <3>2, FirstFoundIsAmong
  <2> QED BY <2>1, <2>2
<1> DEFINE fs == HeuristicFields(h)
<1>7. /\ fs["who"] = HeuristicWho(h) /\ fs["what"] = HeuristicWhat(h)
      /\ fs["when"] = HeuristicWhen(h) /\ fs["where"] = HeuristicWhere(h)
      /\ fs["why"] = HeuristicWhy(h) /\ fs["how"] = HeuristicHow(h)
  BY RolesAre DEF HeuristicFields
<1> HIDE DEF fs
<1>8. \A f \in Fields : Among(fs[f], f, S)
  BY <1>1, <1>2, <1>3, <1>4, <1>5, <1>6, <1>7, RolesAre DEF WhoStands
<1>9. /\ \A r \in ToSet(Roles) : Rests(fs["who"].parts[r].values, "who", S)
      /\ \A t \in ToSet(Temporal) : Rests(fs["when"].parts[t].values, "when", S)
  BY <1>1, <1>3, <1>7 DEF WhoStands
<1> QED BY <1>8, <1>9 DEF Stands, fs

\* An answer that quotes the source and whose every value rests on it.
IsStated(a, f, S) ==
  /\ a.evidence \subseteq S
  /\ f = "who" => \A r \in ToSet(Roles) : Rests(a[r], "who", S)
  /\ f # "who" => Rests(a.value, f, S)
  /\ f = "when" => Rests(a.date, f, S) /\ Rests(a.time, f, S)

Keyed(answer, f) == answer = [k \in AnswerKeys(f) |-> answer[k]]

\* What is supported rests on the source.
LEMMA SupportedRests ==
  ASSUME NEW values, NEW f, NEW source
  PROVE  Rests(Supported(values, f, source), f, source)
BY DEF Supported, Rests, Attested

LEMMA WhoIsStated ==
  ASSUME NEW answer, NEW source, NEW settings, Keyed(answer, "who")
  PROVE  LET v == ValidateWho(answer, source, settings).answer
         IN  v = {} \/ \E a : v = {a} /\ IsStated(a, "who", source)
<1> DEFINE checked  == Evidenced(answer, source, settings)
           accepted == [k \in DOMAIN answer |->
                          IF k \in ToSet(Roles) THEN Supported(answer[k], "who", source)
                          ELSE checked.answer[k]]
           v == ValidateWho(answer, source, settings)
<1>1. v.answer = {} \/ v.answer = {accepted}
  BY DEF ValidateWho
<1>2. checked.answer = [answer EXCEPT !.evidence = answer.evidence \cap source]
  BY DEF Evidenced
<1>3. DOMAIN answer = {"confidence", "evidence"} \cup ToSet(Roles) /\ "evidence" \notin ToSet(Roles)
  BY RolesAre DEF Keyed, AnswerKeys
<1> HIDE DEF checked, v
<1>4. checked.answer["evidence"] = answer.evidence \cap source
  BY <1>2, <1>3
<1>5. accepted.evidence = answer.evidence \cap source
  BY <1>3, <1>4
<1>6. \A r \in ToSet(Roles) : accepted[r] = Supported(answer[r], "who", source)
  BY <1>3
<1> HIDE DEF accepted
<1>7. IsStated(accepted, "who", source)
  BY <1>5, <1>6, SupportedRests DEF IsStated
<1> QED BY <1>1, <1>7 DEF v

LEMMA FieldIsStated ==
  ASSUME NEW f \in Fields, f # "who", NEW answer, NEW source, NEW settings, Keyed(answer, f)
  PROVE  LET v == ValidateField(answer, f, source, settings).answer
         IN  v = {} \/ \E a : v = {a} /\ IsStated(a, f, source)
<1> DEFINE checked == Evidenced(answer, source, settings)
           stated  == Supported(answer.value \ Undeclared, f, source)
           date    == Supported(answer.date, f, source)
           time    == Supported(answer.time, f, source)
           kept    == IF stated # {} THEN stated ELSE date \cup time
           found_  == answer.evidence \cap source
           v == ValidateField(answer, f, source, settings)
<1>1. checked.answer = [answer EXCEPT !.evidence = found_]
  BY DEF Evidenced
<1>2. /\ f = "when" => v.answer = {} \/
           v.answer = {[checked.answer EXCEPT !.value = kept, !.date = date, !.time = time]}
      /\ f # "when" => v.answer = {} \/ v.answer = {[checked.answer EXCEPT !.value = stated]}
  BY DEF ValidateField
<1>3. /\ Rests(stated, f, source) /\ Rests(date, f, source) /\ Rests(time, f, source)
      /\ found_ \subseteq source
  BY SupportedRests
<1> HIDE DEF stated, date, time
<1>8. Rests(kept, f, source)
  BY <1>3, RestsTogether
<1> HIDE DEF checked, kept, found_, v
<1>4. /\ "value" \in DOMAIN answer /\ "evidence" \in DOMAIN answer
      /\ f = "when" => "date" \in DOMAIN answer /\ "time" \in DOMAIN answer
  BY DEF Keyed, AnswerKeys
<1>5. checked.answer["evidence"] = found_ /\ DOMAIN checked.answer = DOMAIN answer
  BY <1>1, <1>4
<1>6. CASE f = "when"
  <2> DEFINE a == [checked.answer EXCEPT !.value = kept, !.date = date, !.time = time]
  <2>1. a.evidence = found_ /\ a.value = kept /\ a.date = date /\ a.time = time
    BY <1>4, <1>5, <1>6
  <2>2. v.answer = {} \/ v.answer = {a}
    BY <1>2, <1>6
  <2> HIDE DEF a
  <2>3. IsStated(a, f, source)
    BY <1>3, <1>8, <1>6, <2>1 DEF IsStated
  <2> QED BY <2>2, <2>3 DEF v
<1>7. CASE f # "when"
  <2> DEFINE a == [checked.answer EXCEPT !.value = stated]
  <2>1. a.evidence = found_ /\ a.value = stated
    BY <1>4, <1>5
  <2>2. v.answer = {} \/ v.answer = {a}
    BY <1>2, <1>7
  <2> HIDE DEF a
  <2>3. IsStated(a, f, source)
    BY <1>3, <1>7, <2>1 DEF IsStated
  <2> QED BY <2>2, <2>3 DEF v
<1> QED BY <1>6, <1>7

\* An answer that stands is one that rests on the source.
LEMMA AnswersAreStated ==
  ASSUME NEW answers, NEW source, NEW settings,
         \A f \in Fields : answers[f] # None => Keyed(answers[f], f)
  PROVE  \A f \in Fields :
           LET v == ValidateAnswers(answers, source, settings)[f]
           IN  v = {} \/ \E a : v = {a} /\ IsStated(a, f, source)
<1> SUFFICES ASSUME NEW f \in Fields
             PROVE  LET v == ValidateAnswers(answers, source, settings)[f]
                    IN  v = {} \/ \E a : v = {a} /\ IsStated(a, f, source)
  OBVIOUS
<1>1. ValidateAnswers(answers, source, settings)[f] =
        (IF ~Attempted(answers[f], f) THEN [answer |-> {}, reason |-> "not_attempted"]
         ELSE IF f = "who" THEN ValidateWho(answers[f], source, settings)
         ELSE ValidateField(answers[f], f, source, settings)).answer
  BY DEF ValidateAnswers, Validate
<1>2. CASE ~Attempted(answers[f], f)
  BY <1>1, <1>2
<1>3. CASE Attempted(answers[f], f)
  <2>1. Keyed(answers[f], f)
    BY <1>3 DEF Attempted
  <2> QED BY <1>1, <1>3, <2>1, WhoIsStated, FieldIsStated
<1> QED BY <1>2, <1>3

\* Merging answers into fields.

LEMMA WhoMerges ==
  ASSUME NEW a, NEW fallback, NEW S, IsStated(a, "who", S), WhoStands(fallback, S),
         NEW field, field = WhoFromAnswer(a, fallback)
  PROVE  /\ WhoStands(field, S)
         /\ \A r \in ToSet(Roles) : fallback.parts[r].values # {} => field.parts[r].values # {}
         /\ fallback.status # "missing" => field.status # "missing"
<1> DEFINE names(r) == IF a[r] # {} THEN a[r] ELSE fallback.parts[r].values
           c(r) == Component(names(r), fallback.parts[r].inferred)
           score(r) == IF LabelScore(a.confidence) > c(r).score
                       THEN LabelScore(a.confidence) ELSE c(r).score
           part(r) == IF c(r).status = "missing" THEN c(r)
                      ELSE [c(r) EXCEPT !.score = score(r),
                              !.status = IF @ = "present" /\ score(r) < 72 THEN "uncertain" ELSE @]
           parts == [r \in ToSet(Roles) |-> part(r)]
           evidence == IF a.evidence # {} THEN a.evidence ELSE fallback.evidence
           whole == WhoField(parts, evidence)
<1>1. field = IF whole = {} THEN fallback ELSE The(whole)
  BY DEF WhoFromAnswer
<1>2. \A r \in ToSet(Roles) : parts[r].values = names(r)
  <2> SUFFICES ASSUME NEW r \in ToSet(Roles) PROVE part(r).values = names(r)
    OBVIOUS
  <2> HIDE DEF names
  <2>1. c(r) = Component(names(r), fallback.parts[r].inferred)
    OBVIOUS
  <2> HIDE DEF c, score
  <2>2. [c(r) EXCEPT !.score = score(r),
           !.status = IF @ = "present" /\ score(r) < 72 THEN "uncertain" ELSE @].values = names(r)
    BY <2>1, RaisedHolds
  <2> QED BY <2>1, <2>2, ComponentHolds
<1>3. \A r \in ToSet(Roles) : Rests(names(r), "who", S)
  BY DEF IsStated, WhoStands
<1>4. evidence \subseteq S \cup StockEvidence /\ DOMAIN parts = ToSet(Roles)
  BY DEF IsStated, WhoStands, Among
<1> HIDE DEF part, parts, evidence
<1>5. WhoStands(field, S)
  <2>1. \A r \in ToSet(Roles) : Rests(parts[r].values, "who", S)
    BY <1>2, <1>3
  <2> HIDE DEF whole
  <2>2. WhoStands(IF whole = {} THEN fallback ELSE The(whole), S)
    BY <1>4, <2>1, WhoFieldStands DEF whole
  <2> QED BY <1>1, <2>2
<1>6. CASE whole = {}
  BY <1>1, <1>5, <1>6
<1>7. CASE whole # {}
  <2> DEFINE value == UNION {parts[r].values : r \in DOMAIN parts}
  <2>0. PICK status \in {"present", "uncertain"} :
          \E n : whole = {MakeField(status, value, n, parts, evidence)}
    BY <1>7, WhoFieldIs
  <2>1. PICK n : whole = {MakeField(status, value, n, parts, evidence)}
    BY <2>0
  <2>2. field = MakeField(status, value, n, parts, evidence)
    BY <1>1, <1>7, <2>1, TheIs
  <2>3. field.parts = parts /\ field.status = status
    BY <2>2 DEF MakeField
  <2>4. \A r \in ToSet(Roles) : fallback.parts[r].values # {} => names(r) # {}
    OBVIOUS
  <2> QED BY <1>2, <1>5, <2>0, <2>3, <2>4
<1> QED BY <1>6, <1>7

WhenStands(field, S) == \A t \in ToSet(Temporal) : Rests(field.parts[t].values, "when", S)

LEMMA FieldMerges ==
  ASSUME NEW f, f # "who", NEW a, NEW fallback, NEW S, IsStated(a, f, S), Among(fallback, f, S),
         f = "when" => WhenStands(fallback, S),
         NEW field, field = FieldFromAnswer(a, fallback, f)
  PROVE  /\ Among(field, f, S)
         /\ f = "when" => WhenStands(field, S)
         /\ fallback.status # "missing" => field.status # "missing"
<1> DEFINE evidence == IF a.evidence # {} THEN a.evidence ELSE fallback.evidence
           status == IF LabelScore(a.confidence) >= 72 THEN "present" ELSE "uncertain"
<1>1. field = fallback \/ \E parts : 
        /\ field = MakeField(status, a.value, LabelScore(a.confidence), parts, evidence)
        /\ f = "when" => parts = Instants(a.date, a.time)
  BY DEF FieldFromAnswer
<1>2. evidence \subseteq S \cup StockEvidence /\ Rests(a.value, f, S) /\ status # "missing"
  BY DEF IsStated, Among
<1> HIDE DEF evidence, status
<1>3. CASE field = fallback
  BY <1>3
<1>4. ASSUME NEW parts,
             field = MakeField(status, a.value, LabelScore(a.confidence), parts, evidence),
             f = "when" => parts = Instants(a.date, a.time)
      PROVE  /\ Among(field, f, S)
             /\ f = "when" => WhenStands(field, S)
             /\ field.status # "missing"
  <2>1. /\ field.value = a.value /\ field.evidence = evidence /\ field.status = status
        /\ field.parts = parts
    BY <1>4 DEF MakeField
  <2>2. f = "when" => \A t \in ToSet(Temporal) : Rests(Instants(a.date, a.time)[t].values, "when", S)
    BY RolesAre DEF Instants, IsStated
  <2> QED BY <1>2, <1>4, <2>1, <2>2 DEF Among, WhenStands
<1> QED BY <1>1, <1>3, <1>4

\* No role and no field that the rules filled is emptied.
Keeps(old, new) ==
  /\ \A r \in ToSet(Roles) : old["who"].parts[r].values # {} => new["who"].parts[r].values # {}
  /\ \A f \in Fields : old[f].status # "missing" => new[f].status # "missing"

LEMMA FieldsMerge ==
  ASSUME NEW rules, NEW answers, NEW S, Stands(rules, S),
         \A f \in Fields : answers[f] = {} \/ \E a : answers[f] = {a} /\ IsStated(a, f, S)
  PROVE  Stands(MergeFields(rules, answers), S) /\ Keeps(rules, MergeFields(rules, answers))
<1> DEFINE fs == MergeFields(rules, answers)
<1>1. \A f \in Fields : fs[f] =
        IF answers[f] = {} THEN rules[f]
        ELSE IF f = "who" THEN WhoFromAnswer(The(answers[f]), rules[f])
        ELSE FieldFromAnswer(The(answers[f]), rules[f], f)
  BY DEF MergeFields
<1> HIDE DEF fs
<1>2. \A f \in Fields : answers[f] # {} => IsStated(The(answers[f]), f, S)
  BY TheIs
<1>3. "who" \in Fields /\ "when" \in Fields
  BY RolesAre
<1>4. /\ WhoStands(fs["who"], S)
      /\ \A r \in ToSet(Roles) :
           rules["who"].parts[r].values # {} => fs["who"].parts[r].values # {}
      /\ rules["who"].status # "missing" => fs["who"].status # "missing"
  <2>1. WhoStands(rules["who"], S)
    BY <1>3 DEF Stands, WhoStands
  <2> QED BY <1>1, <1>2, <1>3, <2>1, WhoMerges
<1>5. \A f \in Fields \ {"who"} :
        /\ Among(fs[f], f, S)
        /\ f = "when" => WhenStands(fs[f], S)
        /\ rules[f].status # "missing" => fs[f].status # "missing"
  <2> SUFFICES ASSUME NEW f \in Fields \ {"who"}
               PROVE  /\ Among(fs[f], f, S)
                      /\ f = "when" => WhenStands(fs[f], S)
                      /\ rules[f].status # "missing" => fs[f].status # "missing"
    OBVIOUS
  <2>1. /\ Among(rules[f], f, S)
        /\ f = "when" => WhenStands(rules[f], S)
    BY DEF Stands, WhenStands
  <2>2. CASE answers[f] = {}
    BY <1>1, <2>1, <2>2
  <2>3. CASE answers[f] # {}
    <3>1. fs[f] = FieldFromAnswer(The(answers[f]), rules[f], f) /\ IsStated(The(answers[f]), f, S)
      BY <1>1, <1>2, <2>3
    <3> QED BY <2>1, <3>1, FieldMerges
  <2> QED BY <2>2, <2>3
<1>6. Stands(fs, S)
  BY <1>3, <1>4, <1>5 DEF Stands, WhoStands, WhenStands
<1>7. Keeps(rules, fs)
  BY <1>3, <1>4, <1>5 DEF Keeps
<1> QED BY <1>6, <1>7 DEF fs

-----------------------------------------------------------------------------
\* The FIR draft names what the fields hold.

LEMMA RoleValuesStand ==
  ASSUME NEW fs, NEW roles, NEW S, Len(roles) \in Nat,
         \A i \in 1..Len(roles) : Rests(fs["who"].parts[roles[i]].values, "who", S)
  PROVE  Rests(RoleValues(fs, roles), "who", S)
<1> DEFINE I == {i \in 1..Len(roles) : fs["who"].parts[roles[i]].values # {}}
           k == IF I # {} THEN Min(I) ELSE 0
<1>1. RoleValues(fs, roles) = IF k = 0 THEN {} ELSE fs["who"].parts[roles[k]].values
  BY DEF RoleValues, SelectInSeq
<1>2. I # {} => Min(I) \in I
  <2>1. I \in SUBSET Nat
    OBVIOUS
  <2> HIDE DEF I
  <2> QED BY <2>1, SmallestIs
<1>3. k # 0 => k \in 1..Len(roles)
  BY <1>2
<1> HIDE DEF k
<1> QED BY <1>1, <1>3, QuotedRests

LEMMA DraftStands ==
  ASSUME NEW fs, NEW questions, NEW sections, NEW S, Stands(fs, S), NEW speakers,
         speakers \subseteq S, NEW unidentified, unidentified \subseteq UnknownActors, NEW summary,
         NEW fir, fir = FirDraft(fs, questions, sections, speakers, unidentified, summary)
  PROVE  /\ \A entry \in {"informant", "victim", "witnesses"} : Rests(fir[entry], "who", S)
         /\ Rests(fir.accused \ UnknownActors, "who", S)
         /\ Rests(fir.date \cup fir.time, "when", S) /\ Rests(fir.place, "where", S)
<1> DEFINE informant == InformantName(fs, speakers)
           victim    == RoleValues(fs, <<"who.victim", "who.complainant">>)
           accused   == RoleValues(fs, <<"who.accused">>)
           witnesses == RoleValues(fs, <<"who.witnesses">>)
           names     == RoleValues(fs, <<"who.complainant", "who.victim">>)
           date      == fs["when"].parts["when.date"].values
<1>1. /\ fir.informant = informant
      /\ fir.victim = (IF victim # {} THEN victim ELSE informant)
      /\ fir.accused = (IF accused # {} THEN accused ELSE unidentified)
      /\ fir.witnesses = witnesses
      /\ fir.date = (IF date # {} THEN date ELSE fs["when"].value)
      /\ fir.time = fs["when"].parts["when.time"].values
      /\ fir.place = fs["where"].value
  BY DEF FirDraft
<1>2. /\ \A r \in ToSet(Roles) : Rests(fs["who"].parts[r].values, "who", S)
      /\ Rests(date, "when", S) /\ Rests(fs["when"].parts["when.time"].values, "when", S)
      /\ Rests(fs["when"].value, "when", S) /\ Rests(fs["where"].value, "where", S)
  BY RolesAre DEF Stands, Among
<1>3. Rests(victim, "who", S) /\ Rests(names, "who", S)
  BY <1>2, RolesAre, RoleValuesStand
<1>4. Rests(accused, "who", S) /\ Rests(witnesses, "who", S)
  BY <1>2, RolesAre, RoleValuesStand
<1> HIDE DEF victim, accused, witnesses, date
<1>5. Rests(informant, "who", S)
  <2>1. informant = IF names # {} THEN {The(names)}
                    ELSE IF speakers # {} THEN {The(speakers)} ELSE {}
    BY DEF InformantName
  <2> HIDE DEF informant, names
  <2>2. names # {} => Rests({The(names)}, "who", S)
    BY <1>3, TheIs DEF Rests
  <2>3. speakers # {} => Rests({The(speakers)}, "who", S)
    BY TheIs, QuotedRests
  <2>4. Rests({}, "who", S)
    BY QuotedRests
  <2> QED BY <2>1, <2>2, <2>3, <2>4
<1> HIDE DEF informant, names
<1>6. Rests(fir.accused \ UnknownActors, "who", S)
  BY <1>1, <1>4 DEF Rests
<1>7. Rests(fir.date \cup fir.time, "when", S)
  BY <1>1, <1>2, RestsTogether
<1> QED BY <1>1, <1>2, <1>3, <1>4, <1>5, <1>6, <1>7

-----------------------------------------------------------------------------
\* From the rules to the record.

Stated == StatedIn(Analysed) \cup StatedIn(Text)

ExtractInv ==
  /\ phase \in {"ask", "write", "done"} =>
       Stands(found, Stated) /\ Stands(fields, Stated) /\ Keeps(found, fields)
  /\ phase # "done" => record = None
  /\ NothingUnsupported

\* What is stated stays so, and what is read is stated.
LEMMA StatedStays ==
  ASSUME UNCHANGED <<document, translation, refinement>>
  PROVE  StatedIn(Analysed)' = StatedIn(Analysed) /\ StatedIn(Text)' = StatedIn(Text)
<1>1. Text' = Text /\ Analysed' = Analysed
  BY DEF Text, Analysed
<1> QED BY <1>1 DEF StatedIn, Said, At

LEMMA ExtractStands ==
  ASSUME ExtractInv, Extract
  PROVE  ExtractInv'
<1>1. PICK reading \in Readings : found' = HeuristicFields(Seen(reading))
  BY DEF Extract
<1>2. /\ phase = "extract" /\ phase' = "ask" /\ fields' = found' /\ record' = record
      /\ UNCHANGED <<document, translation, refinement>>
  BY DEF Extract
<1> DEFINE h == Seen(reading)
           S == StatedIn(Analysed)
<1>3. \A k \in DOMAIN reading : h[k] =
        CASE k = "names"  -> [r \in ToSet(Roles) |-> reading[k][r] \cap S]
          [] k = "places" -> {x \in reading[k] : x.at \in S}
          [] k \in {"firstPerson", "strong", "signed", "inBus"} -> reading[k]
          [] OTHER -> reading[k] \cap S
  BY DEF Seen
<1>4. DOMAIN reading = Phrases \cup {"names", "places", "firstPerson", "strong", "signed", "inBus"}
  BY ReadingsAreRead
<1> HIDE DEF h, S
<1>5. \A k \in Phrases : h[k] \subseteq S
  BY <1>3, <1>4 DEF Phrases
<1>6. h["names"] = [r \in ToSet(Roles) |-> reading["names"][r] \cap S]
  BY <1>3, <1>4
<1>7. h["places"] = {x \in reading["places"] : x.at \in S}
  BY <1>3, <1>4
<1>8. /\ \A r \in ToSet(Roles) : h.names[r] \subseteq S
      /\ \A x \in h.places : x.at \in S /\ x.score \in Int /\ x.score <= 104
  BY <1>6, <1>7, ReadingsAreRead
<1>9. h.unknowns \subseteq DOMAIN Standard
  <2>1. h["unknowns"] = reading["unknowns"] \cap S
    BY <1>3, <1>4 DEF Phrases
  <2> QED BY <2>1, ReadingsAreRead
<1>10. Stands(found', Stated')
  <2>1. S \subseteq Stated'
    BY <1>2, StatedStays DEF S, Stated
  <2>2. Stands(HeuristicFields(h), Stated')
    BY <1>5, <1>8, <1>9, <2>1, RulesStand
  <2> QED BY <1>1, <2>2 DEF h
<1>11. record' = None
  BY <1>2 DEF ExtractInv
<1> QED BY <1>2, <1>10, <1>11 DEF ExtractInv, Keeps, NothingUnsupported

LEMMA AskStands ==
  ASSUME ExtractInv, AskModel
  PROVE  ExtractInv'
<1>1. /\ phase = "ask" /\ phase' = "write" /\ found' = found /\ record' = record
      /\ UNCHANGED <<document, translation, refinement>>
  BY DEF AskModel
<1>2. Stands(found, Stated) /\ Stands(fields, Stated) /\ Keeps(found, fields) /\ record = None
  BY <1>1 DEF ExtractInv
<1>3. Stated' = Stated
  BY <1>1, StatedStays DEF Stated
<1>4. \/ fields' = fields
      \/ \E reply \in Replies :
           fields' = MergeFields(found, ValidateAnswers(reply.answers, Source, config))
  BY DEF AskModel
<1>5. ASSUME NEW reply \in Replies,
             fields' = MergeFields(found, ValidateAnswers(reply.answers, Source, config))
      PROVE  Stands(fields', Stated) /\ Keeps(found, fields')
  <2> DEFINE answers == ValidateAnswers(reply.answers, Source, config)
  <2>1. \A f \in Fields : reply.answers[f] # None => Keyed(reply.answers[f], f)
    BY AnswersAreRead DEF Keyed
  <2>2. \A f \in Fields : answers[f] = {} \/ \E a : answers[f] = {a} /\ IsStated(a, f, Source)
    BY <2>1, AnswersAreStated
  <2>3. Source \subseteq Stated
    <3>1. Body(Analysed) \subseteq ToSet(Units(Analysed))
      BY DEF Body
    <3>2. Said(Body(Analysed)) \subseteq StatedIn(Analysed)
      BY <3>1 DEF Said, StatedIn
    <3> QED BY <3>2 DEF Source, Stated
  <2>4. \A f \in Fields : \A a : IsStated(a, f, Source) => IsStated(a, f, Stated)
    BY <2>3, RestsMore DEF IsStated
  <2> HIDE DEF answers
  <2>5. \A f \in Fields : answers[f] = {} \/ \E a : answers[f] = {a} /\ IsStated(a, f, Stated)
    BY <2>2, <2>4
  <2> QED BY <1>2, <1>5, <2>5, FieldsMerge DEF answers
<1>6. Stands(fields', Stated) /\ Keeps(found, fields')
  BY <1>2, <1>4, <1>5
<1> QED BY <1>1, <1>2, <1>3, <1>6 DEF ExtractInv, NothingUnsupported

LEMMA WriteStands ==
  ASSUME ExtractInv, Write
  PROVE  ExtractInv'
<1>1. /\ phase = "write" /\ phase' = "done" /\ found' = found /\ fields' = fields
      /\ UNCHANGED <<document, translation, refinement>>
  BY DEF Write
<1>2. Stands(found, Stated) /\ Stands(fields, Stated) /\ Keeps(found, fields)
  BY <1>1 DEF ExtractInv
<1>3. PICK sections, questions, gaps, speakers, unidentified, summary :
        /\ record' = [gaps |-> gaps, fir |-> FirDraft(fields, questions, sections,
                                      speakers \cap StatedIn(Analysed), unidentified, summary)]
        /\ unidentified \subseteq UnknownActors
  BY DEF Write
<1> DEFINE fir == record'.fir
<1>4. /\ \A entry \in {"informant", "victim", "witnesses"} : Rests(fir[entry], "who", Stated)
      /\ Rests(fir.accused \ UnknownActors, "who", Stated)
      /\ Rests(fir.date \cup fir.time, "when", Stated) /\ Rests(fir.place, "where", Stated)
  <2>1. fir = FirDraft(fields, questions, sections,
                       speakers \cap StatedIn(Analysed), unidentified, summary)
    BY <1>3
  <2>2. speakers \cap StatedIn(Analysed) \subseteq Stated
    BY DEF Stated
  <2> HIDE DEF fir
  <2> QED BY <1>2, <1>3, <2>1, <2>2, DraftStands
<1> HIDE DEF fir
<1>5. StatedIn(Analysed)' \cup StatedIn(Text)' = Stated /\ Stated' = Stated
  BY <1>1, StatedStays DEF Stated
<1>6. \A f \in Fields : Rests(fields[f].value, f, Stated)
                        /\ fields[f].evidence \subseteq Stated \cup StockEvidence
  BY <1>2 DEF Stands, Among
<1>7. /\ \A v \in fields["who"].value : Attested(v, Stated)
      /\ \A v \in fields["how"].value \ {BusJourney} : Backed(v, "how", Stated)
      /\ \A f \in {"what", "when", "where", "why"} : \A v \in fields[f].value : Backed(v, f, Stated)
  BY <1>6, RolesAre DEF Rests
<1>8. /\ \A entry \in {"informant", "victim", "witnesses"} :
           \A v \in fir[entry] : Attested(v, Stated)
      /\ \A v \in fir.accused \ UnknownActors : Attested(v, Stated)
      /\ \A v \in fir.date \cup fir.time : Backed(v, "when", Stated)
      /\ \A v \in fir.place : Backed(v, "where", Stated)
  BY <1>4 DEF Rests
<1>9. NothingUnsupported'
  <2>1. /\ \A v \in fields'["who"].value : Attested(v, Stated)
        /\ \A v \in fields'["how"].value \ {BusJourney} : Backed(v, "how", Stated)
        /\ \A f \in {"what", "when", "where", "why"} :
             \A v \in fields'[f].value : Backed(v, f, Stated)
        /\ \A f \in Fields : fields'[f].evidence \subseteq Stated \cup StockEvidence
    BY <1>1, <1>6, <1>7
  <2> QED BY <1>5, <1>8, <2>1 DEF NothingUnsupported, fir
<1> QED BY <1>1, <1>2, <1>5, <1>9 DEF ExtractInv

\* Before the rules read the text there is no record.
LEMMA EarlyStands ==
  ASSUME ExtractInv, phase \notin {"ask", "write", "done"}, phase' \notin {"ask", "write", "done"},
         record' = record
  PROVE  ExtractInv'
BY DEF ExtractInv, NothingUnsupported

LEMMA StepStands == ExtractInv /\ [ParseNext]_parseVars => ExtractInv'
<1> SUFFICES ASSUME ExtractInv, [ParseNext]_parseVars PROVE ExtractInv'
  OBVIOUS
<1>1. CASE BeginTranslation \/ EndEnsemble \/ SkipRefinement
  BY <1>1, EarlyStands DEF BeginTranslation, EndEnsemble, SkipRefinement, complaint
<1>2. CASE TryNext
  BY <1>2, EarlyStands DEF TryNext, complaint
<1>3. CASE RefineViaOpenAI \/ RefineViaGemini
  BY <1>3, EarlyStands DEF RefineViaOpenAI, RefineViaGemini, RefineChunk, complaint
<1>4. CASE TranslateViaGoogle \/ TranslateViaOpenAI \/ TranslateViaGemini
  BY <1>4, EarlyStands DEF TranslateViaGoogle, TranslateViaOpenAI, TranslateViaGemini,
                           TranslateChunk, complaint
<1>5. ASSUME NEW p \in Providers, EstimateQuality(p) \/ Collect(p) PROVE ExtractInv'
  BY <1>5, EarlyStands DEF EstimateQuality, Collect, complaint
<1>6. CASE UNCHANGED parseVars
  <2>1. UNCHANGED <<document, phase, translation, refinement, found, fields, record>>
    BY <1>6 DEF parseVars, complaint
  <2>2. StatedIn(Analysed)' = StatedIn(Analysed) /\ StatedIn(Text)' = StatedIn(Text)
    BY <2>1, StatedStays
  <2>3. Stated' = Stated
    BY <2>2 DEF Stated
  <2> QED BY <2>1, <2>2, <2>3 DEF ExtractInv, NothingUnsupported
<1> QED BY <1>1, <1>2, <1>3, <1>4, <1>5, <1>6, ExtractStands, AskStands, WriteStands
        DEF ParseNext, Returned

LEMMA InitStands == ParseInit => ExtractInv
BY DEF ParseInit, ExtractInv, NothingUnsupported

\* Whatever the language model answers and whatever the rules come across: every field and
\* every party, date and place of the FIR draft goes back to the analysed text or the
\* original, verbatim or by as many of its words or grounds for it as the code asks for
\* (_validate_question_guided_answers, _value_supported_by_source,
\* _role_value_supported_by_source).
THEOREM RecordIsSupported == ParseSpec => []NothingUnsupported
<1>1. ExtractInv => NothingUnsupported
  BY DEF ExtractInv
<1> QED BY <1>1, InitStands, StepStands, PTL DEF ParseSpec

\* And no answer empties a role or a field the rules had filled (_merge_question_guided_fields).
THEOREM AnswersOnlyAdd == ParseSpec => []NothingIsLost
<1>1. ExtractInv => NothingIsLost
  BY DEF ExtractInv, NothingIsLost, Keeps
<1> QED BY <1>1, InitStands, StepStands, PTL DEF ParseSpec

-----------------------------------------------------------------------------
\* Recursion and sequences of sequences.

\* Values one after the other, each made of the one before.
Steps(a, b, n, step) == a[0] = b /\ \A i \in 1..n : a[i] = step[i][a[i - 1]]

\* There are such values: a least n for which there were none would have some.
LEMMA StepsExist ==
  ASSUME NEW V, NEW b \in V, NEW n \in Nat, NEW step \in [1..n -> [V -> V]]
  PROVE  \E a \in [0..n -> V] : Steps(a, b, n, step)
<1> DEFINE Can(m) == \E a \in [0..m -> V] : Steps(a, b, m, step)
           bad == {m \in 0..n : ~Can(m)}
<1>1. Can(0)
  <2>1. [i \in 0..0 |-> b] \in [0..0 -> V] /\ Steps([i \in 0..0 |-> b], b, 0, step)
    BY DEF Steps
  <2> QED BY <2>1
<1>2. ASSUME NEW m \in 1..n, Can(m - 1) PROVE Can(m)
  <2>1. PICK a \in [0..(m - 1) -> V] : Steps(a, b, m - 1, step)
    BY <1>2
  <2> DEFINE c == [i \in 0..m |-> IF i = m THEN step[m][a[m - 1]] ELSE a[i]]
  <2>2. a[m - 1] \in V /\ step[m] \in [V -> V]
    BY <2>1
  <2>3. c \in [0..m -> V]
    BY <2>1, <2>2
  <2>4. c[0] = b /\ \A i \in 1..m : c[i] = step[i][c[i - 1]]
    BY <2>1 DEF Steps
  <2> HIDE DEF c
  <2> QED BY <2>3, <2>4 DEF Steps
<1>3. bad = {}
  <2> SUFFICES ASSUME bad # {} PROVE FALSE
    OBVIOUS
  <2>1. bad \in SUBSET Nat
    OBVIOUS
  <2>2. PICK m \in bad : \A k \in bad : m <= k
    BY <2>1, SmallestOf
  <2> HIDE DEF Can
  <2>3. m \in 1..n /\ m - 1 \in 0..n /\ m - 1 \notin bad
    BY <1>1, <2>2
  <2> QED BY <1>2, <2>2, <2>3
<1>4. Can(n)
  BY <1>3
<1> QED BY <1>4

\* What FlattenSeq has put together after each sequence.
Run(U, s, a) ==
  a \in [0..Len(s) -> Seq(U)] /\ a[0] = <<>> /\ \A i \in 1..Len(s) : a[i] = a[i - 1] \o s[i]

LEMMA RunExists ==
  ASSUME NEW U, NEW s \in Seq(Seq(U))
  PROVE  \E a : Run(U, s, a)
<1> DEFINE V == Seq(U)
           step == [i \in 1..Len(s) |-> [v \in V |-> v \o s[i]]]
<1>1. step \in [1..Len(s) -> [V -> V]]
  OBVIOUS
<1>2. <<>> \in V /\ Len(s) \in Nat
  OBVIOUS
<1>3. PICK a \in [0..Len(s) -> V] : Steps(a, <<>>, Len(s), step)
  <2> HIDE DEF V, step
  <2> QED BY <1>1, <1>2, StepsExist
<1>4. \A i \in 1..Len(s) : a[i - 1] \in V
  <2> HIDE DEF V, step
  <2> QED BY <1>2, <1>3
<1>5. Run(U, s, a)
  BY <1>3, <1>4 DEF Run, Steps
<1> QED BY <1>5

LEMMA FlattenIs ==
  ASSUME NEW U, NEW s \in Seq(Seq(U)), NEW a, Run(U, s, a)
  PROVE  FlattenSeq(s) = a[Len(s)]
<1>1. CASE Len(s) = 0
  <2>1. s = <<>>
    BY <1>1
  <2> QED BY <1>1, <2>1 DEF FlattenSeq, Run
<1>2. CASE Len(s) # 0
  <2> DEFINE n == Len(s)
             eq(g) == [i \in 1..n |-> IF i = 1 THEN s[i] ELSE g[i - 1] \o s[i]]
             flatten == CHOOSE g : g = eq(g)
             c == [i \in 1..n |-> a[i]]
             bad == {i \in 1..n : flatten[i] # a[i]}
  <2>1. n \in Nat /\ n > 0
    BY <1>2
  <2>2. c = eq(c)
    <3>1. \A i \in 1..n : s[i] \in Seq(U) /\ a[i] = a[i - 1] \o s[i]
      BY ElementOfSeq DEF Run
    <3> HIDE DEF n
    <3>2. \A i \in 1..n : i = 1 => a[i] = s[i]
      <4>1. \A i \in 1..n : i = 1 => a[i - 1] = <<>>
        BY DEF Run
      <4>2. \A v \in Seq(U) : <<>> \o v = v
        BY ConcatEmptySeq
      <4> QED BY <3>1, <4>1, <4>2
    <3>3. \A i \in 1..n : i # 1 => a[i] = c[i - 1] \o s[i]
      <4>1. \A i \in 1..n : i # 1 => i - 1 \in 1..n
        BY <2>1
      <4> QED BY <3>1, <4>1
    <3>4. \A i \in 1..n : c[i] = IF i = 1 THEN s[i] ELSE c[i - 1] \o s[i]
      BY <3>2, <3>3
    <3>5. c = [i \in 1..n |-> c[i]]
      OBVIOUS
    <3> HIDE DEF c
    <3> QED BY <3>4, <3>5
  <2>3. flatten = eq(flatten)
    <3> HIDE DEF c, eq
    <3> QED BY <2>2
  <2>4. FlattenSeq(s) = flatten[n]
    BY <1>2 DEF FlattenSeq
  <2> HIDE DEF flatten, c
  <2>5. ASSUME NEW i \in 1..n, i # 1 => flatten[i - 1] = a[i - 1]
        PROVE  flatten[i] = a[i]
    <3>1. flatten[i] = IF i = 1 THEN s[i] ELSE flatten[i - 1] \o s[i]
      BY <2>3
    <3>2. c[i] = IF i = 1 THEN s[i] ELSE c[i - 1] \o s[i]
      BY <2>2
    <3>3. c[i] = a[i] /\ (i # 1 => c[i - 1] = a[i - 1])
      BY <2>1 DEF c
    <3> QED BY <2>5, <3>1, <3>2, <3>3
  <2>6. ASSUME bad # {} PROVE FALSE
    <3>1. bad \in SUBSET Nat
      BY <2>1
    <3>2. PICK i \in bad : \A k \in bad : i <= k
      BY <2>6, <3>1, SmallestOf
    <3>3. i \in 1..n /\ flatten[i] # a[i]
      BY <3>2
    <3>4. i # 1 => i - 1 \in 1..n /\ i - 1 \notin bad
      BY <2>1, <3>2, <3>3
    <3> QED BY <2>5, <3>3, <3>4
  <2>7. n \in 1..n
    BY <2>1
  <2> QED BY <2>4, <2>6, <2>7
<1> QED BY <1>1, <1>2

LEMMA FlattenType ==
  ASSUME NEW U, NEW s \in Seq(Seq(U))
  PROVE  FlattenSeq(s) \in Seq(U)
<1>1. PICK a : Run(U, s, a)
  BY RunExists
<1>2. FlattenSeq(s) = a[Len(s)] /\ Len(s) \in 0..Len(s)
  BY <1>1, FlattenIs
<1> QED BY <1>1, <1>2 DEF Run

LEMMA FlattenOne ==
  ASSUME NEW U, NEW x \in Seq(U)
  PROVE  FlattenSeq(<<x>>) = x
<1> DEFINE a == [i \in 0..1 |-> IF i = 0 THEN <<>> ELSE x]
<1>1. a \in [0..1 -> Seq(U)] /\ a[0] = <<>> /\ a[1] = x
  OBVIOUS
<1> HIDE DEF a
<1>2. <<>> \o x = x
  BY ConcatEmptySeq
<1>3. \A i \in 1..1 : i - 1 = 0 /\ i = 1
  OBVIOUS
<1>4. Len(<<x>>) = 1 /\ <<x>>[1] = x /\ <<x>> \in Seq(Seq(U))
  OBVIOUS
<1>5. \A i \in 1..1 : a[i] = a[i - 1] \o <<x>>[i]
  BY <1>1, <1>2, <1>3, <1>4
<1>6. Run(U, <<x>>, a)
  BY <1>1, <1>4, <1>5 DEF Run
<1> QED BY <1>1, <1>4, <1>6, FlattenIs

LEMMA Associates ==
  ASSUME NEW U
  PROVE  \A x, y, z \in Seq(U) : x \o (y \o z) = (x \o y) \o z
BY ConcatAssociative

LEMMA Appends ==
  ASSUME NEW U
  PROVE  \A s \in Seq(U), x \in U : Append(s, x) \in Seq(U) /\ Append(s, x) # <<>>
BY AppendProperties

LEMMA FlattenConcat ==
  ASSUME NEW U, NEW s \in Seq(Seq(U)), NEW t \in Seq(Seq(U))
  PROVE  FlattenSeq(s \o t) = FlattenSeq(s) \o FlattenSeq(t)
<1>1. PICK a : Run(U, s, a)
  BY RunExists
<1>2. PICK b : Run(U, t, b)
  BY RunExists
<1> DEFINE m == Len(s)
           n == Len(t)
           c == [i \in 0..(m + n) |-> IF i <= m THEN a[i] ELSE a[m] \o b[i - m]]
<1>3. m \in Nat /\ n \in Nat
  OBVIOUS
<1>4. /\ s \o t \in Seq(Seq(U)) /\ Len(s \o t) = m + n
      /\ \A i \in 1..(m + n) : (s \o t)[i] = IF i <= m THEN s[i] ELSE t[i - m]
  BY ConcatProperties
<1>5. /\ a \in [0..m -> Seq(U)] /\ a[0] = <<>> /\ \A i \in 1..m : a[i] = a[i - 1] \o s[i]
      /\ b \in [0..n -> Seq(U)] /\ b[0] = <<>> /\ \A i \in 1..n : b[i] = b[i - 1] \o t[i]
  BY <1>1, <1>2 DEF Run
<1>10. \A i \in 1..n : t[i] \in Seq(U)
  BY ElementOfSeq
<1> HIDE DEF m, n
<1>6. c \in [0..(m + n) -> Seq(U)]
  <2>1. ASSUME NEW i \in 0..(m + n), ~(i <= m) PROVE a[m] \o b[i - m] \in Seq(U)
    <3>1. a[m] \in Seq(U) /\ b[i - m] \in Seq(U)
      BY <1>3, <1>5, <2>1
    <3> QED BY <3>1, ConcatProperties
  <2>2. \A i \in 0..(m + n) : i <= m => a[i] \in Seq(U)
    BY <1>3, <1>5
  <2> QED BY <2>1, <2>2
<1>7. c[0] = <<>>
  BY <1>3, <1>5
<1>8. ASSUME NEW i \in 1..(m + n) PROVE c[i] = c[i - 1] \o (s \o t)[i]
  <2>1. CASE i <= m
    <3>1. c[i] = a[i] /\ c[i - 1] = a[i - 1]
      BY <1>3, <2>1
    <3>2. i \in 1..m
      BY <1>3, <2>1
    <3>3. (s \o t)[i] = s[i] /\ a[i] = a[i - 1] \o s[i]
      BY <1>4, <1>5, <2>1, <3>2
    <3> QED BY <3>1, <3>3
  <2>2. CASE i > m
    <3>1. i - m \in 1..n /\ ~(i <= m)
      BY <1>3, <2>2
    <3>2. b[i - m] = b[i - m - 1] \o t[i - m]
      BY <1>5, <3>1
    <3>3. a[m] \in Seq(U) /\ b[i - m - 1] \in Seq(U) /\ t[i - m] \in Seq(U)
      BY <1>3, <1>5, <1>10, <3>1
    <3>4. c[i] = (a[m] \o b[i - m - 1]) \o t[i - m]
      <4>1. c[i] = a[m] \o b[i - m]
        <5>1. i \in 0..(m + n)
          BY <1>3
        <5> QED BY <3>1, <5>1
      <4> HIDE DEF c
      <4>2. a[m] \o (b[i - m - 1] \o t[i - m]) = (a[m] \o b[i - m - 1]) \o t[i - m]
        <5>1. \A x, y, z \in Seq(U) : x \o (y \o z) = (x \o y) \o z
          BY Associates
        <5> QED BY <3>3, <5>1
      <4> QED BY <3>2, <4>1, <4>2
    <3>5. (s \o t)[i] = t[i - m]
      BY <1>4, <3>1
    <3>6. c[i - 1] = a[m] \o b[i - m - 1]
      <4>1. CASE i - 1 = m
        <5>1. c[i - 1] = a[m] /\ b[i - m - 1] = <<>>
          BY <1>3, <1>5, <4>1
        <5> QED BY <3>3, <5>1, ConcatEmptySeq
      <4>2. CASE i - 1 # m
        <5>1. i - 1 \in 0..(m + n) /\ ~(i - 1 <= m) /\ (i - 1) - m = i - m - 1
          BY <1>3, <2>2, <4>2
        <5> QED BY <5>1
      <4> QED BY <4>1, <4>2
    <3> HIDE DEF c
    <3> QED BY <3>4, <3>5, <3>6
  <2>3. i <= m \/ i > m
    BY <1>3
  <2> QED BY <2>1, <2>2, <2>3
<1>9. c[m + n] = a[m] \o b[n]
  <2>1. CASE n = 0
    <3>1. c[m + n] = a[m] /\ b[n] = <<>> /\ a[m] \in Seq(U)
      BY <1>3, <1>5, <2>1
    <3> QED BY <3>1, ConcatEmptySeq
  <2>2. CASE n # 0
    <3>1. m + n \in 0..(m + n) /\ ~(m + n <= m) /\ (m + n) - m = n
      BY <1>3, <2>2
    <3> QED BY <3>1
  <2> QED BY <2>1, <2>2
<1> HIDE DEF c
<1>11. Run(U, s \o t, c)
  BY <1>4, <1>6, <1>7, <1>8 DEF Run
<1>12. FlattenSeq(s \o t) = c[m + n]
  BY <1>4, <1>11, FlattenIs
<1>13. FlattenSeq(s) = a[m] /\ FlattenSeq(t) = b[n]
  BY <1>1, <1>2, FlattenIs DEF m, n
<1> QED BY <1>9, <1>12, <1>13

LEMMA FlattenAppend ==
  ASSUME NEW U, NEW s \in Seq(Seq(U)), NEW x \in Seq(U)
  PROVE  FlattenSeq(Append(s, x)) = FlattenSeq(s) \o x
<1>1. Append(s, x) = s \o <<x>> /\ <<x>> \in Seq(Seq(U))
  BY AppendIsConcat
<1>2. FlattenSeq(s \o <<x>>) = FlattenSeq(s) \o FlattenSeq(<<x>>)
  BY <1>1, FlattenConcat
<1>3. FlattenSeq(<<x>>) = x
  BY FlattenOne
<1> QED BY <1>1, <1>2, <1>3

\* What is taken apart one by one is put together again.
LEMMA FlattenSingles ==
  ASSUME NEW V, NEW p \in Seq(V)
  PROVE  /\ [n \in DOMAIN p |-> <<p[n]>>] \in Seq(Seq(V))
         /\ FlattenSeq([n \in DOMAIN p |-> <<p[n]>>]) = p
<1> DEFINE s == [n \in DOMAIN p |-> <<p[n]>>]
           a == [i \in 0..Len(p) |-> SubSeq(p, 1, i)]
<1>1. Len(p) \in Nat /\ DOMAIN p = 1..Len(p) /\ \A i \in 1..Len(p) : p[i] \in V
  BY LenProperties, ElementOfSeq
<1>2. s \in Seq(Seq(V)) /\ Len(s) = Len(p)
  <2>1. s \in [1..Len(p) -> Seq(V)]
    BY <1>1
  <2> HIDE DEF s
  <2> QED BY <1>1, <2>1, SeqDef
<1>3. a \in [0..Len(p) -> Seq(V)]
  <2>1. ASSUME NEW i \in 0..Len(p) PROVE SubSeq(p, 1, i) \in Seq(V)
    BY <1>1, SubSeqProperties
  <2> QED BY <2>1
<1>4. a[0] = <<>>
  <2>1. SubSeq(p, 1, 0) = <<>>
    BY SubSeqEmpty
  <2> QED BY <1>1, <2>1
<1>5. ASSUME NEW i \in 1..Len(p) PROVE a[i] = a[i - 1] \o s[i]
  <2>1. SubSeq(p, 1, i) = SubSeq(p, 1, i - 1) \o <<p[i]>>
    BY <1>1, SubSeqRecursiveSecond
  <2>2. a[i] = SubSeq(p, 1, i) /\ a[i - 1] = SubSeq(p, 1, i - 1) /\ s[i] = <<p[i]>>
    BY <1>1
  <2> QED BY <2>1, <2>2
<1>6. a[Len(p)] = p
  BY <1>1, SubSeqFull
<1> HIDE DEF a, s
<1>7. Run(V, s, a)
  BY <1>2, <1>3, <1>4, <1>5 DEF Run
<1>8. FlattenSeq(s) = p
  BY <1>2, <1>6, <1>7, FlattenIs
<1> QED BY <1>2, <1>8 DEF s

-----------------------------------------------------------------------------
\* Sequences without repetition.

Once(s) == \A m, n \in DOMAIN s : s[m] = s[n] => m = n

\* Neither within a part nor in two of them.
Distinct(text) ==
  /\ \A i \in DOMAIN text : Once(text[i])
  /\ \A i, j \in DOMAIN text : i # j => ToSet(text[i]) \cap ToSet(text[j]) = {}

LEMMA OnceCounts ==
  ASSUME NEW U, NEW s \in Seq(U), Once(s)
  PROVE  Len(s) = Cardinality(ToSet(s))
<1>1. Len(s) \in Nat /\ DOMAIN s = 1..Len(s) /\ s \in [1..Len(s) -> U]
  BY LenProperties
<1>2. s \in Bijection(1..Len(s), ToSet(s))
  <2>1. s \in [1..Len(s) -> ToSet(s)]
    BY <1>1 DEF ToSet
  <2>2. \A x \in ToSet(s) : \E i \in 1..Len(s) : s[i] = x
    BY <1>1 DEF ToSet
  <2>3. \A m, n \in 1..Len(s) : s[m] = s[n] => m = n
    BY <1>1 DEF Once
  <2> QED BY <1>1, <2>1, <2>2, <2>3 DEF Bijection, Injection, Surjection, IsInjective
<1>3. ExistsBijection(1..Len(s), ToSet(s))
  BY <1>2 DEF ExistsBijection
<1> QED BY <1>1, <1>3, FS_CountingElements

\* All of two sequences.
LEMMA SetOfConcat ==
  ASSUME NEW U, NEW s \in Seq(U), NEW t \in Seq(U)
  PROVE  ToSet(s \o t) = ToSet(s) \cup ToSet(t) /\ Len(s \o t) = Len(s) + Len(t)
<1>1. /\ s \o t \in Seq(U) /\ Len(s \o t) = Len(s) + Len(t)
      /\ \A i \in 1..(Len(s) + Len(t)) :
           (s \o t)[i] = IF i <= Len(s) THEN s[i] ELSE t[i - Len(s)]
  BY ConcatProperties
<1>2. /\ Len(s) \in Nat /\ Len(t) \in Nat /\ DOMAIN s = 1..Len(s) /\ DOMAIN t = 1..Len(t)
      /\ DOMAIN (s \o t) = 1..(Len(s) + Len(t))
  BY <1>1, LenProperties
<1>3. ASSUME NEW x \in ToSet(s \o t) PROVE x \in ToSet(s) \cup ToSet(t)
  <2>1. PICK i \in 1..(Len(s) + Len(t)) : x = (s \o t)[i]
    BY <1>2 DEF ToSet
  <2>2. CASE i <= Len(s)
    BY <1>1, <1>2, <2>1, <2>2 DEF ToSet
  <2>3. CASE i > Len(s)
    <3>1. i - Len(s) \in DOMAIN t /\ x = t[i - Len(s)]
      BY <1>1, <1>2, <2>1, <2>3
    <3> QED BY <3>1 DEF ToSet
  <2> QED BY <1>2, <2>2, <2>3
<1>4. ASSUME NEW x \in ToSet(s) PROVE x \in ToSet(s \o t)
  <2>1. PICK i \in 1..Len(s) : x = s[i]
    BY <1>2 DEF ToSet
  <2>2. i \in 1..(Len(s) + Len(t)) /\ x = (s \o t)[i]
    BY <1>1, <1>2, <2>1
  <2> QED BY <1>2, <2>2 DEF ToSet
<1>5. ASSUME NEW x \in ToSet(t) PROVE x \in ToSet(s \o t)
  <2>1. PICK i \in 1..Len(t) : x = t[i]
    BY <1>2 DEF ToSet
  <2>2. /\ Len(s) + i \in 1..(Len(s) + Len(t)) /\ ~(Len(s) + i <= Len(s))
        /\ (Len(s) + i) - Len(s) = i
    BY <1>2
  <2>3. x = (s \o t)[Len(s) + i]
    BY <1>1, <2>1, <2>2
  <2> QED BY <1>2, <2>2, <2>3 DEF ToSet
<1> QED BY <1>1, <1>3, <1>4, <1>5

LEMMA OnceConcat ==
  ASSUME NEW U, NEW s \in Seq(U), NEW t \in Seq(U), Once(s), Once(t),
         ToSet(s) \cap ToSet(t) = {}
  PROVE  Once(s \o t)
<1>1. /\ s \o t \in Seq(U) /\ Len(s \o t) = Len(s) + Len(t)
      /\ \A i \in 1..(Len(s) + Len(t)) :
           (s \o t)[i] = IF i <= Len(s) THEN s[i] ELSE t[i - Len(s)]
  BY ConcatProperties
<1>2. /\ Len(s) \in Nat /\ Len(t) \in Nat /\ DOMAIN s = 1..Len(s) /\ DOMAIN t = 1..Len(t)
      /\ DOMAIN (s \o t) = 1..(Len(s) + Len(t))
  BY <1>1, LenProperties
<1> SUFFICES ASSUME NEW m \in 1..(Len(s) + Len(t)), NEW n \in 1..(Len(s) + Len(t)),
                    (s \o t)[m] = (s \o t)[n]
             PROVE  m = n
  BY <1>2 DEF Once
<1>3. \A i \in 1..(Len(s) + Len(t)) :
        /\ i <= Len(s) => i \in DOMAIN s /\ (s \o t)[i] = s[i] /\ s[i] \in ToSet(s)
        /\ ~(i <= Len(s)) => /\ i - Len(s) \in DOMAIN t /\ (s \o t)[i] = t[i - Len(s)]
                             /\ t[i - Len(s)] \in ToSet(t)
  BY <1>1, <1>2 DEF ToSet
<1>4. CASE m <= Len(s) /\ n <= Len(s)
  BY <1>3, <1>4 DEF Once
<1>5. CASE ~(m <= Len(s)) /\ ~(n <= Len(s))
  <2>1. m - Len(s) = n - Len(s)
    BY <1>3, <1>5 DEF Once
  <2> QED BY <1>2, <2>1
<1>6. CASE (m <= Len(s)) # (n <= Len(s))
  BY <1>3, <1>6
<1> QED BY <1>4, <1>5, <1>6

\* What is put together is all of the sequences, and if they are distinct nothing is twice.
LEMMA FlattenHas ==
  ASSUME NEW U, NEW s \in Seq(Seq(U))
  PROVE  /\ ToSet(FlattenSeq(s)) = UNION {ToSet(s[i]) : i \in DOMAIN s}
         /\ Distinct(s) => Once(FlattenSeq(s))
<1>1. PICK a : Run(U, s, a)
  BY RunExists
<1> DEFINE N == Len(s)
           upTo(n) == UNION {ToSet(s[i]) : i \in 1..n}
           Good(n) == ToSet(a[n]) = upTo(n) /\ (Distinct(s) => Once(a[n]))
           bad == {n \in 0..N : ~Good(n)}
<1>2. N \in Nat /\ DOMAIN s = 1..N /\ \A i \in 1..N : s[i] \in Seq(U)
  BY LenProperties, ElementOfSeq
<1> HIDE DEF N
<1>3. /\ a \in [0..N -> Seq(U)] /\ a[0] = <<>> /\ \A i \in 1..N : a[i] = a[i - 1] \o s[i]
  BY <1>1 DEF Run, N
<1>4. Good(0)
  BY <1>3 DEF ToSet, Once
<1>5. ASSUME NEW n \in 1..N, Good(n - 1) PROVE Good(n)
  <2>1. n - 1 \in 0..N /\ a[n - 1] \in Seq(U) /\ s[n] \in Seq(U) /\ a[n] = a[n - 1] \o s[n]
    <3>1. n - 1 \in 0..N
      BY <1>2
    <3> HIDE DEF Good
    <3>2. \A i \in 0..N : a[i] \in Seq(U)
      BY <1>3
    <3> QED BY <1>2, <1>3, <3>1, <3>2
  <2>2. ToSet(a[n]) = upTo(n - 1) \cup ToSet(s[n])
    BY <1>5, <2>1, SetOfConcat
  <2>3. 1..n = 1..(n - 1) \cup {n}
    BY <1>2
  <2>4. upTo(n) = upTo(n - 1) \cup ToSet(s[n])
    BY <2>3
  <2>5. ASSUME Distinct(s) PROVE Once(a[n])
    <3>1. ToSet(a[n - 1]) \cap ToSet(s[n]) = {}
      <4>1. \A i \in 1..(n - 1) : i \in DOMAIN s /\ n \in DOMAIN s /\ i # n
        BY <1>2
      <4>2. \A i \in 1..(n - 1) : ToSet(s[i]) \cap ToSet(s[n]) = {}
        BY <2>5, <4>1 DEF Distinct
      <4> QED BY <1>5, <4>2
    <3>2. Once(s[n]) /\ Once(a[n - 1])
      BY <1>2, <1>5, <2>5 DEF Distinct
    <3> QED BY <2>1, <3>1, <3>2, OnceConcat
  <2> QED BY <2>2, <2>4, <2>5
<1>6. ASSUME bad # {} PROVE FALSE
  <2>1. bad \in SUBSET Nat
    BY <1>2
  <2>2. PICK n \in bad : \A k \in bad : n <= k
    BY <1>6, <2>1, SmallestOf
  <2> HIDE DEF Good
  <2>3. n \in 0..N /\ ~Good(n)
    BY <2>2
  <2>4. n \in 1..N /\ n - 1 \in 0..N
    BY <1>2, <1>4, <2>3
  <2>5. n - 1 \notin bad
    BY <1>2, <2>2, <2>4
  <2> QED BY <1>5, <2>3, <2>4, <2>5
<1>7. Good(N)
  <2> HIDE DEF Good
  <2>1. N \in 0..N
    BY <1>2
  <2> QED BY <1>6, <2>1
<1>8. FlattenSeq(s) = a[N]
  BY <1>1, FlattenIs DEF N
<1> QED BY <1>2, <1>7, <1>8

\* Putting together twice is putting together what each is put together to.
LEMMA FlattenFlatten ==
  ASSUME NEW U, NEW s \in Seq(Seq(Seq(U))),
         NEW t, t = [i \in DOMAIN s |-> FlattenSeq(s[i])]
  PROVE  t \in Seq(Seq(U)) /\ FlattenSeq(FlattenSeq(s)) = FlattenSeq(t)
<1> DEFINE V == Seq(U)
           N == Len(s)
<1>0. s \in Seq(Seq(V))
  OBVIOUS
<1>1. N \in Nat /\ DOMAIN s = 1..N /\ \A i \in 1..N : s[i] \in Seq(V)
  <2> HIDE DEF V
  <2> QED BY <1>0, LenProperties, ElementOfSeq
<1>2. PICK a : Run(V, s, a)
  <2> HIDE DEF V
  <2> QED BY <1>0, RunExists
<1>3. FlattenSeq(s) = a[N]
  <2> HIDE DEF V
  <2> QED BY <1>0, <1>2, FlattenIs
<1> HIDE DEF N
<1>4. a \in [0..N -> Seq(V)] /\ a[0] = <<>> /\ \A i \in 1..N : a[i] = a[i - 1] \o s[i]
  BY <1>2 DEF Run, N
<1>5. \A x, y \in Seq(V) : FlattenSeq(x \o y) = FlattenSeq(x) \o FlattenSeq(y)
  BY FlattenConcat
<1>6. \A x \in Seq(V) : FlattenSeq(x) \in Seq(U)
  BY FlattenType
<1> HIDE DEF V
<1>7. t \in Seq(Seq(U)) /\ Len(t) = N
  <2>1. t \in [1..N -> Seq(U)]
    BY <1>1, <1>6
  <2> QED BY <1>1, <2>1, SeqDef
<1> DEFINE b == [i \in 0..N |-> FlattenSeq(a[i])]
<1>8. b \in [0..N -> Seq(U)] /\ b[0] = <<>>
  <2>1. FlattenSeq(<<>>) = <<>>
    BY DEF FlattenSeq
  <2> QED BY <1>1, <1>4, <1>6, <2>1
<1>9. \A i \in 1..N : b[i] = b[i - 1] \o t[i]
  <2> SUFFICES ASSUME NEW i \in 1..N PROVE b[i] = b[i - 1] \o t[i]
    OBVIOUS
  <2>1. a[i - 1] \in Seq(V) /\ s[i] \in Seq(V) /\ a[i] = a[i - 1] \o s[i]
    <3>1. i - 1 \in 0..N
      BY <1>1
    <3> HIDE DEF b
    <3>2. \A k \in 0..N : a[k] \in Seq(V)
      BY <1>4
    <3> QED BY <1>1, <1>4, <3>1, <3>2
  <2>2. FlattenSeq(a[i]) = FlattenSeq(a[i - 1]) \o FlattenSeq(s[i])
    BY <1>5, <2>1
  <2>3. b[i] = FlattenSeq(a[i]) /\ b[i - 1] = FlattenSeq(a[i - 1]) /\ t[i] = FlattenSeq(s[i])
    BY <1>1
  <2> QED BY <2>2, <2>3
<1>10. b[N] = FlattenSeq(a[N])
  BY <1>1
<1> HIDE DEF b
<1>11. Run(U, t, b)
  BY <1>7, <1>8, <1>9 DEF Run
<1>12. FlattenSeq(t) = b[N]
  BY <1>7, <1>11, FlattenIs
<1> QED BY <1>3, <1>7, <1>10, <1>12

-----------------------------------------------------------------------------
\* The chunks of a text.

\* The pieces of a part are the part.
LEMMA PiecesJoin ==
  ASSUME NEW U, NEW part \in Seq(U), NEW max \in Nat, max > 0
  PROVE  /\ Pieces(part, max) \in Seq(Seq(U))
         /\ Units(Pieces(part, max)) = part
         /\ Len(part) > max => Pieces(part, max) # <<>>
<1> DEFINE L == Len(part)
           k == (L + max - 1) \div max
           end(i) == IF i * max < L THEN i * max ELSE L
           a == [i \in 0..k |-> SubSeq(part, 1, end(i))]
<1>1. L \in Nat /\ DOMAIN part = 1..L /\ \A i \in 1..L : part[i] \in U
  BY LenProperties, ElementOfSeq
<1>2. k \in Nat /\ max * k <= L + max - 1 /\ L + max - 1 < max * k + max
  BY <1>1
<1>3. (L > 0 => k > 0) /\ k * max >= L
  BY <1>1, <1>2
<1>4. ASSUME NEW i \in 1..k
      PROVE  /\ (i - 1) * max < L /\ end(i - 1) = (i - 1) * max
             /\ (i - 1) * max \in Nat /\ end(i) \in Nat /\ end(i) <= L /\ (i - 1) * max < end(i)
  OBVIOUS
<1> HIDE DEF L
<1>5. Pieces(part, max) = [n \in 1..k |-> SubSeq(part, (n - 1) * max + 1, end(n))]
  BY DEF Pieces, L
<1>6. ASSUME NEW i \in 0..k PROVE end(i) \in 0..L
  BY <1>1, <1>2
<1> HIDE DEF k, end
<1>7. ASSUME NEW i \in 1..k
      PROVE  /\ SubSeq(part, (i - 1) * max + 1, end(i)) \in Seq(U)
             /\ a[i] = a[i - 1] \o SubSeq(part, (i - 1) * max + 1, end(i))
  <2> DEFINE m == (i - 1) * max
  <2>1. m \in 0..L /\ end(i) \in m..L /\ end(i - 1) = m
    BY <1>1, <1>4
  <2> HIDE DEF m
  <2>2. SubSeq(part, 1, m) \o SubSeq(part, m + 1, end(i)) = SubSeq(part, 1, end(i))
    <3>1. ASSUME NEW x \in 0..Len(part), NEW y \in x..Len(part)
          PROVE  SubSeq(part, 1, x) \o SubSeq(part, x + 1, y) = SubSeq(part, 1, y)
      <4>1. 1 \in 1..(Len(part) + 1) /\ x \in (1 - 1)..Len(part)
        BY <1>1 DEF L
      <4> QED BY <4>1, ConcatAdjacentSubSeq
    <3> QED BY <2>1, <3>1 DEF L
  <2>3. a[i] = SubSeq(part, 1, end(i)) /\ a[i - 1] = SubSeq(part, 1, m)
    BY <1>2, <2>1
  <2>4. SubSeq(part, m + 1, end(i)) \in Seq(U)
    BY <1>1, <2>1, SubSeqProperties
  <2> QED BY <2>2, <2>3, <2>4 DEF m
<1>8. Pieces(part, max) \in Seq(Seq(U)) /\ Len(Pieces(part, max)) = k
  <2>1. Pieces(part, max) \in [1..k -> Seq(U)]
    BY <1>5, <1>7
  <2> QED BY <1>2, <2>1, SeqDef
<1>9. a \in [0..k -> Seq(U)] /\ a[0] = <<>> /\ a[k] = part
  <2>1. \A i \in 0..k : SubSeq(part, 1, end(i)) \in Seq(U)
    BY <1>1, <1>6, SubSeqProperties
  <2>2. end(0) = 0 /\ end(k) = L
    BY <1>1, <1>2, <1>3 DEF end
  <2>3. SubSeq(part, 1, 0) = <<>> /\ SubSeq(part, 1, L) = part
    BY SubSeqEmpty, SubSeqFull DEF L
  <2> QED BY <1>2, <2>1, <2>2, <2>3
<1> HIDE DEF a
<1>10. \A i \in 1..k : Pieces(part, max)[i] = SubSeq(part, (i - 1) * max + 1, end(i))
  BY <1>5
<1>11. Run(U, Pieces(part, max), a)
  BY <1>7, <1>8, <1>9, <1>10 DEF Run
<1>12. Units(Pieces(part, max)) = part
  BY <1>8, <1>9, <1>11, FlattenIs DEF Units
<1> QED BY <1>1, <1>3, <1>8, <1>12 DEF L

\* What is in the chunks and in what is being collected, part by part.
Gathered(all) == FlattenSeq(all.chunks) \o all.current
Collections(U) == [chunks : Seq(Seq(Seq(U))), current : Seq(Seq(U))]

\* One more part is one more in what is gathered, or as many pieces.
LEMMA AddedGathers ==
  ASSUME NEW U, NEW all \in Collections(U), NEW part \in Seq(U), NEW max \in Nat, max > 0,
         NEW new, new = Added(all, part, max)
  PROVE  /\ new \in Collections(U)
         /\ new.chunks # <<>> \/ new.current # <<>>
         /\ Len(part) > max =>
              Gathered(new) = (FlattenSeq(all.chunks) \o Pieces(part, max)) \o all.current
         /\ ~(Len(part) > max) => Gathered(new) = Gathered(all) \o <<part>>
<1> DEFINE P == Seq(U)
           pieces == Pieces(part, max)
           singles == [n \in DOMAIN pieces |-> <<pieces[n]>>]
<1>1. all.chunks \in Seq(Seq(P)) /\ all.current \in Seq(P) /\ FlattenSeq(all.chunks) \in Seq(P)
  BY FlattenType DEF Collections
<1>2. CASE Len(part) > max
  <2>1. pieces \in Seq(P) /\ pieces # <<>>
    BY <1>2, PiecesJoin
  <2> HIDE DEF pieces
  <2>2. singles \in Seq(Seq(P)) /\ FlattenSeq(singles) = pieces
    BY <2>1, FlattenSingles
  <2>3. DOMAIN singles = DOMAIN pieces
    OBVIOUS
  <2>4. new = [chunks |-> all.chunks \o singles, current |-> all.current]
    BY <1>2 DEF Added, pieces
  <2>5. singles # <<>>
    BY <2>1, <2>3, LenProperties
  <2> HIDE DEF singles, P
  <2>6. all.chunks \o singles \in Seq(Seq(P)) /\ all.chunks \o singles # <<>>
    BY <1>1, <2>2, <2>5, ConcatProperties, ConcatEqualIffEmpty
  <2>7. FlattenSeq(all.chunks \o singles) = FlattenSeq(all.chunks) \o pieces
    BY <1>1, <2>2, FlattenConcat
  <2>8. new.chunks = all.chunks \o singles /\ new.current = all.current
    BY <2>4
  <2>9. new \in Collections(U)
    BY <1>1, <2>4, <2>6 DEF Collections, P
  <2>10. Gathered(new) = (FlattenSeq(all.chunks) \o pieces) \o all.current
    BY <2>7, <2>8 DEF Gathered
  <2> QED BY <1>2, <2>6, <2>8, <2>9, <2>10 DEF pieces
<1> HIDE DEF P, pieces, singles
<1>3. part \in P
  BY DEF P
<1>4. CASE ~(Len(part) > max) /\ Len(Units(all.current)) + Len(part) <= max
  <2>1. new = [chunks |-> all.chunks, current |-> Append(all.current, part)]
    BY <1>4 DEF Added
  <2>2. Append(all.current, part) \in Seq(P) /\ Append(all.current, part) # <<>>
    <3>1. \A s \in Seq(P), x \in P : Append(s, x) \in Seq(P) /\ Append(s, x) # <<>>
      BY Appends
    <3> QED BY <1>1, <1>3, <3>1
  <2>3. FlattenSeq(all.chunks) \o (all.current \o <<part>>)
          = (FlattenSeq(all.chunks) \o all.current) \o <<part>>
    <3>1. <<part>> \in Seq(P)
      BY <1>3
    <3>2. \A x, y, z \in Seq(P) : x \o (y \o z) = (x \o y) \o z
      BY Associates
    <3> QED BY <1>1, <3>1, <3>2
  <2>4. Append(all.current, part) = all.current \o <<part>>
    BY <1>1, <1>3, AppendIsConcat
  <2>5. new.chunks = all.chunks /\ new.current = Append(all.current, part)
    BY <2>1
  <2>6. new \in Collections(U)
    BY <1>1, <2>1, <2>2 DEF Collections, P
  <2>7. Gathered(new) = Gathered(all) \o <<part>>
    BY <2>3, <2>4, <2>5 DEF Gathered
  <2> QED BY <1>4, <2>2, <2>5, <2>6, <2>7
<1>5. CASE ~(Len(part) > max) /\ ~(Len(Units(all.current)) + Len(part) <= max)
  <2>1. new = [chunks |-> Append(all.chunks, all.current), current |-> <<part>>]
    BY <1>5 DEF Added
  <2>2. Append(all.chunks, all.current) \in Seq(Seq(P)) /\ Append(all.chunks, all.current) # <<>>
    <3> DEFINE Q == Seq(P)
    <3>1. all.chunks \in Seq(Q) /\ all.current \in Q
      BY <1>1
    <3> HIDE DEF Q
    <3>2. \A s \in Seq(Q), x \in Q : Append(s, x) \in Seq(Q) /\ Append(s, x) # <<>>
      BY Appends
    <3>3. Append(all.chunks, all.current) \in Seq(Q) /\ Append(all.chunks, all.current) # <<>>
      BY <3>1, <3>2
    <3> QED BY <3>3 DEF Q
  <2>3. FlattenSeq(Append(all.chunks, all.current)) = FlattenSeq(all.chunks) \o all.current
    BY <1>1, FlattenAppend
  <2>4. <<part>> \in Seq(P)
    BY <1>3
  <2>5. new.chunks = Append(all.chunks, all.current) /\ new.current = <<part>>
    BY <2>1
  <2>6. new \in Collections(U)
    BY <2>1, <2>2, <2>4 DEF Collections, P
  <2>7. Gathered(new) = Gathered(all) \o <<part>>
    BY <2>3, <2>5 DEF Gathered
  <2> QED BY <1>5, <2>2, <2>5, <2>6, <2>7
<1> QED BY <1>2, <1>4, <1>5

\* Nothing of a part is lost or doubled, and one that fits into a chunk stays in its place.
LEMMA AddedUnits ==
  ASSUME NEW U, NEW all \in Collections(U), NEW part \in Seq(U), NEW max \in Nat, max > 0,
         NEW was, was = Units(Gathered(all)), NEW is, is = Units(Gathered(Added(all, part, max)))
  PROVE  /\ Len(is) = Len(was) + Len(part) /\ ToSet(is) = ToSet(was) \cup ToSet(part)
         /\ Len(part) <= max => is = was \o part
<1> DEFINE C == FlattenSeq(all.chunks)
           pieces == Pieces(part, max)
           c == Units(C)
           r == Units(all.current)
<1>1. C \in Seq(Seq(U)) /\ all.current \in Seq(Seq(U)) /\ Len(part) \in Nat
  BY FlattenType DEF Collections
<1>2. pieces \in Seq(Seq(U)) /\ Units(pieces) = part
  BY PiecesJoin
<1>3. c \in Seq(U) /\ r \in Seq(U)
  BY <1>1, FlattenType DEF Units
<1>4. was = c \o r
  BY <1>1, FlattenConcat DEF Units, Gathered
<1>5. Len(was) = Len(c) + Len(r) /\ ToSet(was) = ToSet(c) \cup ToSet(r) /\ was \in Seq(U)
  BY <1>3, <1>4, SetOfConcat, ConcatProperties
<1>6. Len(c) \in Nat /\ Len(r) \in Nat
  BY <1>3, LenProperties
<1>7. CASE Len(part) > max
  <2>1. is = Units((C \o pieces) \o all.current)
    <3>1. PICK new : new = Added(all, part, max)
      OBVIOUS
    <3> HIDE DEF C, pieces
    <3>2. Gathered(new) = (FlattenSeq(all.chunks) \o Pieces(part, max)) \o all.current
      BY <1>7, <3>1, AddedGathers
    <3> QED BY <3>1, <3>2 DEF C, pieces
  <2> HIDE DEF C, pieces
  <2>2. C \o pieces \in Seq(Seq(U))
    BY <1>1, <1>2, ConcatProperties
  <2>3. Units((C \o pieces) \o all.current) = Units(C \o pieces) \o r
    BY <1>1, <2>2, FlattenConcat DEF Units
  <2>4. Units(C \o pieces) = c \o part
    BY <1>1, <1>2, FlattenConcat DEF Units
  <2>5. c \o part \in Seq(U) /\ Len(c \o part) = Len(c) + Len(part)
        /\ ToSet(c \o part) = ToSet(c) \cup ToSet(part)
    BY <1>3, SetOfConcat, ConcatProperties
  <2>6. is = (c \o part) \o r
    BY <2>1, <2>3, <2>4
  <2> HIDE DEF c, r
  <2>7. Len(is) = Len(c \o part) + Len(r) /\ ToSet(is) = ToSet(c \o part) \cup ToSet(r)
    <3>1. \A x, y \in Seq(U) : Len(x \o y) = Len(x) + Len(y) /\ ToSet(x \o y) = ToSet(x) \cup ToSet(y)
      BY SetOfConcat
    <3> QED BY <1>3, <2>5, <2>6, <3>1
  <2>8. ~(Len(part) <= max)
    BY <1>1, <1>7
  <2>9. Len(is) = Len(was) + Len(part)
    BY <1>1, <1>5, <1>6, <2>5, <2>7
  <2> QED BY <1>5, <2>5, <2>7, <2>8, <2>9
<1>8. CASE ~(Len(part) > max)
  <2> HIDE DEF C, pieces, c, r
  <2>1. is = Units(Gathered(all) \o <<part>>)
    <3>1. PICK new : new = Added(all, part, max)
      OBVIOUS
    <3>2. Gathered(new) = Gathered(all) \o <<part>>
      BY <1>8, <3>1, AddedGathers
    <3> QED BY <3>1, <3>2
  <2>2. Gathered(all) \in Seq(Seq(U)) /\ <<part>> \in Seq(Seq(U))
    <3>1. Gathered(all) \in Seq(Seq(U))
      BY <1>1, ConcatProperties DEF Gathered, C
    <3> QED BY <3>1
  <2>3. Units(Gathered(all) \o <<part>>) = was \o Units(<<part>>)
    BY <2>2, FlattenConcat DEF Units
  <2>4. Units(<<part>>) = part
    BY FlattenOne DEF Units
  <2>5. is = was \o part
    BY <2>1, <2>3, <2>4
  <2>6. Len(is) = Len(was) + Len(part) /\ ToSet(is) = ToSet(was) \cup ToSet(part)
    <3>1. was \in Seq(U)
      BY <1>5
    <3> QED BY <2>5, <3>1, SetOfConcat
  <2> QED BY <2>5, <2>6
<1> QED BY <1>7, <1>8

\* No chunk is too long, and neither is what is being collected.
Fits(all, max) ==
  /\ \A i \in DOMAIN all.chunks : Len(Units(all.chunks[i])) <= max
  /\ Len(Units(all.current)) <= max

\* All of two sequences of chunks.
LEMMA BothFit ==
  ASSUME NEW V, NEW s \in Seq(V), NEW t \in Seq(V), NEW S,
         \A i \in DOMAIN s : s[i] \in S, \A i \in DOMAIN t : t[i] \in S
  PROVE  \A i \in DOMAIN (s \o t) : (s \o t)[i] \in S
<1>1. ToSet(s \o t) = ToSet(s) \cup ToSet(t)
  BY SetOfConcat
<1> QED BY <1>1 DEF ToSet

LEMMA PiecesFit ==
  ASSUME NEW U, NEW part \in Seq(U), NEW max \in Nat, max > 0,
         NEW i \in DOMAIN Pieces(part, max)
  PROVE  Pieces(part, max)[i] \in Seq(U) /\ Len(Pieces(part, max)[i]) <= max
<1> DEFINE L == Len(part)
           k == (L + max - 1) \div max
           m == (i - 1) * max
           end == IF i * max < L THEN i * max ELSE L
<1>1. L \in Nat /\ k \in Nat
  BY LenProperties
<1>2. i \in 1..k /\ Pieces(part, max)[i] = SubSeq(part, m + 1, end)
  BY DEF Pieces
<1>3. Pieces(part, max) \in Seq(Seq(U))
  BY PiecesJoin
<1>4. i * max = m + max /\ m \in Nat
  <2>1. i - 1 \in Nat /\ i \in Int
    BY <1>1, <1>2
  <2>2. \A x, y \in Int : x * y = (x - 1) * y + y
    OBVIOUS
  <2>3. \A x, y \in Nat : x * y \in Nat
    OBVIOUS
  <2> QED BY <2>1, <2>2, <2>3
<1>5. end \in Int /\ end <= m + max /\ end - m <= max
  BY <1>1, <1>4
<1> HIDE DEF m, end, k, L
<1>6. Len(SubSeq(part, m + 1, end)) = IF m + 1 <= end THEN end - (m + 1) + 1 ELSE 0
  BY <1>4, <1>5, SubSeqProperties
<1>7. Len(SubSeq(part, m + 1, end)) <= max
  BY <1>4, <1>5, <1>6
<1>8. Pieces(part, max)[i] \in Seq(U)
  <2> DEFINE V == Seq(U)
             P == Pieces(part, max)
  <2>1. P \in Seq(V) /\ i \in DOMAIN P
    BY <1>3
  <2> HIDE DEF V, P
  <2>2. P[i] \in V
    BY <2>1, LenProperties, ElementOfSeq
  <2> QED BY <2>2 DEF V, P
<1> QED BY <1>2, <1>7, <1>8

LEMMA AddedFits ==
  ASSUME NEW U, NEW all \in Collections(U), NEW part \in Seq(U), NEW max \in Nat, max > 0,
         Fits(all, max), NEW new, new = Added(all, part, max)
  PROVE  Fits(new, max)
<1> DEFINE P == Seq(U)
           pieces == Pieces(part, max)
           singles == [n \in DOMAIN pieces |-> <<pieces[n]>>]
           S == {c \in Seq(P) : Len(Units(c)) <= max}
<1>1. all.chunks \in Seq(Seq(P)) /\ all.current \in Seq(P)
  BY DEF Collections
<1>2. \A x \in P : Units(<<x>>) = x
  <2>1. ASSUME NEW x \in Seq(U) PROVE FlattenSeq(<<x>>) = x
    BY FlattenOne
  <2> QED BY <2>1 DEF Units
<1>3. \A i \in DOMAIN all.chunks : all.chunks[i] \in S
  BY <1>1, ElementOfSeq DEF Fits
<1>4. CASE Len(part) > max
  <2>1. new.chunks = all.chunks \o singles /\ new.current = all.current
    BY <1>4 DEF Added
  <2>2. pieces \in Seq(P)
    BY PiecesJoin
  <2>3. \A i \in DOMAIN pieces : pieces[i] \in P /\ Len(pieces[i]) <= max
    BY PiecesFit
  <2> HIDE DEF pieces, P
  <2>4. singles \in Seq(Seq(P))
    BY <2>2, FlattenSingles
  <2>5. \A i \in DOMAIN singles : singles[i] \in S
    BY <1>2, <2>3
  <2> HIDE DEF singles, S
  <2>6. \A i \in DOMAIN (all.chunks \o singles) : (all.chunks \o singles)[i] \in S
    BY <1>1, <1>3, <2>4, <2>5, BothFit
  <2> QED BY <2>1, <2>6 DEF Fits, S
<1>5. CASE ~(Len(part) > max) /\ Len(Units(all.current)) + Len(part) <= max
  <2>1. new.chunks = all.chunks /\ new.current = Append(all.current, part)
    BY <1>5 DEF Added
  <2>2. Units(Append(all.current, part)) = Units(all.current) \o part
    BY <1>1, FlattenAppend DEF Units
  <2>3. Units(all.current) \in Seq(U)
    BY <1>1, FlattenType DEF Units
  <2>4. Len(Units(all.current) \o part) = Len(Units(all.current)) + Len(part)
    BY <2>3, SetOfConcat
  <2> QED BY <1>5, <2>1, <2>2, <2>4 DEF Fits
<1>6. CASE ~(Len(part) > max) /\ ~(Len(Units(all.current)) + Len(part) <= max)
  <2>1. new.chunks = Append(all.chunks, all.current) /\ new.current = <<part>>
    BY <1>6 DEF Added
  <2>2. Append(all.chunks, all.current) = all.chunks \o <<all.current>>
        /\ <<all.current>> \in Seq(Seq(P))
    <3> DEFINE V == Seq(P)
    <3>1. all.chunks \in Seq(V) /\ all.current \in V
      BY <1>1
    <3> HIDE DEF V
    <3>2. /\ Append(all.chunks, all.current) = all.chunks \o <<all.current>>
          /\ <<all.current>> \in Seq(V)
      BY <3>1, AppendIsConcat
    <3> QED BY <3>2 DEF V
  <2>3. \A i \in DOMAIN <<all.current>> : <<all.current>>[i] \in S
    BY <1>1 DEF Fits
  <2>4. Len(Units(<<part>>)) <= max
    <3>1. Len(part) \in Nat
      BY LenProperties
    <3> QED BY <1>2, <1>6, <3>1
  <2> HIDE DEF S, P
  <2>5. \A i \in DOMAIN (all.chunks \o <<all.current>>) : (all.chunks \o <<all.current>>)[i] \in S
    BY <1>1, <1>3, <2>2, <2>3, BothFit
  <2> QED BY <2>1, <2>2, <2>4, <2>5 DEF Fits, S
<1> QED BY <1>4, <1>5, <1>6

\* Whatever the lengths of the parts, what is collected has every unit of the text once, in
\* their order unless a part was too long.
LEMMA CollectedKeeps ==
  ASSUME NEW U, NEW text \in Seq(Seq(U)), NEW max \in Nat, max > 0,
         NEW all, all = Collected(text, max), NEW is, is = Units(Gathered(all))
  PROVE  /\ all \in Collections(U)
         /\ Len(is) = Len(Units(text)) /\ ToSet(is) = ToSet(Units(text))
         /\ (\A i \in DOMAIN text : Len(text[i]) <= max) => is = Units(text)
         /\ text # <<>> => all.chunks # <<>> \/ all.current # <<>>
         /\ Fits(all, max)
<1> DEFINE N == Len(text)
           V == Collections(U)
           none == [chunks |-> <<>>, current |-> <<>>]
           step == [n \in 1..N |-> [v \in V |-> Added(v, text[n], max)]]
           eq(g) == [n \in 0..N |-> IF n = 0 THEN none ELSE Added(g[n - 1], text[n], max)]
           run == CHOOSE g : g = eq(g)
<1>1. N \in Nat /\ DOMAIN text = 1..N /\ \A n \in 1..N : text[n] \in Seq(U)
  BY LenProperties, ElementOfSeq
<1>2. none \in V
  BY DEF Collections
<1> HIDE DEF N, V, none
<1>3. step \in [1..N -> [V -> V]]
  <2>1. \A n \in 1..N : \A v \in V : Added(v, text[n], max) \in V
    BY <1>1, AddedGathers DEF V
  <2> QED BY <2>1
<1>4. \E g : g = eq(g)
  <2>1. PICK g \in [0..N -> V] : Steps(g, none, N, step)
    <3> HIDE DEF step
    <3> QED BY <1>1, <1>2, <1>3, StepsExist
  <2>2. \A n \in 1..N : n - 1 \in 0..N /\ g[n - 1] \in V
    BY <1>1, <2>1
  <2>3. \A n \in 0..N : g[n] = IF n = 0 THEN none ELSE Added(g[n - 1], text[n], max)
    <3>1. \A n \in 1..N : g[n] = Added(g[n - 1], text[n], max)
      BY <2>1, <2>2 DEF Steps
    <3>2. g[0] = none
      BY <2>1 DEF Steps
    <3> QED BY <1>1, <3>1, <3>2
  <2>4. g = eq(g)
    BY <2>1, <2>3
  <2> QED BY <2>4
<1>5. run = eq(run)
  <2> HIDE DEF eq
  <2> QED BY <1>4
<1>6. all = run[N]
  BY DEF Collected, N, none
<1> HIDE DEF run
<1>7. run[0] = none /\ \A n \in 1..N : run[n] = Added(run[n - 1], text[n], max)
  BY <1>1, <1>5
<1> DEFINE is_(n) == Units(Gathered(run[n]))
           was(n) == Units(SubSeq(text, 1, n))
           Good(n) == /\ run[n] \in V
                      /\ Len(is_(n)) = Len(was(n)) /\ ToSet(is_(n)) = ToSet(was(n))
                      /\ (\A i \in 1..n : Len(text[i]) <= max) => is_(n) = was(n)
                      /\ n > 0 => run[n].chunks # <<>> \/ run[n].current # <<>>
                      /\ Fits(run[n], max)
<1> HIDE DEF step, eq
<1>8. Good(0)
  <2>1. SubSeq(text, 1, 0) = <<>>
    BY SubSeqEmpty
  <2>2. Gathered(none) = <<>>
    BY DEF Gathered, none, FlattenSeq
  <2>3. is_(0) = Units(<<>>) /\ was(0) = Units(<<>>)
    BY <1>7, <2>1, <2>2
  <2>4. Fits(none, max)
    <3>1. Units(<<>>) = <<>>
      BY DEF Units, FlattenSeq
    <3> QED BY <3>1 DEF Fits, none
  <2> HIDE DEF is_, was
  <2> QED BY <1>2, <1>7, <2>3, <2>4
<1>9. ASSUME NEW n \in 1..N, Good(n - 1) PROVE Good(n)
  <2>1. run[n] = Added(run[n - 1], text[n], max) /\ run[n - 1] \in V /\ text[n] \in Seq(U)
    BY <1>1, <1>7, <1>9
  <2>2. was(n) = was(n - 1) \o text[n]
    <3>1. SubSeq(text, 1, n) = SubSeq(text, 1, n - 1) \o <<text[n]>>
      BY <1>1, SubSeqRecursiveSecond DEF N
    <3>2. SubSeq(text, 1, n - 1) \in Seq(Seq(U)) /\ <<text[n]>> \in Seq(Seq(U))
      BY <1>1, SubSeqProperties
    <3>3. Units(<<text[n]>>) = text[n]
      BY <2>1, FlattenOne DEF Units
    <3> QED BY <3>1, <3>2, <3>3, FlattenConcat DEF Units
  <2>3. was(n - 1) \in Seq(U)
    <3>1. SubSeq(text, 1, n - 1) \in Seq(Seq(U))
      BY <1>1, SubSeqProperties
    <3> QED BY <3>1, FlattenType DEF Units
  <2>4. Len(was(n)) = Len(was(n - 1)) + Len(text[n]) /\ ToSet(was(n)) = ToSet(was(n - 1)) \cup ToSet(text[n])
    <3>1. \A x, y \in Seq(U) : Len(x \o y) = Len(x) + Len(y) /\ ToSet(x \o y) = ToSet(x) \cup ToSet(y)
      BY SetOfConcat
    <3> HIDE DEF was
    <3> QED BY <2>1, <2>2, <2>3, <3>1
  <2>5. /\ Len(is_(n)) = Len(is_(n - 1)) + Len(text[n])
        /\ ToSet(is_(n)) = ToSet(is_(n - 1)) \cup ToSet(text[n])
        /\ Len(text[n]) <= max => is_(n) = is_(n - 1) \o text[n]
    <3>1. ASSUME NEW part \in Seq(U), NEW v \in Collections(U)
          PROVE  LET w == Units(Gathered(v))  x == Units(Gathered(Added(v, part, max))) IN
                 /\ Len(x) = Len(w) + Len(part) /\ ToSet(x) = ToSet(w) \cup ToSet(part)
                 /\ Len(part) <= max => x = w \o part
      BY AddedUnits
    <3> QED BY <2>1, <3>1 DEF V
  <2>6. run[n] \in V /\ (run[n].chunks # <<>> \/ run[n].current # <<>>)
    BY <2>1, AddedGathers DEF V
  <2>7. Fits(run[n], max)
    <3>1. ASSUME NEW part \in Seq(U), NEW v \in Collections(U), Fits(v, max)
          PROVE  Fits(Added(v, part, max), max)
      BY <3>1, AddedFits
    <3> QED BY <1>9, <2>1, <3>1 DEF V
  <2> HIDE DEF is_, was
  <2>8. n \in 1..n /\ \A i \in 1..(n - 1) : i \in 1..n
    BY <1>1
  <2> QED BY <1>9, <2>2, <2>4, <2>5, <2>6, <2>7, <2>8
<1>10. Good(N)
  <2> DEFINE bad == {n \in 0..N : ~Good(n)}
  <2>1. ASSUME bad # {} PROVE FALSE
    <3>1. bad \in SUBSET Nat
      BY <1>1
    <3>2. PICK n \in bad : \A k \in bad : n <= k
      BY <2>1, <3>1, SmallestOf
    <3> HIDE DEF Good
    <3>3. n \in 0..N /\ ~Good(n)
      BY <3>2
    <3>4. n \in 1..N /\ n - 1 \in 0..N
      BY <1>1, <1>8, <3>3
    <3>5. n - 1 \notin bad
      BY <1>1, <3>2, <3>4
    <3> QED BY <1>9, <3>3, <3>4, <3>5
  <2> QED BY <1>1, <2>1
<1>11. SubSeq(text, 1, N) = text /\ (text # <<>> => N > 0)
  BY SubSeqFull, EmptySeq DEF N
<1> QED BY <1>1, <1>6, <1>10, <1>11 DEF V

LEMMA ChunkTextKeeps ==
  ASSUME NEW U, NEW text, NEW readable, NEW max \in Nat, max > 0,
         NEW parts \in Seq(Seq(U)), parts = Parts(text, max, readable),
         NEW chunks, chunks = ChunkText(text, max, readable),
         NEW is, is = Units(FlattenSeq(chunks))
  PROVE  /\ chunks \in Seq(Seq(Seq(U)))
         /\ Len(is) = Len(Units(parts)) /\ ToSet(is) = ToSet(Units(parts))
         /\ (\A i \in DOMAIN parts : Len(parts[i]) <= max) => is = Units(parts)
         /\ \A i \in DOMAIN chunks : Len(Units(chunks[i])) <= max
<1>1. PICK all : all = Collected(parts, max)
  OBVIOUS
<1> DEFINE g == Units(Gathered(all))
<1>2. /\ all \in Collections(U)
      /\ Len(g) = Len(Units(parts)) /\ ToSet(g) = ToSet(Units(parts))
      /\ (\A i \in DOMAIN parts : Len(parts[i]) <= max) => g = Units(parts)
      /\ Fits(all, max)
  BY <1>1, CollectedKeeps
<1>3. chunks = IF all.current = <<>> THEN all.chunks ELSE Append(all.chunks, all.current)
  BY <1>1 DEF ChunkText
<1>4. all.chunks \in Seq(Seq(Seq(U))) /\ all.current \in Seq(Seq(U))
  BY <1>2 DEF Collections
<1>5. CASE all.current = <<>>
  <2>1. FlattenSeq(all.chunks) \o <<>> = FlattenSeq(all.chunks)
    <3>1. FlattenSeq(all.chunks) \in Seq(Seq(U))
      BY <1>4, FlattenType
    <3> QED BY <3>1, ConcatEmptySeq
  <2>2. FlattenSeq(chunks) = Gathered(all)
    BY <1>3, <1>5, <2>1 DEF Gathered
  <2> QED BY <1>2, <1>3, <1>4, <1>5, <2>2 DEF Fits
<1>6. CASE all.current # <<>>
  <2>1. FlattenSeq(Append(all.chunks, all.current)) = Gathered(all)
    BY <1>4, FlattenAppend DEF Gathered
  <2>2. /\ Append(all.chunks, all.current) \in Seq(Seq(Seq(U)))
        /\ Append(all.chunks, all.current) # <<>>
    <3> DEFINE Q == Seq(Seq(U))
    <3>1. all.chunks \in Seq(Q) /\ all.current \in Q
      BY <1>4
    <3> HIDE DEF Q
    <3>2. \A s \in Seq(Q), x \in Q : Append(s, x) \in Seq(Q) /\ Append(s, x) # <<>>
      BY Appends
    <3>3. Append(all.chunks, all.current) \in Seq(Q) /\ Append(all.chunks, all.current) # <<>>
      BY <3>1, <3>2
    <3> QED BY <3>3 DEF Q
  <2>3. chunks = Append(all.chunks, all.current)
    BY <1>3, <1>6
  <2>4. \A i \in DOMAIN chunks : Len(Units(chunks[i])) <= max
    <3> DEFINE V == Seq(Seq(U))
               S == {c \in V : Len(Units(c)) <= max}
    <3>1. all.chunks \in Seq(V) /\ <<all.current>> \in Seq(V)
      BY <1>4
    <3>2. \A i \in DOMAIN all.chunks : all.chunks[i] \in S
      BY <1>2, <1>4, ElementOfSeq DEF Fits
    <3>3. \A i \in DOMAIN <<all.current>> : <<all.current>>[i] \in S
      BY <1>2, <1>4 DEF Fits
    <3>4. chunks = all.chunks \o <<all.current>>
      BY <1>4, <2>3, AppendIsConcat
    <3> HIDE DEF S, V
    <3>5. \A i \in DOMAIN chunks : chunks[i] \in S
      BY <3>1, <3>2, <3>3, <3>4, BothFit
    <3> QED BY <3>5 DEF S
  <2> QED BY <1>2, <2>1, <2>2, <2>3, <2>4
<1> QED BY <1>5, <1>6

-----------------------------------------------------------------------------
\* The sentences of a part.

LEMMA IsSequence ==
  ASSUME NEW V, NEW n \in Nat, NEW s \in [1..n -> V]
  PROVE  s \in Seq(V)
BY SeqDef

LEMMA GreatestOf ==
  ASSUME NEW n \in Nat, NEW S \in SUBSET (1..n), S # {}
  PROVE  Max(S) \in S /\ \A y \in S : y <= Max(S)
<1> DEFINE D == {n - x : x \in S}
<1>1. D \in SUBSET Nat /\ D # {}
  <2>1. \A x \in S : n - x \in Nat
    OBVIOUS
  <2>2. PICK x \in S : TRUE
    OBVIOUS
  <2> QED BY <2>1, <2>2
<1>2. PICK d \in D : \A y \in D : d <= y
  BY <1>1, SmallestOf
<1>3. PICK x \in S : d = n - x
  BY <1>2
<1>4. \A y \in S : n - x <= n - y
  BY <1>2, <1>3
<1>5. \A y \in S : x >= y
  BY <1>4
<1>6. Max(S) \in S /\ \A y \in S : Max(S) >= y
  BY <1>5 DEF Max
<1> QED BY <1>6

\* To be in one sentence is an equivalence, and what is between two units of it is in it.
LEMMA OneSentence ==
  ASSUME NEW U, NEW part \in Seq(U), NEW i \in DOMAIN part
  PROVE  /\ i \in SentenceOf(part, i) /\ SentenceOf(part, i) \subseteq DOMAIN part
         /\ \A j \in SentenceOf(part, i) :
              /\ SentenceOf(part, j) = SentenceOf(part, i)
              /\ \A m \in i..j : m \in SentenceOf(part, i)
<1> DEFINE ends(e) == Kind(part[e]) \in Ends
           between(e, j, k) == (j <= e /\ e < k) \/ (k <= e /\ e < j)
<1>1. Len(part) \in Nat /\ DOMAIN part = 1..Len(part)
  BY LenProperties
<1> HIDE DEF ends
<1>2. \A j, k : j \in SentenceOf(part, k) <=>
        j \in DOMAIN part /\ \A e \in DOMAIN part : between(e, j, k) => ~ends(e)
  BY DEF SentenceOf, ends
<1>3. i \in SentenceOf(part, i)
  BY <1>1, <1>2
<1>4. ASSUME NEW j \in SentenceOf(part, i), NEW m \in DOMAIN part
      PROVE  m \in SentenceOf(part, j) <=> m \in SentenceOf(part, i)
  BY <1>1, <1>2
<1>5. ASSUME NEW j \in SentenceOf(part, i), NEW m \in i..j PROVE m \in SentenceOf(part, i)
  BY <1>1, <1>2
<1> QED BY <1>2, <1>3, <1>4, <1>5

\* A sentence opens at one unit only.
LEMMA OpensOnce ==
  ASSUME NEW U, NEW part \in Seq(U), NEW readable, NEW j \in DOMAIN part, NEW k \in DOMAIN part,
         Opens(part, j, readable), Opens(part, k, readable),
         NEW x, x \in j..Max(CoreOf(part, j)), x \in k..Max(CoreOf(part, k))
  PROVE  j = k
<1>1. Len(part) \in Nat /\ DOMAIN part = 1..Len(part)
  BY LenProperties
<1>2. ASSUME NEW n \in DOMAIN part, Opens(part, n, readable), x \in n..Max(CoreOf(part, n))
      PROVE  x \in SentenceOf(part, n) /\ SentenceOf(part, x) = SentenceOf(part, n)
  <2>1. CoreOf(part, n) \in SUBSET (1..Len(part)) /\ CoreOf(part, n) # {}
    BY <1>1, <1>2 DEF Opens, CoreOf, SentenceOf
  <2>2. Max(CoreOf(part, n)) \in SentenceOf(part, n)
    BY <1>1, <2>1, GreatestOf DEF CoreOf
  <2> QED BY <1>2, <2>2, OneSentence
<1>3. SentenceOf(part, j) = SentenceOf(part, k)
  BY <1>2
<1>4. CoreOf(part, j) = CoreOf(part, k)
  BY <1>3 DEF CoreOf
<1>5. j <= k /\ k <= j
  BY <1>4 DEF Opens
<1> QED BY <1>1, <1>5

\* The units of a stretch of a part.
LEMMA StretchOf ==
  ASSUME NEW U, NEW part \in Seq(U), Once(part), NEW k \in DOMAIN part, NEW n \in k..Len(part)
  PROVE  /\ SubSeq(part, k, n) \in Seq(U) /\ Once(SubSeq(part, k, n))
         /\ ToSet(SubSeq(part, k, n)) = {part[i] : i \in k..n}
<1> DEFINE s == SubSeq(part, k, n)
<1>1. /\ Len(part) \in Nat /\ DOMAIN part = 1..Len(part) /\ \A i \in 1..Len(part) : part[i] \in U
      /\ k \in Nat /\ n \in Nat /\ k > 0
  BY LenProperties, ElementOfSeq
<1>2. \A i \in k..n : i \in DOMAIN part /\ part[i] \in U
  BY <1>1
<1>3. s \in Seq(U) /\ Len(s) = n - k + 1 /\ \A i \in 1..(n - k + 1) : s[i] = part[k + i - 1]
  BY <1>1, <1>2, SubSeqProperties
<1>4. DOMAIN s = 1..(n - k + 1)
  BY <1>3, LenProperties
<1> HIDE DEF s
<1>5. ASSUME NEW i \in DOMAIN s, NEW j \in DOMAIN s, s[i] = s[j] PROVE i = j
  <2>1. k + i - 1 \in k..n /\ k + j - 1 \in k..n
    BY <1>1, <1>4
  <2>2. part[k + i - 1] = part[k + j - 1]
    BY <1>3, <1>4, <1>5
  <2>3. k + i - 1 = k + j - 1
    BY <1>2, <2>1, <2>2 DEF Once
  <2> QED BY <1>1, <1>4, <2>3
<1>6. \A i \in DOMAIN s : k + i - 1 \in k..n /\ s[i] = part[k + i - 1]
  BY <1>1, <1>3, <1>4
<1>7. ASSUME NEW i \in k..n PROVE i - k + 1 \in DOMAIN s /\ s[i - k + 1] = part[i]
  <2>1. i - k + 1 \in 1..(n - k + 1) /\ k + (i - k + 1) - 1 = i
    BY <1>1
  <2> QED BY <1>3, <1>4, <2>1
<1>8. ToSet(s) = {part[i] : i \in k..n}
  <2>1. ToSet(s) = {s[i] : i \in DOMAIN s}
    BY DEF ToSet
  <2>2. \A i \in DOMAIN s : s[i] \in {part[j] : j \in k..n}
    BY <1>6
  <2>3. \A i \in k..n : part[i] \in {s[j] : j \in DOMAIN s}
    BY <1>7
  <2> QED BY <2>1, <2>2, <2>3
<1> QED BY <1>3, <1>5, <1>8 DEF Once, s

\* The sentences have nothing twice and nothing but the part, and all that is readable.
LEMMA SentencesKeep ==
  ASSUME NEW U, NEW part \in Seq(U), Once(part), NEW readable, readable \cap Edges = {},
         NEW kept, kept = FlattenSeq(Sentences(part, readable))
  PROVE  /\ Sentences(part, readable) \in Seq(Seq(U)) /\ Once(kept)
         /\ ToSet(kept) \subseteq ToSet(part)
         /\ \A u \in ToSet(part) : Kind(u) \in readable => u \in ToSet(kept)
<1> DEFINE N == Len(part)
           last(k) == Max(CoreOf(part, k))
           opens(k) == Opens(part, k, readable)
           s == [k \in DOMAIN part |-> IF opens(k) THEN <<SubSeq(part, k, last(k))>> ELSE <<>>]
           t == [k \in DOMAIN s |-> FlattenSeq(s[k])]
<1>1. N \in Nat /\ DOMAIN part = 1..N
  BY LenProperties
<1>2. ASSUME NEW k \in DOMAIN part PROVE CoreOf(part, k) \in SUBSET (1..N)
  BY <1>1 DEF CoreOf, SentenceOf
<1>3. ASSUME NEW k \in DOMAIN part, opens(k)
      PROVE  last(k) \in k..N /\ \A j \in CoreOf(part, k) : j \in k..last(k)
  <2>1. k \in CoreOf(part, k) /\ \A j \in CoreOf(part, k) : k <= j
    BY <1>3 DEF Opens
  <2>2. last(k) \in CoreOf(part, k) /\ \A j \in CoreOf(part, k) : j <= last(k)
    BY <1>1, <1>2, <2>1, GreatestOf
  <2> QED BY <1>1, <1>2, <2>1, <2>2
<1>4. Sentences(part, readable) = FlattenSeq(s)
  BY DEF Sentences
<1> HIDE DEF opens, last, N
<1>5. ASSUME NEW k \in DOMAIN part, opens(k)
      PROVE  /\ SubSeq(part, k, last(k)) \in Seq(U) /\ Once(SubSeq(part, k, last(k)))
             /\ ToSet(SubSeq(part, k, last(k))) = {part[i] : i \in k..last(k)}
  BY <1>3, <1>5, StretchOf DEF N
<1>6. DOMAIN s = 1..N
  BY <1>1
<1>7. s \in Seq(Seq(Seq(U)))
  <2>1. s \in [1..N -> Seq(Seq(U))]
    BY <1>1, <1>5
  <2> HIDE DEF s
  <2> QED BY <1>1, <2>1, SeqDef
<1>8. ASSUME NEW k \in DOMAIN part
      PROVE  t[k] = IF opens(k) THEN SubSeq(part, k, last(k)) ELSE <<>>
  <2>1. FlattenSeq(<<>>) = <<>>
    BY DEF FlattenSeq
  <2>2. opens(k) => FlattenSeq(<<SubSeq(part, k, last(k))>>) = SubSeq(part, k, last(k))
    BY <1>5, FlattenOne
  <2>3. t[k] = FlattenSeq(s[k]) /\ s[k] = IF opens(k) THEN <<SubSeq(part, k, last(k))>> ELSE <<>>
    OBVIOUS
  <2> QED BY <2>1, <2>2, <2>3
<1>9. DOMAIN t = 1..N
  BY <1>6
<1> HIDE DEF s
<1>10. t \in Seq(Seq(U)) /\ kept = FlattenSeq(t)
  BY <1>4, <1>7, FlattenFlatten
<1> HIDE DEF t
<1>11. ASSUME NEW k \in 1..N
       PROVE  /\ Once(t[k])
              /\ \A u : u \in ToSet(t[k]) <=> opens(k) /\ \E i \in k..last(k) : u = part[i]
  <2>1. ToSet(<<>>) = {} /\ Once(<<>>)
    BY DEF ToSet, Once
  <2>2. CASE opens(k)
    <3>1. ToSet(t[k]) = {part[i] : i \in k..last(k)} /\ Once(t[k])
      BY <1>1, <1>5, <1>8, <2>2
    <3> QED BY <2>2, <3>1
  <2>3. CASE ~opens(k)
    BY <1>1, <1>8, <2>1, <2>3
  <2> QED BY <2>2, <2>3
<1>12. Distinct(t)
  <2> SUFFICES ASSUME NEW j \in 1..N, NEW k \in 1..N, j # k, NEW u, u \in ToSet(t[j]), u \in ToSet(t[k])
               PROVE  FALSE
    <3>1. \A k \in DOMAIN t : Once(t[k])
      BY <1>9, <1>11
    <3> QED BY <1>9, <3>1 DEF Distinct
  <2>1. opens(j) /\ opens(k)
    BY <1>11
  <2>2. PICK x \in j..last(j) : u = part[x]
    BY <1>11
  <2>3. PICK y \in k..last(k) : u = part[y]
    BY <1>11
  <2>4. last(j) \in j..N /\ last(k) \in k..N
    BY <1>1, <1>3, <2>1
  <2>5. x \in DOMAIN part /\ y \in DOMAIN part
    BY <1>1, <2>4
  <2>6. x = y
    BY <2>2, <2>3, <2>5 DEF Once
  <2>7. j = k
    BY <1>1, <2>1, <2>2, <2>3, <2>6, OpensOnce DEF opens, last
  <2> QED BY <2>7
<1>13. ToSet(kept) = UNION {ToSet(t[i]) : i \in 1..N} /\ Once(kept)
  BY <1>9, <1>10, <1>12, FlattenHas
<1>14. ASSUME NEW u \in ToSet(kept) PROVE u \in ToSet(part)
  <2>1. PICK k \in 1..N : u \in ToSet(t[k])
    BY <1>13
  <2>2. opens(k)
    BY <1>11, <2>1
  <2>3. PICK i \in k..last(k) : u = part[i]
    BY <1>11, <2>1, <2>2
  <2>4. i \in DOMAIN part
    BY <1>1, <1>3, <2>2
  <2> QED BY <2>3, <2>4 DEF ToSet
<1>15. ASSUME NEW u \in ToSet(part), Kind(u) \in readable PROVE u \in ToSet(kept)
  <2>1. PICK j \in DOMAIN part : u = part[j]
    BY DEF ToSet
  <2>2. j \in CoreOf(part, j)
    BY <1>15, <2>1, OneSentence DEF CoreOf
  <2>3. CoreOf(part, j) \in SUBSET Nat
    BY <1>1, <1>2
  <2>4. PICK k \in CoreOf(part, j) : \A i \in CoreOf(part, j) : k <= i
    BY <2>2, <2>3, SmallestOf
  <2>5. CoreOf(part, k) = CoreOf(part, j) /\ k \in DOMAIN part
    BY <2>4, OneSentence DEF CoreOf
  <2>6. opens(k)
    BY <1>15, <2>1, <2>2, <2>4, <2>5 DEF Opens, opens
  <2>7. j \in k..last(k)
    BY <1>3, <2>2, <2>5, <2>6
  <2> QED BY <1>1, <1>11, <1>13, <2>1, <2>5, <2>6, <2>7
<1> QED BY <1>4, <1>7, <1>13, <1>14, <1>15, FlattenType

\* So it is when a part is split, and a part that fits stays entire.
SplitSound(U, part, max, readable, kept) ==
  /\ Split(part, max, readable) \in Seq(Seq(U)) /\ Once(kept)
  /\ ToSet(kept) \subseteq ToSet(part)
  /\ \A u \in ToSet(part) : Kind(u) \in readable => u \in ToSet(kept)
  /\ Len(part) <= max => kept = part /\ ToSet(Split(part, max, readable)) \subseteq {part}

LEMMA SplitKeeps ==
  ASSUME NEW U, NEW part \in Seq(U), Once(part), NEW readable, readable \cap Edges = {}, NEW max \in Nat,
         NEW kept, kept = FlattenSeq(Split(part, max, readable))
  PROVE  SplitSound(U, part, max, readable, kept)
<1> USE DEF SplitSound
<1>1. CASE part = <<>>
  <2>1. FlattenSeq(<<>>) = <<>>
    BY DEF FlattenSeq
  <2>2. ToSet(<<>>) = {} /\ Split(part, max, readable) = <<>>
    BY <1>1 DEF Split, ToSet
  <2>3. kept = part /\ <<>> \in Seq(Seq(U))
    BY <1>1, <2>1, <2>2
  <2> QED BY <2>2, <2>3
<1>2. CASE part # <<>> /\ (Len(part) <= max \/ Sentences(part, readable) = <<>>)
  <2>1. Split(part, max, readable) = <<part>>
    BY <1>2 DEF Split
  <2>2. FlattenSeq(<<part>>) = part /\ <<part>> \in Seq(Seq(U)) /\ ToSet(<<part>>) = {part}
    BY FlattenOne DEF ToSet
  <2> QED BY <2>1, <2>2
<1>3. CASE part # <<>> /\ ~(Len(part) <= max) /\ Sentences(part, readable) # <<>>
  <2>1. Split(part, max, readable) = Sentences(part, readable)
    BY <1>3 DEF Split
  <2> QED BY <1>3, <2>1, SentencesKeep
<1> QED BY <1>1, <1>2, <1>3

\* The parts of a text.
LEMMA PartsKeep ==
  ASSUME NEW U, NEW text \in Seq(Seq(U)), Distinct(text), NEW readable, readable \cap Edges = {},
         NEW max \in Nat, NEW parts, parts = Parts(text, max, readable), NEW is, is = Units(parts)
  PROVE  /\ parts \in Seq(Seq(U)) /\ Once(is) /\ ToSet(is) \subseteq ToSet(Units(text))
         /\ \A u \in ToSet(Units(text)) : Kind(u) \in readable => u \in ToSet(is)
         /\ \A i \in DOMAIN text : Len(text[i]) <= max => ToSet(text[i]) \subseteq ToSet(is)
         /\ (\A i \in DOMAIN text : Len(text[i]) <= max) =>
              is = Units(text) /\ \A i \in DOMAIN parts : Len(parts[i]) <= max
<1> DEFINE N == Len(text)
           s == [i \in DOMAIN text |-> Split(text[i], max, readable)]
           t == [i \in DOMAIN s |-> FlattenSeq(s[i])]
<1>1. N \in Nat /\ DOMAIN text = 1..N /\ \A i \in 1..N : text[i] \in Seq(U) /\ Once(text[i])
  BY LenProperties, ElementOfSeq DEF Distinct
<1>2. ASSUME NEW i \in 1..N
      PROVE  /\ s[i] \in Seq(Seq(U)) /\ Once(t[i]) /\ ToSet(t[i]) \subseteq ToSet(text[i])
             /\ \A u \in ToSet(text[i]) : Kind(u) \in readable => u \in ToSet(t[i])
             /\ Len(text[i]) <= max => t[i] = text[i] /\ ToSet(s[i]) \subseteq {text[i]}
  <2>1. s[i] = Split(text[i], max, readable) /\ t[i] = FlattenSeq(Split(text[i], max, readable))
    BY <1>1
  <2>2. text[i] \in Seq(U) /\ Once(text[i])
    BY <1>1
  <2>3. SplitSound(U, text[i], max, readable, FlattenSeq(Split(text[i], max, readable)))
    BY <2>2, SplitKeeps
  <2> HIDE DEF s, t
  <2> QED BY <2>1, <2>3 DEF SplitSound
<1>3. parts = FlattenSeq(s) /\ DOMAIN s = 1..N /\ DOMAIN t = 1..N
  BY <1>1 DEF Parts
<1> HIDE DEF N
<1>4. s \in Seq(Seq(Seq(U)))
  <2>1. s \in [1..N -> Seq(Seq(U))]
    BY <1>1, <1>2
  <2> HIDE DEF s
  <2> QED BY <1>1, <2>1, IsSequence
<1> HIDE DEF s
<1>5. t \in Seq(Seq(U)) /\ is = FlattenSeq(t)
  <2>1. t \in Seq(Seq(U)) /\ FlattenSeq(FlattenSeq(s)) = FlattenSeq(t)
    BY <1>4, FlattenFlatten
  <2> HIDE DEF t
  <2> QED BY <1>3, <2>1 DEF Units
<1> HIDE DEF t
<1>6. parts \in Seq(Seq(U)) /\ ToSet(parts) = UNION {ToSet(s[i]) : i \in 1..N}
  <2> DEFINE V == Seq(U)
  <2>1. s \in Seq(Seq(V))
    BY <1>4
  <2> HIDE DEF V
  <2>2. parts \in Seq(V) /\ ToSet(parts) = UNION {ToSet(s[i]) : i \in 1..N}
    BY <1>3, <2>1, FlattenType, FlattenHas
  <2> QED BY <2>2 DEF V
<1>7. Distinct(t)
  BY <1>1, <1>2, <1>3 DEF Distinct
<1>8. ToSet(is) = UNION {ToSet(t[i]) : i \in 1..N} /\ Once(is)
  BY <1>3, <1>5, <1>7, FlattenHas
<1>9. ToSet(Units(text)) = UNION {ToSet(text[i]) : i \in 1..N}
  BY <1>1, FlattenHas DEF Units
<1>10. ASSUME \A i \in DOMAIN text : Len(text[i]) <= max
       PROVE  is = Units(text) /\ \A i \in DOMAIN parts : Len(parts[i]) <= max
  <2>1. t = text
    <3>1. Len(t) = N
      BY <1>1, <1>3, <1>5, LenProperties
    <3>2. \A i \in 1..N : t[i] = text[i]
      BY <1>1, <1>2, <1>10
    <3> QED BY <1>5, <3>1, <3>2, SeqEqual DEF N
  <2>2. ASSUME NEW i \in DOMAIN parts PROVE Len(parts[i]) <= max
    <3>1. parts[i] \in ToSet(parts)
      BY DEF ToSet
    <3>2. PICK j \in 1..N : parts[i] \in ToSet(s[j])
      BY <1>6, <3>1
    <3>3. parts[i] = text[j] /\ Len(text[j]) <= max
      BY <1>1, <1>2, <1>10, <3>2
    <3> QED BY <3>3
  <2> QED BY <1>5, <2>1, <2>2 DEF Units
<1>11. ASSUME NEW i \in 1..N PROVE ToSet(t[i]) \subseteq ToSet(is)
  BY <1>8
<1>12. ASSUME NEW u \in ToSet(is) PROVE u \in ToSet(Units(text))
  <2>1. PICK i \in 1..N : u \in ToSet(t[i])
    BY <1>8
  <2> QED BY <1>2, <1>9, <2>1
<1>13. ASSUME NEW u \in ToSet(Units(text)), Kind(u) \in readable PROVE u \in ToSet(is)
  <2>1. PICK i \in 1..N : u \in ToSet(text[i])
    BY <1>9
  <2>2. u \in ToSet(t[i])
    BY <1>2, <1>13, <2>1
  <2> QED BY <1>11, <2>2
<1>14. ASSUME NEW i \in DOMAIN text, Len(text[i]) <= max PROVE ToSet(text[i]) \subseteq ToSet(is)
  <2>1. i \in 1..N /\ t[i] = text[i]
    BY <1>1, <1>2, <1>14
  <2> QED BY <1>11, <2>1
<1> QED BY <1>6, <1>8, <1>10, <1>12, <1>13, <1>14

\* The cutting of a text into requests, whatever the lengths of its paragraphs and the
\* limit.  No request is longer than the limit.  Together they have nothing twice and
\* nothing that is not in the text, every readable unit of it, and every unit of a paragraph
\* that fits into a request; if all do, the text in its order
\* (_chunk_text_for_translation, _split_sentences).
THEOREM ChunkingKeepsTheText ==
  ASSUME NEW U, NEW text \in Seq(Seq(U)), Distinct(text), NEW max \in Nat, max > 0,
         NEW readable, readable \cap Edges = {}
  PROVE  LET chunks == ChunkText(text, max, readable)
             is     == Units(FlattenSeq(chunks))
         IN  /\ \A i \in DOMAIN chunks : Len(Units(chunks[i])) <= max
             /\ Len(is) = Cardinality(ToSet(is)) /\ ToSet(is) \subseteq ToSet(Units(text))
             /\ \A u \in ToSet(Units(text)) : Kind(u) \in readable => u \in ToSet(is)
             /\ \A i \in DOMAIN text : Len(text[i]) <= max => ToSet(text[i]) \subseteq ToSet(is)
             /\ (\A i \in DOMAIN text : Len(text[i]) <= max) => is = Units(text)
<1> DEFINE parts == Parts(text, max, readable)
           was   == Units(parts)
<1>1. /\ parts \in Seq(Seq(U)) /\ Once(was) /\ ToSet(was) \subseteq ToSet(Units(text))
      /\ \A u \in ToSet(Units(text)) : Kind(u) \in readable => u \in ToSet(was)
      /\ \A i \in DOMAIN text : Len(text[i]) <= max => ToSet(text[i]) \subseteq ToSet(was)
      /\ (\A i \in DOMAIN text : Len(text[i]) <= max) =>
           was = Units(text) /\ \A i \in DOMAIN parts : Len(parts[i]) <= max
  BY PartsKeep
<1>2. was \in Seq(U)
  BY <1>1, FlattenType DEF Units
<1>3. Len(was) = Cardinality(ToSet(was))
  BY <1>1, <1>2, OnceCounts
<1> DEFINE chunks == ChunkText(text, max, readable)
           is     == Units(FlattenSeq(chunks))
<1>4. /\ Len(is) = Len(was) /\ ToSet(is) = ToSet(was)
      /\ (\A i \in DOMAIN parts : Len(parts[i]) <= max) => is = was
      /\ \A i \in DOMAIN chunks : Len(Units(chunks[i])) <= max
  BY <1>1, ChunkTextKeeps
<1> HIDE DEF parts, was, chunks, is
<1> QED BY <1>1, <1>3, <1>4 DEF chunks, is

\* A text without its noise.
LEMMA CleanedKeeps ==
  ASSUME NEW U, NEW text \in Seq(Seq(U)), Distinct(text), NEW clean, clean = Cleaned(text)
  PROVE  /\ clean \in Seq(Seq(U)) /\ Distinct(clean) /\ DOMAIN clean = DOMAIN text
         /\ \A i \in DOMAIN text : ToSet(clean[i]) = {u \in ToSet(text[i]) : ~Noise(u)}
<1>1. Len(text) \in Nat /\ DOMAIN text = 1..Len(text)
      /\ \A i \in 1..Len(text) : text[i] \in Seq(U) /\ Once(text[i])
  BY LenProperties, ElementOfSeq DEF Distinct
<1>2. ASSUME NEW part \in Seq(U), Once(part), NEW kept,
             kept = FlattenSeq([k \in DOMAIN part |-> IF Noise(part[k]) THEN <<>> ELSE <<part[k]>>])
      PROVE  kept \in Seq(U) /\ Once(kept) /\ ToSet(kept) = {u \in ToSet(part) : ~Noise(u)}
  <2> DEFINE s == [k \in DOMAIN part |-> IF Noise(part[k]) THEN <<>> ELSE <<part[k]>>]
  <2>1. Len(part) \in Nat /\ DOMAIN part = 1..Len(part) /\ \A k \in 1..Len(part) : part[k] \in U
    BY LenProperties, ElementOfSeq
  <2>2. s \in Seq(Seq(U))
    <3>1. s \in [1..Len(part) -> Seq(U)]
      BY <2>1
    <3> HIDE DEF s
    <3> QED BY <2>1, <3>1, IsSequence
  <2>3. \A k \in DOMAIN part : /\ \A u : u \in ToSet(s[k]) <=> u = part[k] /\ ~Noise(u)
                               /\ Once(s[k])
    <3>1. ASSUME NEW x PROVE ToSet(<<x>>) = {x} /\ Once(<<x>>) /\ ToSet(<<>>) = {} /\ Once(<<>>)
      BY DEF ToSet, Once
    <3> QED BY <3>1
  <2>4. DOMAIN s = DOMAIN part
    OBVIOUS
  <2> HIDE DEF s
  <2>5. Distinct(s)
    BY <1>2, <2>3, <2>4 DEF Distinct, Once
  <2>6. kept \in Seq(U) /\ Once(kept) /\ ToSet(kept) = UNION {ToSet(s[k]) : k \in DOMAIN part}
    BY <1>2, <2>2, <2>4, <2>5, FlattenType, FlattenHas DEF s
  <2>7. \A u : u \in ToSet(part) <=> \E k \in DOMAIN part : u = part[k]
    BY DEF ToSet
  <2>8. \A u : u \in ToSet(kept) <=> \E k \in DOMAIN part : u \in ToSet(s[k])
    BY <2>6
  <2>9. \A u : u \in ToSet(kept) <=> u \in ToSet(part) /\ ~Noise(u)
    BY <2>3, <2>7, <2>8
  <2> QED BY <2>6, <2>9
<1>3. DOMAIN clean = DOMAIN text
  BY DEF Cleaned
<1>4. ASSUME NEW i \in DOMAIN text
      PROVE  /\ clean[i] \in Seq(U) /\ Once(clean[i])
             /\ ToSet(clean[i]) = {u \in ToSet(text[i]) : ~Noise(u)}
  <2>1. clean[i] = FlattenSeq([k \in DOMAIN text[i] |->
                      IF Noise(text[i][k]) THEN <<>> ELSE <<text[i][k]>>])
    BY DEF Cleaned
  <2> QED BY <1>1, <1>2, <2>1
<1>5. clean \in Seq(Seq(U))
  <2>1. clean = [i \in 1..Len(text) |-> clean[i]]
    BY <1>1 DEF Cleaned
  <2>2. \A i \in 1..Len(text) : clean[i] \in Seq(U)
    BY <1>1, <1>4
  <2>3. clean \in [1..Len(text) -> Seq(U)]
    BY <2>1, <2>2
  <2> QED BY <1>1, <2>3, IsSequence
<1>6. Distinct(clean)
  BY <1>3, <1>4 DEF Distinct
<1> QED BY <1>3, <1>4, <1>5, <1>6

-----------------------------------------------------------------------------
\* The text of a translation.

Models == {"openai", "gemini"}
Unit   == Nat \X Nat

LEMMA TextIsText ==
  ASSUME document \in Documents
  PROVE  Text \in Seq(Seq(Unit)) /\ Distinct(Text)
<1> DEFINE d == document.paragraphs
           S == [kind : Kinds, says : SUBSET DOMAIN Lexicon, header : BOOLEAN]
<1>1. d \in Seq(Seq(S) \ {<<>>})
  BY DocumentsAreTexts
<1> HIDE DEF d, S
<1>2. Len(d) \in Nat /\ DOMAIN d = 1..Len(d) /\ \A i \in 1..Len(d) : d[i] \in Seq(S)
  BY <1>1, LenProperties, ElementOfSeq
<1>3. ASSUME NEW i \in 1..Len(d)
      PROVE  [k \in DOMAIN d[i] |-> <<i, k>>] \in Seq(Unit)
  <2>1. Len(d[i]) \in Nat /\ DOMAIN d[i] = 1..Len(d[i])
    BY <1>2, LenProperties
  <2>2. [k \in DOMAIN d[i] |-> <<i, k>>] \in [1..Len(d[i]) -> Unit]
    BY <1>2, <2>1 DEF Unit
  <2> QED BY <2>1, <2>2, IsSequence
<1>4. Text = [i \in 1..Len(d) |-> [k \in DOMAIN d[i] |-> <<i, k>>]]
  BY <1>2 DEF Text, d
<1>5. Text \in Seq(Seq(Unit))
  <2>1. Text \in [1..Len(d) -> Seq(Unit)]
    BY <1>3, <1>4
  <2> QED BY <1>2, <2>1, IsSequence
<1>6. Distinct(Text)
  <2>1. \A i \in DOMAIN Text : \A k \in DOMAIN Text[i] : Text[i][k] = <<i, k>>
    BY <1>4
  <2>2. \A i \in DOMAIN Text : Once(Text[i])
    BY <2>1 DEF Once
  <2>3. \A i \in DOMAIN Text : \A u \in ToSet(Text[i]) : u[1] = i
    BY <2>1 DEF ToSet
  <2> QED BY <2>2, <2>3 DEF Distinct
<1> QED BY <1>5, <1>6

\* It depends on the document only how a text is cut.
LEMMA SameChunks ==
  ASSUME document' = document
  PROVE  Text' = Text /\ Language' = Language /\ \A p : Chunks(p)' = Chunks(p)
<1>1. Text' = Text /\ Language' = Language
  BY DEF Text, Language
<1>2. \A u : Kind(u)' = Kind(u)
  BY DEF Kind, At
<1>3. \A u : Noise(u)' <=> Noise(u)
  BY <1>1, <1>2 DEF Noise
<1>4. \A part, k : SentenceOf(part, k)' = SentenceOf(part, k)
  BY <1>2 DEF SentenceOf
<1>5. \A part, k : CoreOf(part, k)' = CoreOf(part, k)
  BY <1>2, <1>4 DEF CoreOf
<1>6. \A part, k, readable : Opens(part, k, readable)' <=> Opens(part, k, readable)
  BY <1>2, <1>5 DEF Opens
<1>7. \A part, readable : Sentences(part, readable)' = Sentences(part, readable)
  BY <1>5, <1>6 DEF Sentences
<1>8. \A part, max, readable : Split(part, max, readable)' = Split(part, max, readable)
  BY <1>7 DEF Split
<1>9. \A text, max, readable : ChunkText(text, max, readable)' = ChunkText(text, max, readable)
  BY <1>8 DEF ChunkText, Parts
<1>10. \A text : Cleaned(text)' = Cleaned(text)
  BY <1>3 DEF Cleaned
<1>11. Cleaned(Text)' = Cleaned(Text)
  BY <1>1, <1>10 DEF Cleaned
<1> QED BY <1>1, <1>9, <1>11 DEF Chunks

LEMMA LatinIsNoEdge == Latin \cap Edges = {}
BY DEF Latin, Edges

LEMMA ChunksAre ==
  ASSUME document \in Documents, NEW p
  PROVE  Chunks(p) \in Seq(Seq(Seq(Unit))) /\ Len(Chunks(p)) \in Nat
<1> DEFINE max == IF p = "google" THEN 2 * MaxChunk ELSE MaxChunk
<1>1. max \in Nat /\ max > 0
  BY ChunksHold
<1>2. Chunks(p) = ChunkText(Cleaned(Text), max, Latin)
  BY DEF Chunks
<1> HIDE DEF max
<1>3. Cleaned(Text) \in Seq(Seq(Unit)) /\ Distinct(Cleaned(Text))
  BY TextIsText, CleanedKeeps
<1>4. Parts(Cleaned(Text), max, Latin) \in Seq(Seq(Unit))
  BY <1>1, <1>3, LatinIsNoEdge, PartsKeep
<1> DEFINE Q == Seq(Seq(Unit))
<1>5. Chunks(p) \in Seq(Q)
  BY <1>1, <1>2, <1>4, ChunkTextKeeps
<1> HIDE DEF Q
<1>6. Len(Chunks(p)) \in Nat
  BY <1>5, LenProperties
<1> QED BY <1>5, <1>6 DEF Q

\* A provider has sent back as much of the text as it was sent.
TextOf(p) ==
  /\ job[p].status = "idle" => job[p].done = 0 /\ job[p].text = <<>>
  /\ job[p].status = "running" =>
       /\ job[p].done \in Nat /\ (Chunks(p) # <<>> => job[p].done < Len(Chunks(p)))
       /\ job[p].text = FlattenSeq(SubSeq(Chunks(p), 1, job[p].done))
  /\ job[p].status = "translated" => job[p].text = FlattenSeq(Chunks(p))

\* In turn, the second provider has not been asked while the first is.
FirstIsAlone ==
  phase = "translate" /\ ~Ensemble /\ turn = 1 =>
    \A p \in Providers : job[p].status # "idle" => p = Sequence[1]

TextInv ==
  /\ ChoiceInv /\ FirstIsAlone
  /\ document \in Documents
  /\ \A p \in Models : TextOf(p)
  /\ translation # None /\ translation.provider \in Models =>
       translation.text = FlattenSeq(Chunks(translation.provider))

LEMMA StartsEmpty ==
  ASSUME NEW s PROVE FlattenSeq(SubSeq(s, 1, 0)) = <<>>
<1>1. SubSeq(s, 1, 0) = <<>>
  BY SubSeqEmpty
<1> QED BY <1>1 DEF FlattenSeq

\* What does not touch the calls of the models does not touch their texts.
LEMMA TextStays ==
  ASSUME NEW p, TextOf(p), document' = document, job'[p] = job[p]
  PROVE  TextOf(p)'
<1>1. Chunks(p)' = Chunks(p)
  BY SameChunks
<1> QED BY <1>1 DEF TextOf

LEMMA TranslationStays ==
  ASSUME TextInv, UNCHANGED <<document, translation>>
  PROVE  (translation # None /\ translation.provider \in Models =>
            translation.text = FlattenSeq(Chunks(translation.provider)))'
<1>1. \A p : Chunks(p)' = Chunks(p)
  BY SameChunks
<1> QED BY <1>1 DEF TextInv

LEMMA InitKeepsText == ParseInit => TextInv
<1> SUFFICES ASSUME ParseInit PROVE TextInv
  OBVIOUS
<1>1. \A p \in Models : job[p] = IdleJob
  BY DEF ParseInit, Models, Providers
<1>2. \A p \in Models : TextOf(p)
  BY <1>1 DEF TextOf, IdleJob
<1> QED BY <1>2, InitChooses DEF ParseInit, TextInv, FirstIsAlone

LEMMA BeginKeepsText ==
  ASSUME TextInv, BeginTranslation
  PROVE  TextInv'
<1>1. /\ phase = "start" /\ UNCHANGED <<document, config, turn>> /\ document \in Documents
      /\ ChoiceInv' /\ phase' \in {"refine", "translate"}
  BY BeginChooses DEF BeginTranslation, TextInv
<1>2. Sequence' = Sequence /\ (Ensemble' <=> Ensemble)
  BY <1>1 DEF Ensemble, Sequence
<1>3. CASE phase' = "refine"
  <2>1. job' = job /\ \E status : translation' = Untranslated(status)
    BY <1>3 DEF BeginTranslation
  <2>2. translation'.provider \notin Models
    BY <2>1, ConfigsAreSettings DEF Untranslated, Models, Providers
  <2>3. \A p \in Models : TextOf(p)'
    BY <1>1, <2>1, TextStays DEF TextInv
  <2> QED BY <1>1, <1>3, <2>2, <2>3 DEF TextInv, FirstIsAlone
<1>4. CASE phase' = "translate"
  <2>1. PICK started :
          /\ started = IF Ensemble THEN ToSet(Sequence) ELSE {Sequence[1]}
          /\ job' = [p \in Providers |->
               IF p \in started THEN [IdleJob EXCEPT !.status = "running"] ELSE IdleJob]
          /\ translation' = translation
    BY <1>4 DEF BeginTranslation
  <2>2. \A p \in Providers :
          /\ job'[p].status \in {"idle", "running"} /\ job'[p].done = 0 /\ job'[p].text = <<>>
          /\ job'[p].status # "idle" => p \in started
    BY <2>1 DEF IdleJob
  <2>3. ASSUME NEW p \in Models PROVE TextOf(p)'
    <3>1. Chunks(p)' = Chunks(p)
      BY <1>1, SameChunks
    <3>2. /\ Chunks(p) # <<>> => 0 < Len(Chunks(p))
          /\ FlattenSeq(SubSeq(Chunks(p), 1, 0)) = <<>>
      BY <1>1, ChunksAre, StartsEmpty, EmptySeq
    <3>3. p \in Providers
      BY DEF Models, Providers
    <3> QED BY <2>2, <3>1, <3>2, <3>3 DEF TextOf
  <2>4. FirstIsAlone'
    BY <1>1, <1>2, <2>1, <2>2 DEF FirstIsAlone
  <2> QED BY <1>1, <1>2, <2>1, <2>3, <2>4, TranslationStays DEF TextInv
<1> QED BY <1>1, <1>3, <1>4

\* The answer to one more request.
LEMMA AnswerAdds ==
  ASSUME NEW U, NEW s \in Seq(Seq(U)), NEW n \in Nat, n < Len(s)
  PROVE  FlattenSeq(SubSeq(s, 1, n + 1)) = FlattenSeq(SubSeq(s, 1, n)) \o s[n + 1]
<1>1. Len(s) \in Nat /\ DOMAIN s = 1..Len(s) /\ s[n + 1] \in Seq(U)
  BY LenProperties, ElementOfSeq
<1>2. n + 1 \in 1..Len(s) /\ n \in 0..Len(s) /\ (n + 1) - 1 = n
  BY <1>1
<1>3. SubSeq(s, 1, n + 1) = SubSeq(s, 1, n) \o <<s[n + 1]>>
  BY <1>2, SubSeqRecursiveSecond
<1>4. SubSeq(s, 1, n) \in Seq(Seq(U)) /\ <<s[n + 1]>> \in Seq(Seq(U))
  BY <1>1, <1>2, SubSeqProperties
<1>5. FlattenSeq(<<s[n + 1]>>) = s[n + 1]
  BY <1>1, FlattenOne
<1> QED BY <1>3, <1>4, <1>5, FlattenConcat

LEMMA ChunkKeepsText ==
  ASSUME TextInv, NEW p \in Providers, NEW answers, TranslateChunk(p, answers),
         p \in Models => answers = {NextChunk(p)}
  PROVE  TextInv'
<1>1. /\ phase = "translate" /\ job[p].status = "running" /\ DOMAIN job = Providers
      /\ UNCHANGED <<document, config, phase, turn, translation>>
      /\ ChoiceInv' /\ document \in Documents /\ IsJob(job[p])
  BY ChunkChooses DEF TranslateChunk, call, TextInv, ChoiceInv, Calls
<1>2. Sequence' = Sequence /\ (Ensemble' <=> Ensemble)
  BY <1>1 DEF Ensemble, Sequence
<1>3. \A q \in Providers \ {p} : job'[q] = job[q]
  BY <1>1 DEF TranslateChunk
<1>4. FirstIsAlone'
  BY <1>1, <1>2, <1>3 DEF FirstIsAlone, TextInv
<1>5. ASSUME p \in Models PROVE TextOf(p)'
  <2> DEFINE c == Chunks(p)
             n == job[p].done
             text == job[p].text \o c[n + 1]
  <2>1. Chunks(p)' = c
    BY <1>1, SameChunks
  <2>2. c \in Seq(Seq(Seq(Unit))) /\ Len(c) \in Nat
    BY <1>1, ChunksAre
  <2>3. /\ n \in Nat /\ job[p].text = FlattenSeq(SubSeq(c, 1, n))
        /\ c # <<>> => n < Len(c)
    BY <1>1, <1>5 DEF TextInv, TextOf
  <2>4. CASE job'[p].status \in {"failed", "unavailable"}
    BY <2>4 DEF TextOf
  <2>5. CASE ~(job'[p].status \in {"failed", "unavailable"})
    <3>1. \/ \E s \in {"unavailable", "failed"} : job' = [job EXCEPT ![p].status = s]
          \/ /\ c # <<>>
             /\ job' = [job EXCEPT ![p] =
                          [status |-> IF ~(n + 1 = Len(c)) THEN "running"
                                      ELSE IF text = <<>> THEN "failed" ELSE "translated",
                           done |-> n + 1, text |-> text, score |-> job[p].score]]
      BY <1>5 DEF TranslateChunk, NextChunk
    <3>2. \A s \in {"unavailable", "failed"} :
            job' = [job EXCEPT ![p].status = s] => job'[p].status = s
      BY <1>1 DEF IsJob
    <3>3. /\ n < Len(c)
          /\ job'[p] = [status |-> IF ~(n + 1 = Len(c)) THEN "running"
                                   ELSE IF text = <<>> THEN "failed" ELSE "translated",
                        done |-> n + 1, text |-> text, score |-> job[p].score]
      BY <1>1, <2>3, <2>5, <3>1, <3>2
    <3>4. FlattenSeq(SubSeq(c, 1, n + 1)) = text
      <4> DEFINE Q == Seq(Unit)
      <4>1. c \in Seq(Seq(Q))
        BY <2>2
      <4> HIDE DEF Q, c, n
      <4> QED BY <2>3, <3>3, <4>1, AnswerAdds
    <3>5. SubSeq(c, 1, Len(c)) = c
      <4> HIDE DEF c
      <4> QED BY <2>2, SubSeqFull
    <3> HIDE DEF c, n, text
    <3>6. /\ job'[p].done = n + 1 /\ job'[p].text = text
          /\ job'[p].status = IF ~(n + 1 = Len(c)) THEN "running"
                              ELSE IF text = <<>> THEN "failed" ELSE "translated"
      BY <3>3
    <3>7. n + 1 \in Nat /\ (n + 1 # Len(c) => n + 1 < Len(c))
      BY <2>2, <2>3, <3>3
    <3>8. CASE n + 1 = Len(c)
      <4>1. /\ job'[p].status \in {"failed", "translated"}
            /\ job'[p].text = FlattenSeq(c)
        BY <3>4, <3>5, <3>6, <3>8
      <4> QED BY <2>1, <4>1 DEF TextOf
    <3>9. CASE n + 1 # Len(c)
      <4>1. job'[p].status = "running"
        BY <3>6, <3>9
      <4>2. job'[p].done \in Nat /\ job'[p].done < Len(c)
            /\ job'[p].text = FlattenSeq(SubSeq(c, 1, job'[p].done))
        BY <3>4, <3>6, <3>7, <3>9
      <4> QED BY <2>1, <4>1, <4>2 DEF TextOf
    <3> QED BY <3>8, <3>9
  <2> QED BY <2>4, <2>5
<1>6. \A q \in Models : TextOf(q)'
  <2>1. \A q \in Models \ {p} : TextOf(q)'
    BY <1>1, <1>3, TextStays DEF TextInv, Models, Providers
  <2> QED BY <1>5, <2>1
<1> QED BY <1>1, <1>2, <1>4, <1>6, TranslationStays DEF TextInv

LEMMA EstimateKeepsText ==
  ASSUME TextInv, NEW p \in Providers, EstimateQuality(p)
  PROVE  TextInv'
<1>1. /\ phase = "translate" /\ job[p].status = "translated" /\ DOMAIN job = Providers
      /\ UNCHANGED <<document, config, phase, turn, translation>>
      /\ ChoiceInv' /\ document \in Documents /\ IsJob(job[p])
      /\ \E score : job' = [job EXCEPT ![p].score = score]
  BY EstimateChooses DEF EstimateQuality, call, TextInv, ChoiceInv, Calls
<1>2. Sequence' = Sequence /\ (Ensemble' <=> Ensemble)
  BY <1>1 DEF Ensemble, Sequence
<1>3. /\ \A q \in Providers \ {p} : job'[q] = job[q]
      /\ job'[p].status = job[p].status /\ job'[p].text = job[p].text
  BY <1>1 DEF IsJob
<1>4. FirstIsAlone'
  BY <1>1, <1>2, <1>3 DEF FirstIsAlone, TextInv
<1>5. \A q \in Models : TextOf(q)'
  <2>1. \A q \in Models \ {p} : TextOf(q)'
    BY <1>1, <1>3, TextStays DEF TextInv, Models, Providers
  <2>2. Chunks(p)' = Chunks(p)
    BY <1>1, SameChunks
  <2>3. p \in Models => TextOf(p)'
    BY <1>1, <1>3, <2>2 DEF TextInv, TextOf
  <2> QED BY <2>1, <2>3
<1> QED BY <1>1, <1>2, <1>4, <1>5, TranslationStays DEF TextInv

\* What is taken over is what the provider sent back.
LEMMA TakenOver ==
  ASSUME TextInv, NEW p \in Providers, job[p].status = "translated", translation' \in Translated(p),
         document' = document
  PROVE  (translation # None /\ translation.provider \in Models =>
            translation.text = FlattenSeq(Chunks(translation.provider)))'
<1>1. translation'.provider = p /\ translation'.text = job[p].text
  BY DEF Translated
<1>2. Chunks(p)' = Chunks(p)
  BY SameChunks
<1>3. p \in Models => job[p].text = FlattenSeq(Chunks(p))
  BY DEF TextInv, TextOf
<1> QED BY <1>1, <1>2, <1>3

LEMMA EndEnsembleKeepsText ==
  ASSUME TextInv, EndEnsemble
  PROVE  TextInv'
<1>1. /\ phase = "translate" /\ Ensemble /\ phase' = "refine"
      /\ UNCHANGED <<document, job>> /\ document \in Documents
      /\ translation' \in IF best # None THEN Translated(best) ELSE {Untranslated("not_needed")}
      /\ ChoiceInv /\ ChoiceInv'
  BY EndEnsembleChooses DEF EndEnsemble, call, TextInv
<1>2. \A p \in Models : TextOf(p)'
  BY <1>1, TextStays DEF TextInv
<1>3. (translation # None /\ translation.provider \in Models =>
         translation.text = FlattenSeq(Chunks(translation.provider)))'
  <2>1. CASE best # None
    <3>1. best \in Providers /\ job[best].status = "translated"
      BY <1>1, <2>1, SequenceFacts DEF ChoiceInv, EnsembleLeads, Calls
    <3> QED BY <1>1, <2>1, <3>1, TakenOver
  <2>2. CASE best = None
    <3>1. translation'.provider \notin Models
      BY <1>1, <2>2, ConfigsAreSettings DEF Untranslated, Models, Providers
    <3> QED BY <3>1
  <2> QED BY <2>1, <2>2
<1> QED BY <1>1, <1>2, <1>3 DEF TextInv, FirstIsAlone

LEMMA TryNextKeepsText ==
  ASSUME TextInv, TryNext
  PROVE  TextInv'
<1>1. PICK p : p = Sequence[turn]
  OBVIOUS
<1>2. /\ phase = "translate" /\ ~Ensemble /\ CallEnded(p) /\ config \in Configs
      /\ document' = document /\ config' = config /\ document \in Documents
      /\ ChoiceInv /\ ChoiceInv'
  BY <1>1, TryNextChooses DEF TryNext, TextInv, ChoiceInv, Calls
<1>3. Sequence' = Sequence /\ p \in Providers
  BY <1>1, <1>2, SequenceFacts DEF Sequence, ChoiceInv, SequenceTries
<1>4. CASE job' = job /\ phase' = "refine"
  <2>1. \A q \in Models : TextOf(q)'
    BY <1>2, <1>4, TextStays DEF TextInv
  <2>2. (translation # None /\ translation.provider \in Models =>
           translation.text = FlattenSeq(Chunks(translation.provider)))'
    <3>1. CASE job[p].status = "translated"
      <4>1. translation' \in Translated(p)
        BY <1>1, <3>1 DEF TryNext
      <4> QED BY <1>2, <1>3, <3>1, <4>1, TakenOver
    <3>2. CASE job[p].status # "translated"
      <4>1. translation' = Untranslated("not_needed")
        BY <1>1, <1>2, <1>4, <3>2 DEF TryNext
      <4>2. translation'.provider \notin Models
        BY <4>1, ConfigsAreSettings DEF Untranslated, Models, Providers
      <4> QED BY <4>2
    <3> QED BY <3>1, <3>2
  <2> QED BY <1>2, <1>4, <2>1, <2>2 DEF TextInv, FirstIsAlone
<1>5. CASE ~(job' = job /\ phase' = "refine")
  <2>1. PICK n : n = Sequence[turn + 1]
    OBVIOUS
  <2>2. /\ job[p].status # "translated" /\ turn < Len(Sequence)
        /\ turn' = turn + 1 /\ job' = [job EXCEPT ![n].status = "running"]
        /\ phase' = phase /\ translation' = translation
    BY <1>1, <1>5, <2>1 DEF TryNext
  <2>3. turn = 1 /\ n = Sequence[2] /\ n \in Providers /\ n # Sequence[1]
    BY <1>2, <2>1, <2>2, SequenceFacts DEF ChoiceInv, SequenceTries
  <2>4. job[n].status = "idle" /\ IsJob(job[n]) /\ DOMAIN job = Providers
    BY <1>2, <2>3 DEF TextInv, FirstIsAlone, ChoiceInv, Calls
  <2>5. /\ \A q \in Providers \ {n} : job'[q] = job[q]
        /\ job'[n].status = "running" /\ job'[n].done = job[n].done /\ job'[n].text = job[n].text
    BY <2>2, <2>3, <2>4 DEF IsJob
  <2>6. \A q \in Models : TextOf(q)'
    <3>1. \A q \in Models \ {n} : TextOf(q)'
      BY <1>2, <2>5, TextStays DEF TextInv, Models, Providers
    <3>2. ASSUME n \in Models PROVE TextOf(n)'
      <4>1. Chunks(n)' = Chunks(n)
        BY <1>2, SameChunks
      <4>2. /\ Chunks(n) # <<>> => 0 < Len(Chunks(n))
            /\ FlattenSeq(SubSeq(Chunks(n), 1, 0)) = <<>>
        BY <1>2, ChunksAre, StartsEmpty, EmptySeq
      <4>3. job[n].done = 0 /\ job[n].text = <<>>
        BY <2>4, <3>2 DEF TextInv, TextOf
      <4> QED BY <2>5, <4>1, <4>2, <4>3 DEF TextOf
    <3> QED BY <3>1, <3>2
  <2>7. FirstIsAlone'
    BY <2>2, <2>3 DEF FirstIsAlone
  <2> QED BY <1>2, <1>3, <2>2, <2>6, <2>7, TranslationStays DEF TextInv
<1> QED BY <1>4, <1>5

\* The other steps leave the calls and the translation alone.
LEMMA OthersKeepText ==
  ASSUME TextInv, ChoiceInv', UNCHANGED <<document, config, job, turn, translation>>,
         phase' # "translate" \/ phase' = phase
  PROVE  TextInv'
<1>1. Sequence' = Sequence /\ (Ensemble' <=> Ensemble)
  BY DEF Ensemble, Sequence
<1>2. \A p \in Models : TextOf(p)'
  BY TextStays DEF TextInv
<1>3. FirstIsAlone'
  BY <1>1 DEF TextInv, FirstIsAlone
<1> QED BY <1>1, <1>2, <1>3, TranslationStays DEF TextInv

LEMMA StepKeepsText == TextInv /\ [ParseNext]_parseVars => TextInv'
<1> SUFFICES ASSUME TextInv, [ParseNext]_parseVars PROVE TextInv'
  OBVIOUS
<1>1. ChoiceInv'
  BY StepChooses DEF TextInv
<1>2. CASE TranslateViaGoogle
  BY <1>2, ChunkKeepsText DEF TranslateViaGoogle, Models, Providers
<1>3. CASE TranslateViaOpenAI
  BY <1>3, ChunkKeepsText DEF TranslateViaOpenAI, Models, Providers
<1>4. CASE TranslateViaGemini
  BY <1>4, ChunkKeepsText DEF TranslateViaGemini, Models, Providers
<1>5. CASE SkipRefinement \/ RefineViaOpenAI \/ RefineViaGemini
  <2>1. /\ phase' \in {"refine", "extract"}
        /\ UNCHANGED <<document, config, job, turn, translation>>
    BY <1>5 DEF SkipRefinement, RefineViaOpenAI, RefineViaGemini, RefineChunk, call
  <2> QED BY <1>1, <2>1, OthersKeepText
<1>6. CASE Extract \/ AskModel \/ Write
  <2>1. phase' \in {"ask", "write", "done"} /\ UNCHANGED <<document, config, job, turn, translation>>
    BY <1>6 DEF Extract, AskModel, Write, call
  <2> QED BY <1>1, <2>1, OthersKeepText
<1>7. CASE UNCHANGED parseVars
  BY <1>1, <1>7, OthersKeepText DEF parseVars, call
<1>8. CASE \E p \in Providers : Collect(p)
  <2>1. phase' = phase /\ UNCHANGED <<document, config, job, turn, translation>>
    BY <1>8 DEF Collect
  <2> QED BY <1>1, <2>1, OthersKeepText
<1>9. CASE \E p \in Providers : EstimateQuality(p)
  BY <1>9, EstimateKeepsText
<1> QED BY <1>2, <1>3, <1>4, <1>5, <1>6, <1>7, <1>8, <1>9, BeginKeepsText, EndEnsembleKeepsText,
           TryNextKeepsText DEF ParseNext, Returned

\* A translation by a language model has nothing twice and nothing but the cleaned text, and
\* has every word of it in a script the splitting knows and every unit of a paragraph that
\* fits into a request; if all do, in its order.  So whatever the text, the limit and the
\* order in which providers answer, fail and follow one another
\* (_chunk_text_for_translation, _clean_ocr_noise, _translate_to_english_via_openai,
\* _translate_to_english_via_gemini).
THEOREM TranslationsAreWhole == ParseSpec => []TranslationKeepsTheText
<1>1. TextInv => TranslationKeepsTheText
  <2> SUFFICES ASSUME TextInv, translation # None, translation.provider \in Models
               PROVE  TranslationKeepsTheText
    BY DEF TranslationKeepsTheText, Models
  <2> DEFINE clean == Cleaned(Text)
             is    == Units(translation.text)
  <2>1. translation.text = FlattenSeq(ChunkText(clean, MaxChunk, Latin))
    BY DEF TextInv, Chunks, Models
  <2>2. Text \in Seq(Seq(Unit)) /\ Distinct(Text)
    BY TextIsText DEF TextInv
  <2>3. /\ clean \in Seq(Seq(Unit)) /\ Distinct(clean) /\ DOMAIN clean = DOMAIN Text
        /\ \A i \in DOMAIN Text : ToSet(clean[i]) = {u \in ToSet(Text[i]) : ~Noise(u)}
    BY <2>2, CleanedKeeps
  <2>4. MaxChunk \in Nat /\ MaxChunk > 0
    BY ChunksHold
  <2> HIDE DEF clean
  <2>5. /\ Len(is) = Cardinality(ToSet(is)) /\ ToSet(is) \subseteq ToSet(Units(clean))
        /\ \A u \in ToSet(Units(clean)) : Kind(u) \in Latin => u \in ToSet(is)
        /\ \A i \in DOMAIN clean : Len(clean[i]) <= MaxChunk => ToSet(clean[i]) \subseteq ToSet(is)
        /\ (\A i \in DOMAIN clean : Len(clean[i]) <= MaxChunk) => is = Units(clean)
    BY <2>1, <2>3, <2>4, LatinIsNoEdge, ChunkingKeepsTheText
  <2>6. ASSUME NEW u \in ToSet(Units(Text)), Kind(u) = "word" PROVE u \in ToSet(is)
    <3>1. PICK i \in DOMAIN Text : u \in ToSet(Text[i])
      BY <2>2, FlattenHas DEF Units
    <3>2. ~Noise(u) /\ Kind(u) \in Latin
      BY <2>6 DEF Noise, Latin
    <3>3. u \in ToSet(clean[i])
      BY <2>3, <3>1, <3>2
    <3>4. u \in ToSet(Units(clean))
      BY <2>3, <3>1, <3>3, FlattenHas DEF Units
    <3> QED BY <2>5, <3>2, <3>4
  <2> HIDE DEF is
  <2> QED BY <2>5, <2>6 DEF TranslationKeepsTheText, clean, is
<1> QED BY <1>1, InitKeepsText, StepKeepsText, PTL DEF ParseSpec

-----------------------------------------------------------------------------
\* The providers that failed.

NoAnswer == {"failed", "unavailable"}

\* In turn: whoever was tried before has failed.
TriedBefore ==
  phase = "translate" /\ ~Ensemble =>
    \A i \in 1..Len(Sequence) : i < turn => job[Sequence[i]].status \in NoAnswer

TriedInv ==
  /\ ChoiceInv /\ TriedBefore /\ UntranslatedWasTried
  /\ phase = "translate" => Sequence # <<>>
  /\ phase \in {"start", "translate"} => translation = None

LEMMA InitTries == ParseInit => TriedInv
BY InitChooses DEF ParseInit, TriedInv, TriedBefore, UntranslatedWasTried

LEMMA SameSetting ==
  ASSUME UNCHANGED <<document, config>>
  PROVE  /\ Text' = Text /\ Language' = Language
         /\ Sequence' = Sequence /\ (Ensemble' <=> Ensemble)
BY SameChunks DEF Sequence, Ensemble

LEMMA BeginTries ==
  ASSUME TriedInv, BeginTranslation
  PROVE  TriedInv'
<1>1. /\ phase = "start" /\ translation = None /\ ChoiceInv /\ ChoiceInv'
      /\ UNCHANGED <<document, config, turn>> /\ turn = 1
  BY BeginChooses DEF BeginTranslation, TriedInv, ChoiceInv
<1>2. /\ Text' = Text /\ Language' = Language /\ Sequence' = Sequence
      /\ (Ensemble' <=> Ensemble)
  BY <1>1, SameSetting
<1>3. CASE Text = <<>> \/ Language = "en"
  <2>1. phase' = "refine"
    BY <1>3 DEF BeginTranslation
  <2> QED BY <1>1, <1>2, <1>3, <2>1 DEF TriedInv, TriedBefore, UntranslatedWasTried
<1>4. CASE ~(Text = <<>> \/ Language = "en") /\ (~config.enabled \/ Sequence = <<>>)
  <2>1. /\ phase' = "refine"
        /\ \E status \in {"disabled", "unavailable"} : translation' = Untranslated(status)
    BY <1>4 DEF BeginTranslation
  <2>2. translation'.status # "not_needed"
    BY <2>1 DEF Untranslated
  <2> QED BY <1>1, <2>1, <2>2 DEF TriedInv, TriedBefore, UntranslatedWasTried
<1>5. CASE ~(Text = <<>> \/ Language = "en") /\ config.enabled /\ Sequence # <<>>
  <2>1. phase' = "translate" /\ translation' = translation
    BY <1>5 DEF BeginTranslation
  <2>2. \A i \in 1..Len(Sequence) : ~(i < turn)
    BY <1>1
  <2> QED BY <1>1, <1>2, <1>5, <2>1, <2>2 DEF TriedInv, TriedBefore, UntranslatedWasTried
<1> QED BY <1>3, <1>4, <1>5

\* A call that goes on was not over.
LEMMA CallTries ==
  ASSUME TriedInv, ChoiceInv', NEW p \in Providers, phase = "translate", job[p].status \notin NoAnswer,
         \A q \in Providers \ {p} : job'[q] = job[q],
         UNCHANGED <<document, config, phase, turn, translation>>
  PROVE  TriedInv'
<1>1. /\ Sequence' = Sequence /\ (Ensemble' <=> Ensemble) /\ translation = None
      /\ Sequence # <<>> /\ config \in Configs
  BY SameSetting DEF TriedInv, ChoiceInv, Calls
<1>2. \A i \in 1..Len(Sequence) : Sequence[i] \in Providers
  BY <1>1, SequenceFacts
<1>3. TriedBefore'
  BY <1>1, <1>2 DEF TriedInv, TriedBefore
<1> QED BY <1>1, <1>3 DEF TriedInv, UntranslatedWasTried

LEMMA ChunkTries ==
  ASSUME TriedInv, NEW p \in Providers, NEW answers, TranslateChunk(p, answers)
  PROVE  TriedInv'
<1>1. ChoiceInv'
  BY ChunkChooses DEF TriedInv
<1>2. /\ phase = "translate" /\ job[p].status \notin NoAnswer /\ DOMAIN job = Providers
      /\ UNCHANGED <<document, config, phase, turn, translation>>
  BY DEF TranslateChunk, NoAnswer, TriedInv, ChoiceInv, Calls
<1>3. \A q \in Providers \ {p} : job'[q] = job[q]
  BY <1>2 DEF TranslateChunk
<1> QED BY <1>1, <1>2, <1>3, CallTries

LEMMA EstimateTries ==
  ASSUME TriedInv, NEW p \in Providers, EstimateQuality(p)
  PROVE  TriedInv'
<1>1. ChoiceInv'
  BY EstimateChooses DEF TriedInv
<1>2. /\ phase = "translate" /\ job[p].status \notin NoAnswer /\ DOMAIN job = Providers
      /\ UNCHANGED <<document, config, phase, turn, translation>>
      /\ \E score : job' = [job EXCEPT ![p].score = score]
  BY DEF EstimateQuality, NoAnswer, call, TriedInv, ChoiceInv, Calls
<1>3. \A q \in Providers \ {p} : job'[q] = job[q]
  BY <1>2
<1> QED BY <1>1, <1>2, <1>3, CallTries

LEMMA EndEnsembleTries ==
  ASSUME TriedInv, EndEnsemble
  PROVE  TriedInv'
<1>1. /\ phase = "translate" /\ Ensemble /\ collected = ToSet(Sequence) /\ phase' = "refine"
      /\ UNCHANGED <<document, config, job>> /\ ChoiceInv /\ ChoiceInv'
      /\ translation' \in IF best # None THEN Translated(best) ELSE {Untranslated("not_needed")}
  BY EndEnsembleChooses DEF EndEnsemble, call, TriedInv
<1>2. Sequence' = Sequence /\ Sequence # <<>>
  BY <1>1, SameSetting DEF TriedInv
<1>3. CASE best # None
  <2>1. translation'.status = "translated"
    BY <1>1, <1>3 DEF Translated
  <2> QED BY <1>1, <2>1 DEF TriedInv, TriedBefore, UntranslatedWasTried
<1>4. CASE best = None
  <2>1. \A p \in ToSet(Sequence) : p \in Providers /\ CallEnded(p) /\ job[p].status # "translated"
    <3>1. ToSet(Sequence) \subseteq Providers
      BY <1>1, SequenceFacts DEF ChoiceInv, Calls
    <3> QED BY <1>1, <1>4, <3>1 DEF ChoiceInv, EnsembleLeads
  <2>2. \A p \in ToSet(Sequence) : job[p].status \in NoAnswer
    BY <2>1 DEF CallEnded, NoAnswer
  <2> QED BY <1>1, <1>2, <2>2 DEF TriedInv, TriedBefore, UntranslatedWasTried, NoAnswer
<1> QED BY <1>3, <1>4

LEMMA TryNextTries ==
  ASSUME TriedInv, TryNext
  PROVE  TriedInv'
<1>1. PICK p : p = Sequence[turn]
  OBVIOUS
<1>2. /\ phase = "translate" /\ ~Ensemble /\ CallEnded(p) /\ config \in Configs
      /\ UNCHANGED <<document, config>> /\ ChoiceInv /\ ChoiceInv' /\ Sequence # <<>>
      /\ translation = None
  BY <1>1, TryNextChooses DEF TryNext, TriedInv, ChoiceInv, Calls
<1>3. Sequence' = Sequence /\ (Ensemble' <=> Ensemble)
  BY <1>2, SameSetting
<1>4. /\ turn \in 1..Len(Sequence) /\ Len(Sequence) \in 0..2
      /\ Len(Sequence) = 2 => Sequence[1] # Sequence[2]
      /\ \A i \in 1..Len(Sequence) : i < turn => job[Sequence[i]].status \in NoAnswer
      /\ ToSet(Sequence) = {Sequence[i] : i \in 1..Len(Sequence)}
  BY <1>2, SequenceFacts DEF ChoiceInv, SequenceTries, TriedInv, TriedBefore
<1>5. CASE job[p].status = "translated"
  <2>1. phase' = "refine" /\ translation'.status = "translated"
    BY <1>1, <1>5 DEF TryNext, Translated
  <2> QED BY <1>2, <2>1 DEF TriedInv, TriedBefore, UntranslatedWasTried
<1>6. CASE job[p].status # "translated"
  <2>1. job[p].status \in NoAnswer
    BY <1>2, <1>6 DEF CallEnded, NoAnswer
  <2>2. CASE turn < Len(Sequence)
    <3>1. /\ turn' = turn + 1 /\ job' = [job EXCEPT ![Sequence[turn + 1]].status = "running"]
          /\ phase' = phase /\ translation' = translation
      BY <1>1, <1>6, <2>2 DEF TryNext
    <3>2. turn = 1 /\ Len(Sequence) = 2
      <4>1. \A n, t \in Int : 1 <= t /\ t < n /\ n <= 2 => t = 1 /\ n = 2
        OBVIOUS
      <4> QED BY <1>4, <2>2, <4>1
    <3>3. job'[Sequence[1]] = job[Sequence[1]]
      BY <1>4, <3>1, <3>2
    <3>4. \A i \in 1..Len(Sequence) : i < turn' => i = 1
      BY <3>1, <3>2
    <3>5. TriedBefore'
      BY <1>1, <1>3, <2>1, <3>2, <3>3, <3>4 DEF TriedBefore
    <3> QED BY <1>2, <1>3, <3>1, <3>5 DEF TriedInv, UntranslatedWasTried
  <2>3. CASE ~(turn < Len(Sequence))
    <3>1. phase' = "refine" /\ job' = job
      BY <1>1, <1>6, <2>3 DEF TryNext
    <3>2. \A i \in 1..Len(Sequence) : i < turn \/ i = turn
      BY <1>4, <2>3
    <3>3. \A q \in ToSet(Sequence) : job[q].status \in NoAnswer
      BY <1>1, <1>4, <2>1, <3>2
    <3> QED BY <1>2, <1>3, <3>1, <3>3 DEF TriedInv, TriedBefore, UntranslatedWasTried, NoAnswer
  <2> QED BY <2>2, <2>3
<1> QED BY <1>5, <1>6

LEMMA OthersTry ==
  ASSUME TriedInv, ChoiceInv', UNCHANGED <<document, config, job, turn, translation>>,
         phase' = phase \/ phase' \notin {"start", "translate"}
  PROVE  TriedInv'
<1>1. /\ Text' = Text /\ Language' = Language /\ Sequence' = Sequence
      /\ (Ensemble' <=> Ensemble)
  BY SameSetting
<1> QED BY <1>1 DEF TriedInv, TriedBefore, UntranslatedWasTried

LEMMA StepTries == TriedInv /\ [ParseNext]_parseVars => TriedInv'
<1> SUFFICES ASSUME TriedInv, [ParseNext]_parseVars PROVE TriedInv'
  OBVIOUS
<1>1. ChoiceInv'
  BY StepChooses DEF TriedInv
<1>2. CASE TranslateViaGoogle \/ TranslateViaOpenAI \/ TranslateViaGemini
  <2>1. \E p \in Providers : \E answers : TranslateChunk(p, answers)
    BY <1>2 DEF TranslateViaGoogle, TranslateViaOpenAI, TranslateViaGemini, Providers
  <2> QED BY <2>1, ChunkTries
<1>3. CASE SkipRefinement \/ RefineViaOpenAI \/ RefineViaGemini
  <2>1. /\ phase' \in {"refine", "extract"}
        /\ UNCHANGED <<document, config, job, turn, translation>>
    BY <1>3 DEF SkipRefinement, RefineViaOpenAI, RefineViaGemini, RefineChunk, call
  <2> QED BY <1>1, <2>1, OthersTry
<1>4. CASE Extract \/ AskModel \/ Write
  <2>1. phase' \in {"ask", "write", "done"} /\ UNCHANGED <<document, config, job, turn, translation>>
    BY <1>4 DEF Extract, AskModel, Write, call
  <2> QED BY <1>1, <2>1, OthersTry
<1>5. CASE UNCHANGED parseVars
  BY <1>1, <1>5, OthersTry DEF parseVars, call
<1>6. CASE \E p \in Providers : Collect(p)
  <2>1. phase' = phase /\ UNCHANGED <<document, config, job, turn, translation>>
    BY <1>6 DEF Collect
  <2> QED BY <1>1, <2>1, OthersTry
<1> QED BY <1>2, <1>3, <1>4, <1>5, <1>6, BeginTries, EstimateTries, EndEnsembleTries,
           TryNextTries DEF ParseNext, Returned

\* Whichever provider ends first or fails: a translation is not passed over, of several the
\* one with the best score is taken, a low score is flagged, and a text that is not English
\* passes for one that needs no translation only when every provider was asked and failed
\* (_translate_to_english).
THEOREM BestIsChosen == ParseSpec => []BestTranslationWins
<1>1. TriedInv => BestTranslationWins
  BY DEF TriedInv, ChoiceInv, BestTranslationWins
<1> QED BY <1>1, InitTries, StepTries, PTL DEF ParseSpec

=============================================================================
