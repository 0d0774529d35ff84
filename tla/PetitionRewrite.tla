-------------------------- MODULE PetitionRewrite --------------------------
(***************************************************************************)
(* The life of the missing-information packets of one case document        *)
(* (app.py, /api/rewrite-requests).  Every handler is one database         *)
(* transaction at READ COMMITTED: it reads rows without locking them,      *)
(* decides, and writes by primary key, so its decision may be stale when   *)
(* its writes commit.  A handler whose writes depend on what it read is a  *)
(* pair of actions Read... and Commit...; one that only writes is a single *)
(* action.  Any open transaction may be lost (Abandon).                    *)
(***************************************************************************)
EXTENDS PetitionPacket, Sequences, FiniteSetsExt

CONSTANTS
  Sessions,      \* concurrent requests
  Requests,      \* 1..n, in the order the rows are inserted
  Worked,        \* the rows officers work on after their creation
  Evaluated,     \* the rows whose checklist is evaluated again
  None,
  ParsedOutputs, \* what the parser may have made of the complaint
  Questions,     \* sequence of the checklist questions
  MaxDrafts,     \* bound on the drafts of a request
  MaxBatches     \* bound on the checklist evaluations stored for a request

ASSUME RequestsAreNumbered ==
  /\ Requests \subseteq Nat \ {0} /\ Worked \subseteq Requests /\ Evaluated \subseteq Requests
  /\ {MaxDrafts, MaxBatches} \subseteq Nat \ {0}

\* Each gap has a label, labels have a category and a slug, and no two
\* categories have one place in the alphabet.
ASSUME GapsHaveLabels ==
  /\ \A p \in ParsedOutputs :
       p.gaps \in Seq([label : DOMAIN CategoryFor, status : {"missing", "uncertain"}])
  /\ \A l, k \in DOMAIN CategoryFor :
       /\ CategoryOrder[CategoryFor[l]] \in Nat
       /\ CategoryOrder[CategoryFor[l]] = CategoryOrder[CategoryFor[k]]
            => CategoryFor[l] = CategoryFor[k]
  /\ DOMAIN Questions \subseteq Nat \ {0} /\ IsFiniteSet(DOMAIN Questions)
  /\ \A i \in DOMAIN Questions :
       Questions[i].label \in DOMAIN CategoryFor /\ Questions[i].severity \in DOMAIN Rank

VARIABLES
  parsed,       \* parse_records.parsed_output of the document
  records,      \* parse_records rows of the document, numbered in order
  active,       \* positions of the active checklist questions
  request,      \* petition_rewrite_requests, None before the insert
  values,       \* petition_placeholders: token -> value_status
  draft,        \* generated_petition_drafts in the order they committed
  verification, \* the newest petitioner_verification_records row
  batches,      \* petition_checklist_evaluations, one id per stored batch
  txn,          \* what each open transaction has read
  approved,     \* history: drafts an approval examined
  released,     \* history: drafts exported or presented to the petitioner
  accepted,     \* history: draft merged into a final text, draft verified
  disturbed     \* history: requests where a stale write committed, or a
                \* final packet was reopened

rows    == <<request, values, draft, verification, batches>>
history == <<approved, released, accepted, disturbed>>
vars    == <<parsed, records, active, rows, txn, history>>

FinalOrReplaced == {"printed", "shared", "accepted", "superseded", "failed", "cancelled"}
Releasable      == {"approved", "printed", "shared"}
\* Mutants: an approved packet, an accepted packet may still be edited.
LockedOnceReleased == {"printed", "shared"} \cup FinalOrReplaced
LockedUntilFinal   == Releasable \cup (FinalOrReplaced \ {"accepted"})
Locked          == Releasable \cup FinalOrReplaced
PacketStatuses  == Locked \cup {"drafting", "source_check_required", "needs_review"}

SemanticStatuses == {"not_required", "pending", "english_only_issue",
                     "placeholder_failed", "passed", "failed", "override"}
ConsentStatuses  == {"verified", "refused"} \* refused stands for a correction too
ValueStatuses    == {"blank", "filled", "officer_rejected"} \cup FinalAcceptable

Idle == [op |-> "idle"]

Categories ==
  {CategoryFor[l] : l \in DOMAIN CategoryFor} \cup {Questions[i].category : i \in DOMAIN Questions}

Tokens  == [label : DOMAIN CategoryFor, category : Categories, severity : DOMAIN Rank]
Texts   == [words : Wordings, holes : SUBSET Tokens]
Version == Nat \ {0}
BatchIds == 1..MaxBatches

RequestRow == [record : Nat, status : PacketStatuses, semantic : SemanticStatuses,
               translated : BOOLEAN, consent : ConsentStatuses \cup {"not_presented"}]

DraftRow == [version : Version, text : Texts, lineage : BOOLEAN, unsupported : Nat]

VerificationRow == [d : Version, consent : ConsentStatuses]

ASSUME NoneIsNothing == None \notin Nat \cup Sessions \cup RequestRow \cup VerificationRow

Created(r)    == request[r] # None
IsActive(r)   == Created(r) /\ request[r].status \notin FinalOrReplaced
Placeholders(r) == DOMAIN values[r]
MaxVersion(r) == Max({draft[r][i].version : i \in DOMAIN draft[r]})

\* drafts[0] of the detail: ORDER BY draft_version DESC; either of two drafts
\* with one version may come first.
Latest(r) == {i \in DOMAIN draft[r] : draft[r][i].version = MaxVersion(r)}

\* Two transactions that work on the same rows.
Conflicts(t, op, r) ==
  /\ t.op # "idle"
  /\ t.r = r
  /\ t.op = "checklist" <=> op = "checklist"

\* What the other open transactions read is stale once this one commits.
After(s, op, r) ==
  [q \in Sessions |-> IF q = s THEN Idle
                      ELSE IF Conflicts(txn[q], op, r)
                      THEN [txn[q] EXCEPT !.stale = TRUE] ELSE txn[q]]

Open(s, t) == /\ txn[s] = Idle
              /\ txn' = [txn EXCEPT ![s] = t]

\* A commit of session s on row r that reopens a final packet or not.
Commit(s, r, reopens) ==
  /\ txn' = After(s, txn[s].op, txn[s].r)
  /\ disturbed' = IF txn[s].stale \/ reopens THEN disturbed \cup {r} ELSE disturbed

Init ==
  /\ parsed \in ParsedOutputs
  /\ records \in {0, 1}
  /\ active = DOMAIN Questions
  /\ request = [r \in Requests |-> None]
  /\ values = [r \in Requests |-> <<>>]
  /\ draft = [r \in Requests |-> <<>>]
  /\ verification = [r \in Requests |-> None]
  /\ batches = [r \in Requests |-> {}]
  /\ txn = [s \in Sessions |-> Idle]
  /\ approved = [r \in Requests |-> {}]
  /\ released = [r \in Requests |-> {}]
  /\ accepted = [r \in Requests |-> {}]
  /\ disturbed = {}

-----------------------------------------------------------------------------
(* Creation: the active questions are read before the rows are written. *)

\* The record the identifier resolves to: one of the parse records, or 0 for
\* a parsed case document that has none yet.
ResolveRewriteParseRecord(rec) == rec \in IF records = 0 THEN {0} ELSE 1..records

\* Mutant: nothing looks for an active packet.
ReadCreateBlindly(s) ==
  \E rec \in 0..records :
    /\ ResolveRewriteParseRecord(rec)
    /\ HasBasisText(parsed)
    /\ Open(s, [op |-> "create", r |-> None, record |-> rec, active |-> active,
                stale |-> FALSE])
    /\ UNCHANGED <<parsed, records, active, rows, history>>

ReadCreate(s) ==
  \E rec \in 0..records :
    /\ ResolveRewriteParseRecord(rec)
    /\ \A r \in Requests : IsActive(r) => request[r].record # rec
    /\ HasBasisText(parsed)
    /\ Open(s, [op |-> "create", r |-> None, record |-> rec, active |-> active,
                stale |-> FALSE])
    /\ UNCHANGED <<parsed, records, active, rows, history>>

CommitCreate(s) ==
  LET t           == txn[s]
      rec         == IF t.record = 0 THEN records + 1 ELSE t.record
      evaluations == EvaluateChecklistQuestions(parsed, Questions, t.active)
      tokens      == CreatePlaceholders(GapsOf(parsed, evaluations))
      body        == GenerateEnglishPacket(tokens)
      valid       == ValidatePacketBody(body, tokens, parsed)
  IN
  /\ t.op = "create"
  /\ \E r \in Requests :
       /\ ~Created(r) /\ \A q \in Requests : q < r => Created(q)
       /\ records' = IF t.record = 0 THEN rec ELSE records
       /\ request' = [request EXCEPT ![r] =
            [record |-> rec,
             status |-> IF valid.complete THEN "needs_review" ELSE "source_check_required",
             semantic |-> IF parsed.language = "english" THEN "not_required" ELSE "pending",
             translated |-> FALSE, consent |-> "not_presented"]]
       /\ values' = [values EXCEPT ![r] = [p \in tokens |-> "blank"]]
       /\ draft' = [draft EXCEPT ![r] =
            <<[version |-> 1, text |-> body, lineage |-> valid.complete,
               unsupported |-> valid.unsupported]>>]
       /\ batches' = [batches EXCEPT ![r] = IF evaluations = {} THEN {} ELSE {1}]
       /\ Commit(s, r, FALSE)
  /\ UNCHANGED <<parsed, active, verification, approved, released, accepted>>

-----------------------------------------------------------------------------
(* Review: edits and approval. *)

ReadUpdateDraft(s, r) ==
  /\ Created(r) /\ request[r].status \notin Locked
  /\ Len(draft[r]) < MaxDrafts
  /\ \E i \in DOMAIN draft[r] :
     \E text \in {draft[r][i].text} \cup
                 {[words |-> "edited", holes |-> h] : h \in {{}, Placeholders(r)}} :
       Open(s, [op |-> "edit", r |-> r, d |-> i, text |-> text,
                version |-> MaxVersion(r) + 1, stale |-> FALSE])
  /\ UNCHANGED <<parsed, records, active, rows, history>>

CommitUpdateDraft(s) ==
  LET t     == txn[s]
      valid == DraftValidationFromEdit(t.text, draft[t.r][t.d], Placeholders(t.r))
  IN
  /\ t.op = "edit"
  /\ draft' = [draft EXCEPT ![t.r] = Append(@,
       [version |-> t.version, text |-> t.text, lineage |-> valid.complete,
        unsupported |-> valid.unsupported])]
  /\ request' = [request EXCEPT ![t.r].status =
       IF valid.complete THEN "needs_review" ELSE "source_check_required"]
  /\ Commit(s, t.r, FALSE)
  /\ UNCHANGED <<parsed, records, active, values, verification, batches,
                 approved, released, accepted>>

\* The checks of an approval on the latest draft; the status of the request
\* is not among them.
PassesReview(r, d) ==
  /\ Placeholders(r) \subseteq draft[r][d].text.holes
  /\ draft[r][d].lineage
  /\ draft[r][d].unsupported = 0

NeedsSemanticReview(r) ==
  /\ parsed.language \notin {"english", "unknown"}
  /\ request[r].semantic \notin {"passed", "override"}

ReadApprove(s, r) ==
  /\ Created(r)
  /\ \E d \in Latest(r), allowEnglishOnlyIssue \in BOOLEAN :
       /\ PassesReview(r, d)
       /\ NeedsSemanticReview(r) => allowEnglishOnlyIssue
       /\ Open(s, [op |-> "approve", r |-> r, d |-> d, stale |-> FALSE,
                   semantic |-> IF NeedsSemanticReview(r) THEN "override"
                                ELSE request[r].semantic])
  /\ UNCHANGED <<parsed, records, active, rows, history>>

CommitApprove(s) ==
  LET t == txn[s] IN
  /\ t.op = "approve"
  /\ request' = [request EXCEPT ![t.r].status = "approved",
                                ![t.r].semantic = t.semantic]
  /\ approved' = [approved EXCEPT ![t.r] = @ \cup {t.d}]
  /\ Commit(s, t.r, request[t.r].status \in FinalOrReplaced)
  /\ UNCHANGED <<parsed, records, active, values, draft, verification, batches,
                 released, accepted>>

-----------------------------------------------------------------------------
(* Release: export, verification by the petitioner, returned values. *)

ReadExport(s, r) ==
  /\ Created(r) /\ request[r].status \in Releasable
  /\ \E d \in Latest(r) :
       Open(s, [op |-> "export", r |-> r, d |-> d, stale |-> FALSE,
                status |-> request[r].status])
  /\ UNCHANGED <<parsed, records, active, rows, history>>

CommitExport(s) ==
  LET t == txn[s] IN
  /\ t.op = "export"
  /\ request' = IF t.status = "shared" THEN request
                ELSE [request EXCEPT ![t.r].status = "printed"]
  /\ released' = [released EXCEPT ![t.r] = @ \cup {t.d}]
  /\ Commit(s, t.r, FALSE)
  /\ UNCHANGED <<parsed, records, active, values, draft, verification, batches,
                 approved, accepted>>

ReadVerification(s, r) ==
  /\ Created(r) /\ request[r].status \in Releasable
  /\ \E d \in Latest(r), consent \in ConsentStatuses :
       Open(s, [op |-> "verify", r |-> r, d |-> d, consent |-> consent,
                stale |-> FALSE])
  /\ UNCHANGED <<parsed, records, active, rows, history>>

CommitVerification(s) ==
  LET t == txn[s] IN
  /\ t.op = "verify"
  /\ verification' = [verification EXCEPT ![t.r] = [d |-> t.d, consent |-> t.consent]]
  /\ request' = [request EXCEPT ![t.r].consent = t.consent]
  /\ released' = [released EXCEPT ![t.r] = @ \cup {t.d}]
  /\ Commit(s, t.r, FALSE)
  /\ UNCHANGED <<parsed, records, active, values, draft, batches, approved, accepted>>

\* Returned values are stored whatever the status of the request.
SaveReturnValues(r) ==
  /\ Created(r)
  /\ \E p \in Placeholders(r), v \in ValueStatuses \ {"blank"} :
       values' = [values EXCEPT ![r][p] = v]
  /\ txn' = After(None, "values", r)
  /\ UNCHANGED <<parsed, records, active, request, draft, verification, batches,
                 history>>

ReadAccept(s, r) ==
  /\ Created(r) /\ request[r].status \in Releasable
  /\ verification[r] # None /\ verification[r].consent = "verified"
  /\ Len(draft[r]) < MaxDrafts
  /\ \E d \in Latest(r) :
       LET merged == MergeFinalPetitionText(draft[r][d].text, values[r]) IN
       /\ merged.unresolved = {}
       /\ Open(s, [op |-> "accept", r |-> r, d |-> d, text |-> merged.text,
                   verified |-> verification[r].d,
                   version |-> MaxVersion(r) + 1, stale |-> FALSE])
  /\ UNCHANGED <<parsed, records, active, rows, history>>

CommitAccept(s) ==
  LET t == txn[s] IN
  /\ t.op = "accept"
  /\ draft' = [draft EXCEPT ![t.r] = Append(@,
       [version |-> t.version, text |-> t.text,
        lineage |-> draft[t.r][t.d].lineage, unsupported |-> 0])]
  /\ request' = [request EXCEPT ![t.r].status = "accepted", ![t.r].consent = "verified"]
  /\ accepted' = [accepted EXCEPT ![t.r] = @ \cup {[from |-> t.d, verified |-> t.verified]}]
  /\ Commit(s, t.r, FALSE)
  /\ UNCHANGED <<parsed, records, active, values, verification, batches,
                 approved, released>>

-----------------------------------------------------------------------------
(* Translation, its review, and the checklist. *)

\* The latest draft goes to the provider and back, which takes its time, within
\* the transaction; what comes back is about that draft.
ReadTranslation(s, r) ==
  /\ Created(r)
  /\ \E d \in Latest(r) :
       Open(s, [op |-> "translate", r |-> r, d |-> d, stale |-> FALSE])
  /\ UNCHANGED <<parsed, records, active, rows, history>>

CommitTranslation(s) ==
  LET t == txn[s] IN
  /\ t.op = "translate"
  /\ \E translator \in BOOLEAN :
     \E status \in TranslationOutcomes(draft[t.r][t.d].text, parsed.language, translator) :
       request' = [request EXCEPT ![t.r].semantic = status, ![t.r].translated = TRUE]
  /\ txn' = After(s, "translate", t.r)
  /\ UNCHANGED <<parsed, records, active, values, draft, verification, batches, history>>

SaveSemanticValidation(r) ==
  /\ Created(r) /\ request[r].translated
  /\ \E status \in {"passed", "failed", "override"} :
       request' = [request EXCEPT ![r].semantic = status]
  /\ txn' = After(None, "semantic", r)
  /\ UNCHANGED <<parsed, records, active, values, draft, verification, batches, history>>

UpdateChecklistQuestion(i) ==
  /\ active' = IF i \in active THEN active \ {i} ELSE active \cup {i}
  /\ UNCHANGED <<parsed, records, rows, txn, history>>

\* The delete of a new evaluation removes the rows it can see.
ReadChecklist(s, r) ==
  /\ Created(r)
  /\ Open(s, [op |-> "checklist", r |-> r, seen |-> batches[r], stale |-> FALSE])
  /\ UNCHANGED <<parsed, records, active, rows, history>>

CommitChecklist(s) ==
  LET t   == txn[s]
      id  == CHOOSE i \in 1..MaxBatches + 1 : i \notin batches[t.r] \cup t.seen
      new == IF EvaluateChecklistQuestions(parsed, Questions, active) = {} THEN {} ELSE {id}
  IN
  /\ t.op = "checklist"
  /\ id \in BatchIds
  /\ batches' = [batches EXCEPT ![t.r] = (@ \ t.seen) \cup new]
  /\ Commit(s, t.r, FALSE)
  /\ UNCHANGED <<parsed, records, active, request, values, draft, verification,
                 approved, released, accepted>>

\* The connection or the process goes before the commit.
Abandon(s) ==
  /\ txn[s] # Idle
  /\ txn' = [txn EXCEPT ![s] = Idle]
  /\ UNCHANGED <<parsed, records, active, rows, history>>

Next ==
  \/ \E s \in Sessions :
       \/ ReadCreate(s) \/ CommitCreate(s)
       \/ CommitUpdateDraft(s) \/ CommitApprove(s) \/ CommitExport(s)
       \/ CommitVerification(s) \/ CommitAccept(s) \/ CommitTranslation(s)
       \/ CommitChecklist(s) \/ Abandon(s)
       \/ \E r \in Worked :
            \/ ReadUpdateDraft(s, r) \/ ReadApprove(s, r) \/ ReadExport(s, r)
            \/ ReadVerification(s, r) \/ ReadAccept(s, r) \/ ReadTranslation(s, r)
       \/ \E r \in Evaluated : ReadChecklist(s, r)
  \/ \E r \in Worked :
       SaveReturnValues(r) \/ SaveSemanticValidation(r)
  \/ \E i \in DOMAIN Questions : UpdateChecklistQuestion(i)

Spec == Init /\ [][Next]_vars

-----------------------------------------------------------------------------
(* Properties. *)

\* What the open transaction of each handler has read.
CreateTxn == [op : {"create"}, r : {None}, record : Nat, active : SUBSET DOMAIN Questions,
              stale : BOOLEAN]
EditTxn == [op : {"edit"}, r : Worked, d : Version, text : Texts, version : Version,
            stale : BOOLEAN]
ApproveTxn == [op : {"approve"}, r : Worked, d : Version, semantic : SemanticStatuses,
               stale : BOOLEAN]
ExportTxn == [op : {"export"}, r : Worked, d : Version, status : Releasable, stale : BOOLEAN]
VerifyTxn == [op : {"verify"}, r : Worked, d : Version, consent : ConsentStatuses,
              stale : BOOLEAN]
AcceptTxn == [op : {"accept"}, r : Worked, d : Version, text : Texts, version : Version,
              verified : Version, stale : BOOLEAN]
TranslateTxn == [op : {"translate"}, r : Worked, d : Version, stale : BOOLEAN]
ChecklistTxn == [op : {"checklist"}, r : Evaluated, seen : SUBSET BatchIds, stale : BOOLEAN]

Txn == {Idle} \cup CreateTxn \cup EditTxn \cup ApproveTxn \cup ExportTxn \cup VerifyTxn
         \cup AcceptTxn \cup TranslateTxn \cup ChecklistTxn

\* Rows and transactions stay well typed: statuses come from the sets the
\* handlers test, versions and record numbers are counted from one (the
\* tables of database.py), and a draft is there as soon as its packet is.
TypeOK ==
  /\ parsed \in ParsedOutputs /\ records \in Nat
  /\ active \subseteq DOMAIN Questions
  /\ request \in [Requests -> RequestRow \cup {None}]
  /\ DOMAIN values = Requests
  /\ \A r \in Requests :
       /\ Placeholders(r) \subseteq Tokens /\ IsFiniteSet(Placeholders(r))
       /\ values[r] \in [Placeholders(r) -> ValueStatuses]
  /\ draft \in [Requests -> Seq(DraftRow)]
  /\ verification \in [Requests -> VerificationRow \cup {None}]
  /\ batches \in [Requests -> SUBSET BatchIds]
  /\ txn \in [Sessions -> Txn]
  /\ approved \in [Requests -> SUBSET Version]
  /\ released \in [Requests -> SUBSET Version]
  /\ accepted \in [Requests -> SUBSET [from : Version, verified : Version]]
  /\ disturbed \subseteq Requests
  /\ \A r \in Requests : Created(r) <=> draft[r] # <<>>

\* A draft whose source lineage counts as complete has no word an officer
\* wrote over it, and before the final merge it still shows every placeholder:
\* neither an edit nor the merge can launder a text (create, update and accept
\* of /api/rewrite-requests).
LineageIsSound ==
  \A r \in Requests : \A i \in DOMAIN draft[r] : draft[r][i].lineage =>
     /\ draft[r][i].text.words # "edited"
     /\ draft[r][i].text.words = "generated" => draft[r][i].text.holes = Placeholders(r)

\* What a petitioner gets to see, on paper or to sign, and what the final text
\* is merged from, is a draft an approval examined, and the final text comes
\* from the draft the petitioner verified - unless a handler wrote on rows it
\* had read before another one committed, or a final packet was approved again.
OnlyApprovedIsReleased ==
  \A r \in Requests \ disturbed :
    /\ released[r] \subseteq approved[r]
    /\ \A a \in accepted[r] : a.from \in approved[r] /\ a.verified = a.from

\* The versions of a packet's drafts count up in the order they were saved,
\* so the latest draft is one draft - unless saves overlapped
\* (max(draft_version) + 1, read without a lock).
VersionsCount ==
  \A r \in Requests \ disturbed :
    \A i \in DOMAIN draft[r] : draft[r][i].version = i

\* A parse record has one active packet at a time, unless two creations
\* overlapped or a final packet was approved again (ACTIVE_REQUEST_EXISTS).
OneActivePacket ==
  \A r, q \in Requests \ disturbed :
    IsActive(r) /\ IsActive(q) /\ request[r].record = request[q].record => r = q

\* The evaluations shown with a packet are one evaluation of the checklist,
\* unless two evaluations overlapped: each deletes what it can see and inserts
\* its own (evaluate_rewrite_checklist).
OneEvaluation ==
  \A r \in Requests \ disturbed : Cardinality(batches[r]) <= 1

\* Undisturbed packets have one latest draft, one active packet for a record
\* and one evaluation: what no index of the tables keeps unique.
RowsStayUnique == VersionsCount /\ OneActivePacket /\ OneEvaluation

\* What the parser and the given questions find missing or uncertain.
FindingsOf(p, asked) ==
  NormalizeGapFindings(p)
    \cup ChecklistGapFindings(EvaluateChecklistQuestions(p, Questions, asked))

\* When a packet is created every gap the parser and the questions the request
\* had read found has one placeholder, and that is as grave as the gravest
\* finding of the gap, though parser and checklist may disagree about it and
\* the questions may have changed meanwhile (_dedupe_gap_findings,
\* create_placeholders).  Labels of one slug count as one gap.
EveryGapHasOnePlaceholder ==
  [][\A s \in Sessions, r \in Requests :
       txn[s].op = "create" /\ txn'[s] = Idle /\ ~Created(r) /\ Created(r)' =>
         \A f \in FindingsOf(parsed, txn[s].active) :
           LET found == {g \in FindingsOf(parsed, txn[s].active) : SameGap(f, g)} IN
           \E p \in Placeholders(r)' :
             /\ {q \in Placeholders(r)' : SameGap(f, q)} = {p}
             /\ \E g \in found : p.severity = g.severity
             /\ \A g \in found : Rank[p.severity] >= Rank[g.severity]]_vars

\* An accepted packet stays as it was accepted: no draft is added and its
\* status does not move, unless a request that had read it before still wrote
\* or it was approved again (FINAL_OR_REPLACED_STATUSES).
AcceptedIsFinal ==
  [][\A r \in Requests \ disturbed' :
       Created(r) /\ request[r].status = "accepted" =>
         draft'[r] = draft[r] /\ request'[r].status = "accepted"]_vars

=============================================================================
