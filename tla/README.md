# Verification of compliant-parser

TLA+ models of this repository, checked with TLC and, where stated, proved with TLAPS.
They cover the parts whose correctness depends on the order in which things happen: what
two requests, two workers, a failing service or a restart can do to each other.

Contents: [the system](#1-the-system), [the modules](#2-the-modules-and-the-code),
[the runs](#3-the-runs), [the proofs](#4-the-proofs),
[what the models assume and leave out](#5-assumptions-and-limits), [the plan](#6-the-plan).

## 1. The system

Compliant-parser ("IQW") turns complaints and petitions handed to the police into
structured records, and keeps the cases that come of them. It consists of two programs:

- **the application**, a FastAPI server (`app.py`, `api_v1.py` and the modules they use) on
  PostgreSQL, run as several processes (`WEB_CONCURRENCY` defaults to 2 in the Dockerfile,
  and the Kubernetes deployment scales from 3 instances);
- **the knowledge service** ("KIS", `services/knowledge-intelligence-service`), one FastAPI
  process that keeps its data in memory and copies it to a database.

They talk over HTTP: the application indexes each parsed record in KIS
(`kis_client.py`), from a request, from a background worker or on an administrator's
demand. The application also calls CCTNS (the police records system), object storage, OCR,
translation and language models.

### Components

| Component | State it keeps | Operations | What is hard | What makes it correct |
|---|---|---|---|---|
| KIS indexing queue (`kis_indexing_status.py`, `app.py`, `api_v1.py`, `kis_client.py`) | the columns `kis_index_*` of `parse_records`; progress of each worker in memory | insert, enqueue, claim, report, re-index, requeue, re-parse, delete | workers of several processes, leases that expire under a slow worker, crashes, lost writes, handlers that write to the row under a worker | columns agree; claims are exclusive; failed work is retried and settles; a record is indexed once |
| Case register (`cases.py`, `cctns.py`) | `cases` rows, copies in CCTNS | create, number, move, change status, synchronise, retry | overlapping transactions, an external call inside a transaction, lost answers | numbers unique, statuses follow the table, a registered case has a number, the CCTNS columns tell the truth |
| Case documents (`cases.py`, `external_interfaces.py`) | `case_documents` rows, blobs in object storage | upload one or several, new version, purge | blobs are shared and not transactional, versions race | the newest version is the latest, its bytes can be read |
| Audit trail (`audit.py`) | `audit_log` rows linked by hashes | append in a transaction, append in the middleware, purge, verify | entries are linked before they are committed | an untouched trail verifies, a broken one stays broken |
| KIS knowledge lifecycle (KIS `pipeline`, `facts`, `graph`, `wiki`, `quality`, `snapshots`) | sources, chunks, facts, graph, articles, evaluation sets, snapshots | ingest, state, review and promote facts, compile, gates, draft, publish, roll back, rebuild | overlapping and half-finished index runs, restarts from older copies, late requests | one source per record, edges come from facts, published versions passed the gates |
| KIS store persistence (KIS `middleware/persistence.py`, `db/state_persistence.py`, `main.py`) | the store in memory, one row with a copy of it | handle, read the row, export, commit, start | overlapping persistences write in any order, failures are swallowed | the copy is closed; a quiet request is saved |
| Complaint parsing (`complaint_parsing.py`) | none: one complaint on its way through `parse_document`, with the calls of its translation providers | detect the language, translate, choose, refine, extract by rules, ask a model, check its answers, record | providers in parallel or in turn, each failing at any chunk; a model that invents | nothing is lost but noise and what the cutting of a long paragraph drops; what the model adds to fields and parties has the backing the code asks for; what the rules found stays |
| Parse history (`app.py`, `api_v1.py`) | `parse_records`, stored originals, `petition_checklist_questions` | upload, stream, list, show, serve the file, delete, clear, three batches, edit the checklist | files and rows not updated together, streams cut off, batches that write back what they read long ago | no row without its file, no file without a row, columns that agree, true answers, no gap hidden |
| Petition assistance and rewrite (`petition_assistance.py`, `app.py`) | requests, placeholders, drafts with versions, verifications, evaluations | create, edit, approve, export, verify, take in returned values, merge, translate, evaluate | every handler decides on rows it read without a lock | what the petitioner gets was approved; what was accepted is final; versions, packets and evaluations stay unique |
| Senior officer dashboard (`senior_dashboard.py`) | export jobs, metric snapshots | resolve filters, read the dataset, report, export, snapshot, retry, revoke | several workers, requests that read a row before a worker writes it, a requester who is transferred, tables read one after the other | a file while the export is completed, nothing out of scope, figures that add up, queues that drain |
| Sessions and accounts (`auth.py`) | login counters, a list of revoked tokens, in the memory of each process | log in, refresh, log out | processes do not share the lists | a revoked token stays revoked |
| Model governance (`governance.py`, `ai_workflows.py`) | model cards with a status | register, approve, retire | little | status order |
| KIS retention and legal holds | holds and deletion requests in the store | hold, request a deletion | nothing: no code carries a deletion request out | a request for what is on hold is refused |
| KIS providers, prompts, reasoning | none, apart from prompts | calls of language models, scoring | text | outside this method |
| Documents, privacy, external interfaces, migrations, scripts, service worker | none, or declarations | layout, masking, adapters | text | outside this method |

### How they interact

A request of the application is one database transaction, opened by `get_db`
(`database.py:395`) and committed when the request ends; PostgreSQL runs it at READ
COMMITTED, so each query sees what others have committed by then, and a row read early may
be stale when it is written. The indexing queue is the exception: each of its functions
opens a session of its own and commits it. A parse request ends in `save_parse_record`, and
then hands the row to the queue; from there a worker makes the HTTP calls that are a run of
the knowledge lifecycle; each of these calls that changes something is followed by a
persistence of the whole store. `AuditMiddleware` appends an entry after each request, in a
transaction of its own.

A parse request runs `ComplaintParsing` for its text, judges the result by the checklist and
saves it; a petition packet starts from the parse of a saved record. The dashboard only reads
what the others wrote, and keeps its own two job tables.

The models are cut along these lines. `KisQueue` reduces a run to ingest, compile and gates;
`KisKnowledge` has the run in full and reduces persistence to "a copy is written, or not";
`KisStore` has the persistence in full. `ComplaintParsing` is one complaint without its row;
`ParseHistory` has the rows and files, for which a parse is where it came from; `KisQueue` has
the queue columns of the same rows. `ParseHistory` and `PetitionRewrite` each contain the pure
part they decide by (`ChecklistAnalysis`, `PetitionPacket`), `DashboardJobs` contains
`DashboardMetrics`. `ExclusiveJobs` is implemented by the indexing queue and by the jobs of
the dashboard.

## 2. The modules and the code

| Module | Models | Used by |
|---|---|---|
| `ExclusiveJobs` | abstract: a job is in the hands of one worker at most | `KisQueue` and `DashboardJobs` implement it |
| `KisQueue` | the indexing queue | `MCKisQueue`, `KisQueueProofs` |
| `KisQueueProofs` | theorems about `KisQueue` | |
| `ComplaintFields` | the six fields of a complaint: rules, the model's answers and their validation, gaps, FIR draft | `ComplaintParsing` |
| `ComplaintParsing` | one complaint through `parse_document` | `MCComplaintParsing` |
| `ChecklistAnalysis` | the checklist analysis of a parse | `ParseHistory` |
| `ParseHistory` | rows and files of parse records, batches | `MCParseHistory` |
| `ParseProofs` | theorems about `ParseHistory`, every analysis of `ChecklistAnalysis`, and `ComplaintParsing` | |
| `PetitionPacket` | gaps, placeholders, drafts and their validation | `PetitionRewrite` |
| `PetitionRewrite` | the life of petition packets | `MCPetitionRewrite`, `PetitionRewriteProofs` |
| `PetitionRewriteProofs` | theorems about `PetitionRewrite` | |
| `DashboardMetrics` | filters, dataset and figures of the dashboard | `DashboardJobs` |
| `DashboardJobs` | exports and snapshots | `MCDashboard` |
| `DashboardJobsProofs` | theorems about `DashboardJobs` | |
| `CaseRegister` | the case register and CCTNS | `MCCaseRegister` |
| `CaseRegisterProofs` | theorems about `CaseRegister` | |
| `CaseDocuments` | the documents of a case, and object storage | `MCCaseDocuments`, `CaseDocumentsProofs` |
| `CaseDocumentsProofs` | theorems about `CaseDocuments` | |
| `AuditTrail` | the audit log | `MCAuditTrail`, `AuditTrailProofs` |
| `AuditTrailProofs` | theorems about `AuditTrail` | |
| `KisKnowledge` | one knowledge base of KIS | `MCKisKnowledge`, `KisServiceProofs` |
| `DurableCopy` | abstract: memory, a copy, and lives that begin from the copy | `KisStore` implements it |
| `KisStore` | the persistence of the KIS store | `MCKisStore`, `KisServiceProofs` |
| `KisServiceProofs` | theorems about `KisKnowledge` and `KisStore` | |

The `MC` modules give TLC's instances the definitions a `.cfg` cannot express, and the
symmetries. In `PROJECT.json`, "map" names the lines each definition translates. Definitions
commented *Mutant* are plausible bugs: each replaces the definition after it to show that a
property would notice.

### KisQueue

`row[r]` holds the queue columns of a parse record: the status, the attempts, the next
attempt, the worker and its lease. It also holds `content`, the version of `parsed_output`.
`loc[p]` says where a worker or handler is between two transactions and what it remembers: the
text it was given, the attempt it is on, the outcome it will report. `kis[r]` is what KIS
holds for the record. Times are kept as the ticks that remain, so that time has no bound: a
lease of -1 has expired, a next attempt of 0 is due.

| Action | Code |
|---|---|
| `Insert` | `save_parse_record` (`app.py:510`): the row is `pending`, with no schedule |
| `QueueDisabled`, `QueueInline`, `QueueBackground` | `_queue_parse_record_for_kis` (`app.py:674`) |
| `Claim` | `claim_next_kis_index_record`: one `UPDATE ... WHERE id = (SELECT ... FOR UPDATE SKIP LOCKED)` |
| `KisIngest`, `KisIngestBreaks`, `KisCompile`, `KisFinish`, `KisError`, `KisOff` | `index_uploaded_document_via_kis`, call by call |
| `WorkerReport`, `HandlerReport` | `update_kis_index_status`, or `mark_kis_index_failure` for a worker's failed attempt |
| `ReindexRead`, `ReindexMark`, `RequeuePick`, `RequeueWrite`, `ReparseRead`, `ReparseWrite`, `Delete` | the administrators' endpoints, halves of a request separated where they wait |
| `Tick`, `Crash`, `LoseWrite` | leases and delays run down; a process ends; the database refuses a write and the code goes on |

The statements of the code appear as operators on rows (`Enqueued`, `Settled`,
`AttemptFailed`, `Claimed`, ...), which set the columns the statement sets and no others.
`valid` is a history variable: the workers whose claim nobody has disturbed by writing to
the row and whose lease has not run out. Properties are stated about these, because the code
lets a handler write by record id at any time. `orphaned` are the records whose own handler crashed or
lost its report, until the row is written again.

### ComplaintFields and ComplaintParsing

A text is a sequence of paragraphs, a paragraph a sequence of units. A unit has a kind, as far as the
splitting and the cleaning tell characters apart (`Kinds`: a word in a script the splitting knows or in another one,
punctuation stripped at edges, ends of sentences, noise), and *says* phrases. `ComplaintParsing` follows one complaint
through `parse_document`: `BeginTranslation` detects the language and starts the translation, in parallel when
`config.qe` and several providers are usable (`TranslateViaGoogle`, `TranslateViaOpenAI`,
`TranslateViaGemini` chunk by chunk, `EstimateQuality`, `Collect`, `EndEnsemble`) or one
provider after the other (`TryNext`). `RefineChunk` may drop something or fail, `Extract`
applies the rules, `AskModel` validates and merges the answers of a language model, `Write` makes
the record and the FIR draft. `Cleaned` is `_clean_ocr_noise`, which takes more for noise in a text of an Indian
script. `ChunkText` is `_chunk_text_for_translation`. It moves the pieces of a part that is too long ahead of
what is being collected, and it cuts a paragraph that is too long into sentences (`Sentences`, `_split_sentences`), which
**drops** what `_clean_extracted_value` drops: the punctuation at their edges, and every sentence without a Latin,
Devanagari or Telugu letter or a digit - so sentences in Urdu or Malayalam. An empty chunk from Google is accepted, one from
a language model is not. The steps that prepare the text for refinement and tidy the answer can only take something
out, as the refining model can: `RefineChunk` chooses what is kept of a chunk.

`ComplaintFields` has what the rules make of what they come across, the validation and merging
of the model's answers (`ValidateAnswers`, `MergeFields`), the gaps, the questions and the FIR draft. A value the model gives
is accepted as the code accepts it (`Backed`, `BackedRole`): verbatim; by its dates and times; by
the part of its words that counts for the question (30 to 50 hundredths, `Threshold`); for "why", because something in the
text speaks for a motive of its kind (`Motives`); for an unknown actor, because somebody unknown is mentioned. What the
rules put in without its being in the text is in the model too: standard names for somebody unknown (`Standard`), stock evidence
(`StockEvidence`) and one stock phrase (`BusJourney`). The `brief` of the FIR draft is the model's own summary if it gives
one: nobody checks it (`ComplaintBrief`). An answer for "when" replaces the whole field, so it may drop a time the
rules had found: `NothingIsLost` says what is true, that the field is not missing afterwards.

### ChecklistAnalysis and ParseHistory

`row[r]` is a row of `parse_records`, `file` the stored originals, `upload[r]`, `user[u]` and
`batch[b]` the requests. An upload is `Begin`, `ParseUpload` or `ParseFails`, `PutFile`,
`InsertRow` or `InsertRefused` (whose commit may have gone through), `LinkToCase`,
`UpdateDocument`, `Answer`, for streams also `Disconnect`. A deletion is `DeleteRecord` or
`ReadFiles` and `DeleteAllRows`, then `EraseFile` for each file. A batch reads all it needs in
`BeginBatch` and then, row by row and in any order, holds an output (`MakeOutput`), writes it
(`WriteOutput`) or counts an error (`PassOver`). `SaveQuestion` edits the checklist, `Crash` ends
every request. `history` records what the properties excuse. An analysis is computed by
`ChecklistAnalysis`: the newest active version of the checklist, one finding for each question, findings that
read alike merged, the rest counted.

### PetitionPacket and PetitionRewrite

`PetitionPacket` is the pure part: how a question is answered from a complaint
(`EvaluateChecklistQuestions`), which gaps follow (`DedupeGapFindings`), their placeholders, the
validation of a body and the final merge. A body is who worded it and which tokens are in it.
Gaps are told apart as the code tells them apart, by the slug of their labels (`SlugOf`): labels without Latin letters
or digits all have the slug `detail`, so of several gaps worded in an Indian script the packet asks for one.
In `PetitionRewrite` each handler of `/api/rewrite-requests` is a transaction: where its writes
depend on rows it has read it is a pair `Read...`/`Commit...`, and any transaction may be
rolled back (`Abandon`); a creation keeps the questions it read, a translation the draft it sent out. `disturbed` records the requests where a write followed a read that
was stale by then, or whose final packet was approved again; properties say what holds for the others.

### DashboardMetrics and DashboardJobs

`DashboardMetrics` is the pure part: the filters a role may have (`ResolveDashboardFilters`), the
records they leave (`DashboardDataset`) and the report. In `DashboardJobs` a worker locks the
first waiting row (`NextJob`, `Take`), with the cases and the requester's row as they are then
(without a row it counts as an administrator, `UserPayload`), and
`ProcessExport`/`ProcessSnapshot` reads the other tables later and commits. `ReadExport` and
`CommitExport` are retry and revoke, which write the columns that differ from what they read.
`Transfer` changes the requester's row, `Work` moves the case tables on. `MaxJobs` bounds how much each
requester asks for; retries are not bounded.

### CaseRegister

`cases[c]` is the committed row, `loc[h]` a request with the columns it is going to write,
`cctns` the cases CCTNS has taken. A creation is `BeginCreate`, `GenerateNumber` (one more
than the largest committed number), `EnsureUniqueCrimeNo`, the attempts to tell CCTNS
(`PostAnswered`, `PostFailed`, whose case may have arrived all the same), `CommitCreate`.
`BeginMove`/`CommitMove` are `PUT /cases/{id}`, `BeginTransition`/`CommitTransition` the
status endpoint, `BeginRetry`/`CommitRetry` the CCTNS retry. `Abort` is a request rolled back: what CCTNS
was told stays. Numbers are reduced to their sequence part, all of one year.

### CaseDocuments

`docs` are the committed rows, `blobs` the keys in object storage, `reqs[p]` a request: the
files still to store, what the transaction has written so far (`own`) and the rows it has
locked. An upload goes through `ReadLatest`, `Put` and `Insert` for each file and ends in
`CommitUpload`; a purge deletes blob after blob, then the rows, then commits. `Fail` rolls back the
transaction but not the storage. `Cite` stands for analyses and alerts, whose foreign keys make the
deletion of a row fail. A content stands for its SHA-256, which is part of the key.

### AuditTrail

`log` are the committed entries, `loc[w]` a transaction that appends: `Link` reads the
latest hash, `Append` takes the time and inserts the entry, `Commit` makes it visible. A
hash is represented by the entry it is the hash of. Entries from before the migration carry
no hash. `Purge` is retention. `Verified` is `verify_audit_chain`: entries in the order of
their timestamps, each linked to the hashed one before it.

### KisKnowledge

`store` is the memory of the service, `saved` the copy, `runs[c]` an index run of a client.
Operations of the service are operators on a store (`Ingested`, `Stated`, `Reviewed`,
`Promoted`, `Compiled`, `Drafted`, `Published`, `RolledBack`); `GatesPass` is
`run_quality_gates`. An ingestion that raises half way leaves its source (`IngestBreaks`), with the chunks it has made so
far or none; a later run is given this source again, and can compile nothing from it if it has no chunk. A run is
`Begin`, `Ingest`, then `CreateFact`, `Review` and `Promote`
for each claim, `Compile`, `CheckGates`, and if they pass `Draft` and `Publish`; it may
`Fail` anywhere. `CuratorStep` is one request of a curator or the rebuild job. `Restart`
begins again from the copy while the runs go on with the ids they know. An id is a record of
what the object was made from and of the era, because ids are random and an object made
again after a restart is another one.

### KisStore

`memory` holds the requests whose effect is in the store, `rows` the payload in the one row of
`kis_state_snapshots`, `loc[r]` where a request is: handled, waiting for the row, waiting
for the write. `Handle`, `Read`, `Export`, `Commit` and `Swallow` follow
`StorePersistenceMiddleware` and `persist_store`; `Start` ends the process at any
moment and runs `lifespan`, which may begin with an empty store when the database is not
ready and not required. `base`, `quiet`, `blind` and `past` are histories for the properties.

## 3. The runs

| Run | Instance | Shows |
|---|---|---|
| `kis_queue` | one record, two workers, one handler, all modes and administrators' operations, 2 attempts, a lease of 1 tick, 1 crash or lost write | `RowConsistent`: lease, holder, schedule and status agree whoever wrote last. `ValidClaimOwnsRow`: an undisturbed claim is found as it was left. `IndexedHasKnowledge`: "indexed" is true of KIS. `RunningIsAttended`: a `running` row has a lease or a handler that will report, unless its own handler crashed or lost its report. `ImplementsExclusiveJobs`: refinement of `ExclusiveJobs` |
| `kis_queue_live` | background mode alone, 3 attempts, lease of 2 ticks, 3 faults, fair | `PendingSettles`: every queued record is finished. `AttemptsAreCounted`: failures keep a schedule while attempts remain, and no article comes without a counted attempt |
| `complaint_parsing` | six complaints under eight configurations, providers that answer, stay silent or fail at every chunk, four readings, three replies | `TranslationKeepsTheText`: no hole but what cleaning and cutting drop. `BestTranslationWins`: the best translation is taken, and none is passed over while a provider was not tried. `NothingUnsupported`: fields and parties have the backing the code asks for. `NothingIsLost`. No deadlock |
| `parse_history` | one upload beside a stored record, a deleting user, two batches of any kind, one edit of the checklist, one failure | `FilesAreReadable`, `NoForgottenFile`: rows and files stay together. `ColumnsFollowTheParse`: listed columns are those of the output. `AnswersAreTrue`: what a client is told is so. `GapsAreAsked`: merging hides no gap |
| `petition_rewrite` | two overlapping requests on two packets of one complaint, three complaints, up to 3 drafts and 2 evaluations of a packet | `LineageIsSound`, `OnlyApprovedIsReleased`, `RowsStayUnique`; `EveryGapHasOnePlaceholder` (each gap is asked for once, as gravely as its gravest finding) and `AcceptedIsFinal` as action properties |
| `dashboard` | two workers, one session of retries and revokes without end, one fault, and one of three requesters: an export and a snapshot of one who has two rows in turn, while the case tables change; a snapshot of one who has none; two exports and a snapshot queued together | `FileIffCompleted`, `ContentInScope`, `ReportsAddUp`; `ImplementsExclusiveJobs`: the second refinement of `ExclusiveJobs`; `QueuesDrain` under fairness |
| `case_register` | two cases, two overlapping requests of five, two stations, a lost answer, one rollback | `FirHasNumber`; `CctnsAgrees`: synced cases are known to CCTNS, and CCTNS has no stray case but by a rollback; `UniqueUnlessShaken`: numbers are unique where no registrations overlapped and no case moved; `FreshMovesFollowTable`: a status request that is not stale follows the table |
| `case_documents` | two overlapping requests of three, two names with one key, two contents, up to two files each | `VersionsAreInOrder`: the newest version is the latest, and without overlap the only one. `ReadableUnlessPurged`: bytes go missing only by a purge |
| `audit_trail` | four entries, two of them possibly unhashed, two overlapping transactions, retention | `LinksAreSound`: links lead back, without overlap to the predecessor, and an undisturbed trail verifies; `BrokenStaysBroken` as an action property |
| `audit_forks` | two overlapping requests | **violated** `ChainVerifies` |
| `kis_knowledge` | two overlapping runs of a record with two claims that share a node and a link to a document, two events (requests of curators, restarts, overlapping runs) | `RowsAgree`: one source for a record, edges that come from facts, one published snapshot. `IndexedIsComplete`: what was reported as indexed has chunks, edges and an article, whatever an earlier ingestion left half done. `PassingWikiIsClosed`: although links are judged when an article is compiled, passing gates mean that none is broken |
| `kis_store` | four requests, two restarts that may not read the row | `SavedIsClosed`: the copy is never a mixture. `QuietlySavedStays`. `KeepsACopy`: refinement of `DurableCopy` |

A property that joins several formulas is their conjunction under one name; each part has its own
definition and comment in the module.

### What the code does otherwise than one would expect

The violated run states what a test and a plan of the repository say: **an untouched audit trail
does not verify** (`audit.py:128`). Two overlapping requests link their entries to the same one.

Other behaviours are kept visible by the way a property is stated; the excused states are
exactly these.

- *Indexing twice* (`app.py:681`). `save_parse_record` inserts the row as `pending`, which a
  worker may claim at once; the handler's later enqueueing clears the lease, so the record is
  indexed again and gets a second article. `ValidClaimOwnsRow` speaks of undisturbed claims.
- *Crime numbers* (`cases.py:1036`). Moving a case does not check the numbers of the new station,
  and two overlapping registrations can take one number (`shaken`).
- *Terminal statuses* (`cases.py:1146`). Of two status requests that read the old status the later
  one may write over a terminal status (`FreshMovesFollowTable` speaks of fresh ones).
- *Rollback in KIS* (`snapshots/service.py:89`) publishes a draft that never passed the gates.
- *Purges* may delete bytes that the latest version of equal content still needs, or be rolled
  back after they deleted the bytes of rows they leave (`ReadableUnlessPurged`).
- *Persistence of KIS.* Overlapping persistences may replace a newer copy by an older one
  (`QuietlySavedStays` speaks of requests that did not overlap).
- *Drafts* (`app.py:2423`). Two edits may save one version number; a packet may be approved,
  edited or merged on what another request has changed since (`disturbed`).
- *Dashboard exports* (`senior_dashboard.py:1736`). A retry or revoke that read the row before
  the worker committed may leave a revoked row with a file (`overlapped`).
- *Saving a parse* (`app.py:541`). An insert that was committed although its answer was lost loses its
  file (`history.lost`); a cancelled stream, a crash, and a clear that deletes rows it has not
  read leave files behind (`leftover`, `overtaken`); a batch may write back an output older than
  the re-parse stored meanwhile (`overwritten`).
- *Failed translations* (`complaint_parsing.py:2652`, `:2682`). If every provider fails, the untranslated text
  is returned with the status `not_needed` and no gap is flagged, although a comment (`:5857`) and a test
  of the backfill script take that status for a sign of English. `UntranslatedWasTried` says that
  this happens in no other case.
- *Long paragraphs* (`complaint_parsing.py:1903`, `:1142`). Cut into sentences, they lose those in a script
  the splitting does not know (`TranslationKeepsTheText` speaks of words it knows, and of paragraphs that fit).
- *Unchecked summary* (`complaint_parsing.py:3564`, `:5962`). The model's summary becomes the brief of the
  FIR draft without a check against the text; `NothingUnsupported` speaks of fields and of the other entries.

### Bounds

Every bound is a constant marked *bound* in its module. Why they are enough to meet the cases:

- *Queue.* Records do not interact except in the order of claims, and a row is written by
  its id alone; one record with two workers and a handler gives every pair of writers on one row.
  Two attempts have a first failure with a retry and a last one without; the live run has
  three, so that the delay reaches its ceiling. A lease of one or two ticks expires under a
  worker at every point. `AttemptCap` and `ArticleCap` saturate counters above the values
  that guards and properties tell apart.
- *Cases.* A duplicate needs two cases, a stale write two requests. Five requests allow a creation of
  each, a move, a transition and a retry. `MaxSeq` 2 meets the refusal of a number
  that no longer has four digits.
- *Documents.* A lost version needs an upload, a second one or a purge, and a third to overlap
  it; two names with one last component and two contents give shared and distinct keys; two
  files make an upload that fails half way.
- *Audit.* A wrong link needs two overlapping entries and a third that follows; two unhashed entries
  fill the window of 2, so that the first hashed one finds nothing to link to.
- *Knowledge.* Two claims that share a node make two facts compete for an edge; two events
  make a restart with a curator's request, or overlapping runs with a restart.
- *Store.* An old copy over a newer one needs two overlapping persistences; four requests leave
  two more for the lives after the restarts.

- *Parsing.* `MaxChunk` is 2 units (Google takes 4). The complaints are one with a paragraph longer than any request, which
  has sentences of two scripts, edge punctuation and more than one request's worth of words, between two short ones; one
  with noise, whose paragraphs fit two by two; one too long for all but Google under a letterhead; an English one; one
  that is all noise; and an empty one. Every provider may fail at every chunk; each rule and each way an answer is
  accepted or refused (verbatim, by its words, by its dates, as a motive, as somebody unknown; invented, unknown,
  without evidence, not sure enough) is met by a reading or a reply.
- *History.* One new and one stored record give an upload against everything else and a batch
  against a deletion; two batches give a stale write over a re-parse; one failure can
  strike at each step. With the proofs the bounds matter for the search only.
- *Petition.* Officers work on one packet, the other is there to be created twice and to be
  evaluated; three drafts are a first one, an edit and a merge. The complaints are one in English with two gaps, about
  one of which the checklist is graver than the parser, one whose two Telugu labels share a slug, and one without a text.
- *Dashboard.* The order of the queue takes two exports, of which each can be retried again and again, and a
  snapshot behind them; what reports contain takes two data sets, so that tables read at different times can
  disagree, and a transfer. `MCInit` keeps the two apart: the requester of the long queue asks about tables
  that no longer change.
- *Requester without a row.* An export refers to the users table, a snapshot names its requester only: the
  worker takes one it does not find for a `System_Admin` (`senior_dashboard.py:592`), whose snapshot shows every case.

Two runs tell states apart by a `VIEW`: `parse_history` leaves out what a batch has read and is done with
and analyses, which decide nothing else. `petition_rewrite` leaves out which of several statuses with one
effect a row has, whether a petitioner refused or was not asked, which of the returned values are final
as long as equally many are, the review of the translation of an English complaint (approval does not ask for it),
what nobody works on, and the active questions while neither a creation nor an evaluation can read them (they can
change at any time). It also has a `CONSTRAINT`: behaviours are not followed beyond the step that disturbs a
packet, of which no property speaks any more.

Symmetry is used where the elements of a set are interchangeable, never in the run that checks
liveness. Deadlock is not checked: the bounds end every behaviour, and a system nobody uses
is idle.

### Fairness

`FairSpec` of `KisQueue` assumes weak fairness of each worker, of a handler once its request
began, and of the clock. The worker is a loop that polls (`app.py`, started in `lifespan`),
each call to KIS has an HTTP timeout, and both sides of a timeout are steps (`KisError` or
the answer). A crashed worker is started again with its process and polls on. Nothing obliges
users or administrators to do anything, and crashes and lost writes are finitely many
(`MaxFaults`), as in any bounded instance. `DashboardJobs` assumes the same of its workers, which
the same loop runs, and promises no more than its order allows (`QueuesDrain`): a row leaves the queue unless rows that
go before it are queued again and again. The other runs check safety and assume no fairness.

## 4. The proofs

The proof modules hold for every set of records, workers, handlers, requests, users, packets,
names, entries, runs, questions, documents and replies and for all values of the numbers, under the named assumptions of the
modules:

| Module | Assumed of the constants |
|---|---|
| `KisQueue` | record ids are numbers, workers and handlers are different, NULL is neither a number nor a process, ticks and attempts are positive |
| `KisStore` | `RequireDatabase` is a Boolean, `MaxStarts` a number |
| `KisKnowledge` | a record has at least one claim, records are not documents, links lead to titles |
| `ParseHistory` | questions are finitely many numbers with one of the three severities the endpoint accepts; there is a verdict for uploads and one for re-parses; `NoRow` is neither a record nor a row |
| `ComplaintParsing` | the settings are those `get_translation_config` lets through, scores are numbers and a request takes at least one unit; a document is a sequence of paragraphs of units that say phrases of the lexicon, and no paragraph is empty; a phrase has finitely many words; a reading has what each rule looks for, places of at most 104 hundredths and mentions of somebody unknown that have a standard name; an answer of the model has the keys the prompt asks for (a missing one reads as empty) |
| `PetitionRewrite` | requests and questions are numbers; a complaint has a list of gaps, their labels have a category and a slug, categories are ordered, a question has a label and a known severity; `None` is nothing else |
| `CaseRegister` | the sequence has a largest number, there is at least one try, `None` is none of the values |
| `CaseDocuments` | the bounds are numbers |
| `AuditTrail` | `None` is no entry, the window is positive; the entries from before the migration are finitely many (`Init`) |
| `DashboardJobs` | ids are keys of the case table, a case has one of the statuses its column is constrained to, tables are finite, jurisdictions are ranked places, `None` is no worker, lock or content |

Each proof has the same shape: an invariant that implies the property and is
inductive, checked with TLC on the run's instance first, a lemma for each action or group of
actions, and the temporal step last.

What a recursively defined function computes for every input (the chunks of a text, the joining of sequences) is
proved without an induction rule, whose operator parameter the provers cannot instantiate: that there
is such a function, and what it has at each place, follows from the least place at which it would fail (`StepsExist`,
`FlattenIs`, `CollectedKeeps`), and a least element from the well-foundedness of `<` (`SmallestOf`). The fold of a sum
recurs on sets; the smallest set on which it would differ from a given solution of its equation shows that there is none
(`SumIs`).

**The queue.**
`TypeCorrect` is inductive by itself, with one lemma per group of actions (`QueueTypes`,
`WorkerTypes`, `KisCallTypes`, `AdminWriteTypes`, ...), resting on `RowUpdates`: every
statement of the code keeps a row well formed. That `2^n` is a number comes from the library,
as the size of `SUBSET (1..n)`.
`RowsStayConsistent` follows from `NextWritesRows`, which says that whatever happens, a row is
changed only by one of the statements, and from `ConsistentUpdates`, which says that each of them
keeps the columns in agreement when they were before.
`ClaimsExclusive` is not inductive: that two workers do not share a record says nothing of
what a third could claim. The strengthening is `ValidClaimOwnsRow`: an undisturbed claim has
its worker's name, its attempt and a live lease in a running row. A row has one holder, so two valid
claims on it are of one worker; and a row that is running under a live lease is not claimable, so no claim
disturbs a valid one (`ClaimsHold`). Each other step either leaves the row alone or ends the
claims on it (`ClaimsSurvive`, `WriteSparesOthers`, `HandlersSpareClaims`,
`WorkersSpareClaims`, `CrashTickSpareClaims`).
`QueueImplementsExclusiveJobs` maps each step to `Take`, `Release` or a stutter; the
exclusiveness of claims makes `HolderOf` well defined.

What a row says of KIS needs to know what its writers have seen: `WorkInv` adds to `IndexedHasKnowledge` and
`RunningIsAttended` that a worker or handler on its way to a report has already seen KIS do what it is going to
report (`Knows`), which no crash of another one takes away.
`AttemptsPay` is about the deployment the live run has (`WorkersAlone`: every instance indexes in the background,
administrators leave the queue alone, there are finitely many workers), because a handler indexes without
claiming and so compiles articles nobody counts. Its invariant (`BudgetInv`) counts the workers that may yet
compile an article: articles and such workers together never outnumber the counted attempts, although a worker
whose lease ran out goes on compiling while the next one has claimed the record.

**The store.**
`StoreTypeCorrect` contains that the table never has two rows: an insert that finds one fails.
`CopyIsClosed` needs that everything a payload can come from is closed: `AllClosed` (every
moment of memory in this life), `InPast` (what waits to be written, and the row, are such
moments) and `Unborn` (requests not yet sent are in none of them, so that handling one adds it
together with its base).
`QuietRequestsStay` needs, in addition, what overlaps cannot have done: while a quiet request
persists it is alone, and once answered it is in the row and in every payload on its way.
`StoreImplementsDurableCopy` maps `Handle` to `Change`, `Commit` to `Write` and `Start` to
`Begin`; the rest stutters. That what is written is in `past` is `InPast` again.

**The knowledge base.** `IInv` of `KisServiceProofs` says four things. Every store is `Sound`, the one in memory and
the copy: one source for a record, edges that name a fact that is there and is as sure, one published snapshot, and
each link of an article is noted as broken or leads to an article. What a run has in hand is of its record, whatever
the service still knows of it (`OnSubject`). And until the first restart each run has what it has done behind it
(`OnTrack`), and what was reported is complete. The last is why the model counts the restarts: afterwards a run goes on with ids of
a life that is gone. The argument is one lemma for each operation of the service, that it keeps a sound store sound and that the store
grows (`Grows`): sources, edges and titles only disappear by a restart. So a run that only waits keeps what it has
(`GrowthKeeps`), and a link that was not broken when its article was compiled cannot break (`PassingWikisAreClosed`).

**The history.** All five properties of the run are theorems.
`TypeCorrect` needs what requests have in hand: what an upload is about to insert and what a batch
holds are outputs, and a batch has read what it has left to do (`TInv`).
`RowsHaveFiles` is not inductive by itself. The strengthening (`FInv`) says that a record has no row before its
insert, that a file is there when the insert comes, and that what a deletion has still to erase is
of records that were inserted once and have no row any more, so that it cannot come back.
`FilesHaveRows` follows from `FilesAccountedFor`: a file without a row is being saved or erased, or
is one of those that were left over.
`ColumnsAgree` rests on the columns each kind of batch writes (`UpdatedColumns`): a batch that
does not write the format must have read an output of the same parse, or the row is marked.
`ClientsAreToldTheTruth` is proved from what is known of a record at each place of its upload
(`ToldSoFar`), with one lemma for uploads (`UploadTold`), one for deletions (`UserRemoves`) and
the facts that batches neither create, delete nor unlink rows.
`HistoryAsksEveryGap` follows from the types and `EveryAnalysisAsks`: of the findings that read like
a gap, those of the greatest severity have one of least number, and that one is kept.

**The complaint.** All four properties of the run are theorems of `ParseProofs`; for none of them are the
kinds of documents, configurations, readings or replies restricted to those of the run.
`BestIsChosen` rests on `ChoiceInv`: of the providers in parallel, whoever leads has the best score of those whose result was
taken, and only calls that have ended are taken (`EnsembleLeads`), so that no late score can change what was compared; in
sequence nobody is asked or has translated but the one whose turn it is (`SequenceTries`), so that what is passed on
untranslated was translated by none. A score is there only with a translation, and a number (`IsJob`), which is what makes comparing sound.
`RecordIsSupported` and `AnswersOnlyAdd` follow from one invariant, `ExtractInv`: from the rules on, what fields, roles and instants hold
rests on the text (`Stands`), and what the rules had filled stays filled (`Keeps`). What *rests* on a text is what the code would accept
of it; it rests on every longer text as well, because words, dates and grounds only get more (so that an answer checked against the
body of the analysed text rests on all that was read), and so does whatever the text has verbatim. The lemmas follow the text through the
code: `RulesStand` (the rules take what they come across, or the standard names for it), `AnswersAreStated` (an answer that stands
rests on the source, whichever question it is to), `FieldsMerge` (merging keeps both), `DraftStands` (the parties, dates and
places of the FIR draft are those of the fields). The theorem says no more than the code asks for: a value
with half of its words in the text is backed, whatever the other half says.
`TranslationsAreWhole` has a part about data and one about steps. The first is `ChunkingKeepsTheText`: for any paragraphs
and any limit the requests fit the limit, and put together they have nothing twice, nothing that is not in the text, every
unit the splitting can read, and every unit of a paragraph that fits - in order, if all do. It takes the two halves of the
code one after the other. Splitting: between two ends of sentences at most one sentence opens (`OpensOnce`), it reaches from the first
to the last unit that is no edge (`StretchOf`), so a readable unit is in exactly one sentence and none is there
twice (`SentencesKeep`, `SplitSound`, `PartsKeep`). Collecting: what is in the chunks and what is still being collected together grow by
just the part that is added (`AddedUnits`, `AddedFits`). `CleanedKeeps` says the same of the cleaning: it takes out noise, and
no word. The second is `TextInv`: a provider that is running has sent back what its first
`done` requests asked for and has another one to send, one that translated has sent back all of them; and in
sequence the second provider begins from nothing, because nobody but the first was asked before its turn (`FirstIsAlone`).
That no provider is forgotten (`UntranslatedWasTried`) needs that whoever was tried earlier in the sequence has failed (`TriedBefore`); in parallel, that the
result of every provider has been taken before the choice ends, and none of them leads.

**The register.** All four properties of the run and its types are theorems, from one
invariant (`IInv` of `CaseRegisterProofs`), which was checked with TLC first. Types are not inductive by
themselves: that a commit does not write to a missing row needs `Claimed`. `Claimed` says that a case being created is
nobody else's business and one being changed is in the register; the rest is what drafts know:
`DraftsKnown` (nothing is called synced that CCTNS has not), `DraftsNumbered` (a status past
registration is going to a case with a number), `DraftsFollow` (a fresh status request
still knows its case), `Alone` and `Checked` (in a quiet station a number found free
stays free until the commit). Four lemmas say how a request can step (`LeavingKeeps`, `TakingKeeps`,
`AdvancingKeeps`, `CommitKeeps`), and each action is shown to be one of them.

**The documents.** Types are not inductive by themselves; `IdInv` adds that an id is issued once and that row locks
mean something: they are on committed rows and two requests never share one, what a purge is going to delete is
superseded in the table and stays so, and the versions a request has read are of rows that no other request is
about to insert. `VersionsStayInOrder` is about what each transaction sees, not only about what is committed: `OrderInv` says of the
committed rows, and of the view of every upload in progress, that a superseded version has a newer one that is the
latest, and that a name which is not `shaken` by overlapping uploads has versions without repetition and one latest. A commit makes a view the table, so that
the property of the view becomes that of the table, and the views of the others survive because they touch
other names, or the name is `shaken` (`TouchedAlone`). `VersionsAreReadable` needs only that the bytes of what an
upload inserted, and of the file it is about to insert, are in storage or were purged (`KeysAreKept`).

**The audit trail.** Verification goes by timestamps, links were made by commits, and the property relates the
two. `TimesDiffer` and `LegacyFirst` make "the entry before" well defined and show that the window of the search never hides
the last hash. `AloneInProgress` says that while an entry is appended alone nothing else is under way and it
links to the last hash or to a purged one; `AloneIsPast` that once it is committed whatever is still on its way is younger, so that
nothing comes between it and its predecessor later. `BrokenIsForGood` follows because no entry is linked to an entry
that is not committed yet: a later commit can become the predecessor of an older entry, never the one it names.

**The petition packets.** All five properties of the run and its types are theorems. Handlers decide on rows they read without
a lock, so the invariant (`IInv` of `PetitionRewriteProofs`) has a part about what has been read: what a transaction refers to is
still there (`TxnsRefer`), and as long as neither its read is stale nor its packet disturbed, it would still read the same
(`FreshTxns`). The packets have a part of their own: `OrderlyPackets` says that drafts are numbered in their order, what may be
released has its last draft approved, what was verified is that draft, and what was accepted came from a draft
that was approved and verified. `LineageIsSound` and the uniqueness of the active packet (`OneActivePacket`) are
conjuncts. Each commit is shown to leave its own packet orderly and every other transaction fresh, stale or on another packet.
`OnePlaceholderPerGap` rests on the lemmas about merging gaps (`DedupeKeepsOne`): of the findings of one gap one is kept, and none is graver.

**The dashboard.** All safety properties are theorems.
`HeldRowsWait` and `OneHolder` say what a row lock is worth; `ReadRowsExist` and
`RowsBegin` that a request never writes to a row that was not inserted; `ContentsSound` that a
row keeps the filters its content was computed with. `VisibleIsPermitted` goes through the
roles: whoever gets filters at all gets those that leave permitted cases only.
`DashboardImplementsExclusiveJobs` maps `Take` to `Take`, the end of a job to `Release`, and
everything else to a stutter, as for the queue. `StoredReportsAddUp` is about sums: the sizes of the finitely many parts of a finite set, of which no two share a
record, add up to the size of the set, and so do the records picked from each (`PartsAddUp`, `CountsAddUp`). What remains is
that the groupings are such parts: every row of a report belongs to a case of the report, whenever its table was read
(`DatasetJoins`), every case has one station (`StationsAddUp`), every figure one officer it counts for (`OfficersAddUp`),
and every status is a stage of the lifecycle (`StagesAddUp`). That minima exist (the first queued row, the first place of a
jurisdiction, the largest number of a station) is taken from the well-foundedness of `<`.

**Model-checked only.**

- Liveness (`PendingSettles`, `QueuesDrain`): fairness and `ENABLED` are beyond the provers.
- `ChainVerifies`, which is false.

Type invariants are stated in every module with a state but `ComplaintParsing`, and proved in each of them.

## 5. Assumptions and limits

- PostgreSQL at READ COMMITTED. The branch of the claim for SQLite, a read followed by a write
  without row locks, is for development and is left out.
- KIS runs as one process, as its in-memory store requires.
- The processes of the application read one clock in `AuditTrail`; with several clocks the
  order of timestamps could differ from the order of commits even without overlap.
- A knowledge base is alone in its domain; feedback, evaluation runs and archived sources
  are left out; confidence is reduced to 0.5 or more, or less.
- OCR, translation and language models answer anything of a small set, or fail. What the rules of
  `complaint_parsing.py` find in a text is given (`Readings`); what is made of it is modelled.
  Parsing works on phrases, the words that count in them (`Lexicon`) and the kinds of characters; wording, spelling and the
  patterns themselves are left out. A text says the same phrases in the original and in
  translation, and translators and refiners add nothing of their own: what they might invent in their own words is outside the model.
- The twelve `top_findings` of a checklist analysis are the first of its items, for display; the model keeps
  the items as a set.
- The quality scores of OCR and of extraction (`quality_engine.py`, `ocr_enhancements.py`) are numbers
  nothing else depends on.
- Case fields, tasks, notifications and assignments that no modelled guard reads are left out.
- Not modelled: sessions and accounts (counters and a list in the memory of one process, each
  touched by single operations), model governance (one status field), legal holds of KIS (deletion
  requests are recorded, and nothing carries them out), document layout, privacy masking, migrations, adapters of external services
  (other than as their callers see them), maintenance scripts, the service worker, prompts and
  scoring in KIS. They have no protocol, or keep no state.

The hazards of the code, with the properties that cover them and the reasons where none
does yet, are listed in `PROJECT.json`.

## 6. The plan

Done, in this order: `KisQueue` with its abstraction and proofs (the busiest protocol),
`CaseRegister`, `AuditTrail`, `KisKnowledge`, `KisStore` with its abstraction and proofs,
`CaseDocuments`, `PetitionRewrite`, `DashboardJobs`, `ComplaintParsing`, `ParseHistory` with its
proofs, and the proofs of `CaseRegister`, `DashboardJobs`, `PetitionRewrite`, `CaseDocuments`, `KisKnowledge`,
`AuditTrail`, `ComplaintParsing` and of the rest of `KisQueue`.

Every invariant and action property of the passing runs is a theorem. To come:

1. `Sessions`: revoked tokens and login counters in several processes.
2. Pure algorithms against a reference definition over bounded inputs: the scores of
   `quality_engine.py`, chunking in KIS.
