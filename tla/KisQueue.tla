------------------------------ MODULE KisQueue ------------------------------
(***************************************************************************)
(* The queue that pushes saved parse records into the knowledge service    *)
(* (KIS).  A row of parse_records carries its own queue state; background  *)
(* workers claim rows under a lease, HTTP handlers insert, enqueue, index  *)
(* inline, re-index, requeue, re-parse and delete them.                    *)
(*                                                                         *)
(* Every database transaction is one step; between the transactions of one *)
(* handler or worker everything else may happen.  Deadlines are kept as    *)
(* the ticks that remain, so time itself is unbounded: a lease of -1 has   *)
(* expired, a next attempt of 0 is due.                                    *)
(***************************************************************************)
EXTENDS Integers

CONSTANTS
  Records,      \* parse record ids, numbered in the order of created_at
  Workers,      \* background workers, one per server process
  Handlers,     \* HTTP request handlers that can be in progress at a time
  None,         \* SQL NULL
  Modes,        \* how the deployed instances are set: "off", "inline", "background"
  AdminOps,     \* which operations administrators use
  MaxAttempts,  \* IQW_KIS_MAX_RETRIES
  LockTicks,    \* IQW_KIS_WORKER_LOCK_SECONDS
  BaseDelay,    \* IQW_KIS_RETRY_BASE_SECONDS
  MaxDelay,     \* IQW_KIS_RETRY_MAX_SECONDS
  KisMayFail,   \* whether calls to KIS can fail
  AttemptCap,   \* bound: the attempt counter saturates here
  MaxContent,   \* bound: versions of parsed_output of one record
  ArticleCap,   \* bound: the count of a record's wiki articles saturates here
  MaxFaults     \* bound: crashes and lost database writes in a behaviour

Procs == Workers \cup Handlers

ASSUME RecordsAssumption == Records \subseteq Nat
ASSUME ProcsAssumption == Workers \cap Handlers = {}
ASSUME NoneAssumption == None \notin Int \cup Procs
ASSUME ModesAssumption ==
  /\ Modes \subseteq {"off", "inline", "background"}
  /\ AdminOps \subseteq {"reindex", "requeue", "reparse", "delete"}
  /\ KisMayFail \in BOOLEAN
ASSUME NumbersAssumption ==
  /\ MaxAttempts \in Nat \ {0} /\ LockTicks \in Nat \ {0}
  /\ BaseDelay \in Nat \ {0} /\ MaxDelay \in Nat \ {0}
  /\ MaxContent \in Nat \ {0} /\ ArticleCap \in Nat \ {0} /\ MaxFaults \in Nat
  /\ AttemptCap \in Nat /\ AttemptCap > MaxAttempts

VARIABLES
  row,     \* row[r]: the queue columns of parse_records, and its content version
  loc,     \* loc[p]: where worker or handler p is, and what it remembers
  kis,     \* kis[r]: what KIS holds for the record
  valid,   \* history: workers whose claim nothing has disturbed
  orphaned, \* history: records an indexing handler left without a report, not written since
  faults   \* crashes and lost writes so far

vars == <<row, loc, kis, valid, orphaned, faults>>

Statuses == {"absent", "not_started", "pending", "running", "indexed", "failed",
             "disabled", "deleted"}

Row == [status : Statuses, attempts : 0..AttemptCap, next : Nat \cup {None},
        worker : Workers \cup {None}, lease : {None} \cup (-1)..LockTicks,
        content : 0..MaxContent]

\* What KIS holds for a record: the version of its text, whether any of it was chunked,
\* and how many wiki articles were compiled from it.
Knowledge == [source : {None} \cup 0..MaxContent, chunked : BOOLEAN, articles : 0..ArticleCap]

\* A row with no schedule, no lease and no attempt behind it.
FreshRow(status, content) ==
  [status |-> status, attempts |-> 0, next |-> None, worker |-> None,
   lease |-> None, content |-> content]

\* Whoever is about to report knows the outcome it reports.
Local ==
  {l \in [pc : {"idle", "inserted", "read", "requeue", "reparse", "ingest",
                "compile", "gates", "report"},
          job : {"none", "queue", "inline", "reindex", "requeue", "reparse"},
          rec : Records \cup {None}, content : 0..MaxContent, attempt : 0..AttemptCap,
          out : {"none", "indexed", "failed", "disabled"}] :
     l.pc = "report" => l.out # "none"}

Idle == [pc |-> "idle", job |-> "none", rec |-> None, content |-> 0,
         attempt |-> 0, out |-> "none"]

At(pc, job, r, content, attempt) ==
  [pc |-> pc, job |-> job, rec |-> r, content |-> content,
   attempt |-> attempt, out |-> "none"]

Calling == {"ingest", "compile", "gates"}
Indexing(p) == loc[p].pc \in Calling \cup {"report"}

Exists(r) == row[r].status \notin {"absent", "deleted"}

-----------------------------------------------------------------------------
\* What each statement of the code sets in the row it updates.

Smaller(a, b) == IF a < b THEN a ELSE b

\* The delay doubles with each attempt up to the ceiling.
RetryDelay(attempt) == Smaller(MaxDelay, BaseDelay * 2^((IF attempt < 1 THEN 1 ELSE attempt) - 1))

Enqueued(x) == [x EXCEPT !.status = "pending", !.next = 0, !.worker = None, !.lease = None]

Requeued(x) == [Enqueued(x) EXCEPT !.attempts = 0]

\* "running" touches neither the lease nor the schedule.
MarkedRunning(x) == [x EXCEPT !.status = "running"]

\* Mutant: settling forgets to clear the lease.
SettledKeepsLease(x, status) == [x EXCEPT !.status = status, !.next = None, !.worker = None]

\* "indexed" and "disabled" clear the schedule and the lease.
Settled(x, status) ==
  [x EXCEPT !.status = status, !.next = None, !.worker = None, !.lease = None]

\* A failed inline or admin call schedules nothing.
CallFailed(x) == [x EXCEPT !.status = "failed", !.worker = None, !.lease = None]

\* Mutant: the last attempt is given up one too early.
AttemptFailedEarly(x, attempt) ==
  [CallFailed(x) EXCEPT !.next = IF attempt < MaxAttempts - 1 THEN RetryDelay(attempt) ELSE None]

\* A worker's failed attempt schedules the next one while attempts remain.
AttemptFailed(x, attempt) ==
  [CallFailed(x) EXCEPT !.next = IF attempt < MaxAttempts THEN RetryDelay(attempt) ELSE None]

Claimed(x, w) ==
  [x EXCEPT !.status = "running", !.attempts = Smaller(@ + 1, AttemptCap),
            !.worker = w, !.lease = LockTicks]

\* Re-parsing replaces the content and the status, and nothing else.
Reparsed(x) ==
  [x EXCEPT !.status = "pending", !.content = IF @ < MaxContent THEN @ + 1 ELSE @]

-----------------------------------------------------------------------------
\* UPDATE parse_records SET ... WHERE id = r: nothing if the row is gone.
\* A write by anyone disturbs the claim of a worker that is on the row.
WriteRow(r, new) ==
  /\ row' = IF Exists(r) THEN [row EXCEPT ![r] = new] ELSE row
  /\ valid' = {w \in valid : loc[w].rec # r}
  /\ orphaned' = orphaned \ {r}

Write(r, new) == WriteRow(r, new) /\ UNCHANGED faults

Fault == faults < MaxFaults /\ faults' = faults + 1

\* p leaves without a report: if it is a handler, nobody else will give one.
Orphan(p) ==
  orphaned' = orphaned \cup {r \in Records : p \in Handlers /\ Indexing(p) /\ loc[p].rec = r}

\* The database refused p's write and p went on.
LoseWrite(p) == Fault /\ Orphan(p) /\ valid' = valid \ {p} /\ UNCHANGED row

Goto(p, l) == loc' = [loc EXCEPT ![p] = l]

-----------------------------------------------------------------------------
\* The parse request: insert the row, then hand it to KIS.

\* save_parse_record inserts the row as pending with no schedule.
Insert(h, r) ==
  /\ loc[h].pc = "idle"
  /\ row[r].status = "absent"
  /\ \A s \in Records : s < r => row[s].status # "absent"
  /\ row' = [row EXCEPT ![r] = FreshRow("pending", 1)]
  /\ Goto(h, At("inserted", "queue", r, 1, 0))
  /\ UNCHANGED <<kis, valid, orphaned, faults>>

\* KIS is not configured: the row is marked disabled.
QueueDisabled(h) ==
  /\ loc[h].pc = "inserted"
  /\ "off" \in Modes
  /\ \/ Write(loc[h].rec, Settled(row[loc[h].rec], "disabled"))
     \/ LoseWrite(h)
  /\ Goto(h, Idle)
  /\ UNCHANGED kis

\* Background indexing is off: the handler indexes the record itself.
QueueInline(h) ==
  /\ loc[h].pc = "inserted"
  /\ "inline" \in Modes
  /\ \/ Write(loc[h].rec, MarkedRunning(row[loc[h].rec]))
     \/ LoseWrite(h)
  /\ Goto(h, [loc[h] EXCEPT !.pc = "ingest", !.job = "inline"])
  /\ UNCHANGED kis

\* The usual case: schedule the row for now.  A worker may have claimed it already.
QueueBackground(h) ==
  /\ loc[h].pc = "inserted"
  /\ "background" \in Modes
  /\ \/ Write(loc[h].rec, Enqueued(row[loc[h].rec]))
     \/ LoseWrite(h)
  /\ Goto(h, Idle)
  /\ UNCHANGED kis

-----------------------------------------------------------------------------
\* The background worker.

\* Mutants: a lease need not have run out; an expired lease is never reclaimed.
ClaimableUnderLease(r) ==
  /\ \/ row[r].status = "pending"
     \/ row[r].status = "failed" /\ row[r].attempts < MaxAttempts
     \/ row[r].status = "running" /\ row[r].lease # None
  /\ row[r].next \in {None, 0}

ClaimableOnce(r) ==
  /\ \/ row[r].status = "pending"
     \/ row[r].status = "failed" /\ row[r].attempts < MaxAttempts
  /\ row[r].next \in {None, 0}

Claimable(r) ==
  /\ \/ row[r].status = "pending"
     \/ row[r].status = "failed" /\ row[r].attempts < MaxAttempts
     \/ row[r].status = "running" /\ row[r].lease # None /\ row[r].lease < 0
  /\ row[r].next \in {None, 0}

\* Rows another transaction may hold locked at this moment: SKIP LOCKED passes over them.
MaybeLocked(r) == \E p \in Procs : loc[p].rec = r

\* claim_next_kis_index_record: one statement picks the oldest claimable row and leases it.
Claim(w, r) ==
  /\ loc[w].pc = "idle"
  /\ Claimable(r)
  /\ \A s \in Records : s < r /\ Claimable(s) => MaybeLocked(s)
  /\ row' = [row EXCEPT ![r] = Claimed(row[r], w)]
  /\ valid' = valid \cup {w}
  /\ orphaned' = orphaned \ {r}
  /\ Goto(w, At("ingest", "queue", r, row[r].content, row'[r].attempts))
  /\ UNCHANGED <<kis, faults>>

\* The worker writes the outcome by record id, whoever holds the row by then.
WorkerReport(w) ==
  LET r == loc[w].rec
      new == IF loc[w].out = "failed" THEN AttemptFailed(row[r], loc[w].attempt)
             ELSE Settled(row[r], loc[w].out)
  IN /\ loc[w].pc = "report"
     /\ \/ Write(r, new)
        \/ LoseWrite(w)
     /\ Goto(w, Idle)
     /\ UNCHANGED kis

-----------------------------------------------------------------------------
\* index_uploaded_document_via_kis, run by a worker or a handler: the calls to KIS
\* happen one after the other and any of them may fail.

\* KIS keeps the text of the first ingest of a record id and replays it afterwards.
KisIngest(p) ==
  LET r == loc[p].rec IN
  /\ loc[p].pc = "ingest"
  /\ kis' = IF kis[r].source = None
            THEN [kis EXCEPT ![r].source = loc[p].content, ![r].chunked = TRUE]
            ELSE kis
  /\ Goto(p, [loc[p] EXCEPT !.pc = "compile"])
  /\ UNCHANGED <<row, valid, orphaned, faults>>

\* An embedding fails on the way: the source stays, with some of its chunks or none.
KisIngestBreaks(p) ==
  LET r == loc[p].rec IN
  /\ KisMayFail
  /\ loc[p].pc = "ingest"
  /\ kis[r].source = None
  /\ \E some \in BOOLEAN :
       kis' = [kis EXCEPT ![r].source = loc[p].content, ![r].chunked = some]
  /\ Goto(p, [loc[p] EXCEPT !.pc = "report", !.out = "failed"])
  /\ UNCHANGED <<row, valid, orphaned, faults>>

\* compile_article adds an article each time it is called; it needs a chunk of the source.
KisCompile(p) ==
  LET r == loc[p].rec IN
  /\ loc[p].pc = "compile"
  /\ kis[r].chunked
  /\ kis' = [kis EXCEPT ![r].articles = Smaller(@ + 1, ArticleCap)]
  /\ Goto(p, [loc[p] EXCEPT !.pc = "gates"])
  /\ UNCHANGED <<row, valid, orphaned, faults>>

Outcome(p, out) ==
  /\ Goto(p, [loc[p] EXCEPT !.pc = "report", !.out = out])
  /\ UNCHANGED <<row, kis, valid, orphaned, faults>>

KisFinish(p) == loc[p].pc = "gates" /\ Outcome(p, "indexed")

\* Mutant: an error on the way is taken for success.
KisErrorIgnored(p) == KisMayFail /\ loc[p].pc \in Calling /\ Outcome(p, "indexed")

KisError(p) == KisMayFail /\ loc[p].pc \in Calling /\ Outcome(p, "failed")

\* The configuration of the instance is read again when the call starts.
KisOff(p) ==
  /\ "off" \in Modes
  /\ loc[p].pc = "ingest" /\ loc[p].job # "inline"
  /\ Outcome(p, "disabled")

\* Mutant: a failed call is logged and reported by nobody.
HandlerReportUnlessFailed(h) ==
  /\ loc[h].pc = "report"
  /\ IF loc[h].out = "failed" THEN UNCHANGED <<row, valid, orphaned, faults>>
     ELSE Write(loc[h].rec, Settled(row[loc[h].rec], loc[h].out)) \/ LoseWrite(h)
  /\ Goto(h, Idle)
  /\ UNCHANGED kis

\* An inline or admin call reports through update_kis_index_status.  Only the admin
\* endpoint answers a refused write by trying to write "failed" instead.
HandlerReport(h) ==
  LET r == loc[h].rec
      new == IF loc[h].out = "failed" THEN CallFailed(row[r])
             ELSE Settled(row[r], loc[h].out)
  IN /\ loc[h].pc = "report"
     /\ \/ Write(r, new)
        \/ LoseWrite(h)
        \/ loc[h].job = "reindex" /\ Fault /\ WriteRow(r, CallFailed(row[r]))
     /\ Goto(h, Idle)
     /\ UNCHANGED kis

-----------------------------------------------------------------------------
\* Administrators.

\* POST /kis/reindex/{id}: read the row, mark it running, then call KIS.
ReindexRead(h, r) ==
  /\ "reindex" \in AdminOps
  /\ loc[h].pc = "idle"
  /\ Exists(r)
  /\ Goto(h, At("read", "reindex", r, row[r].content, 0))
  /\ UNCHANGED <<row, kis, valid, orphaned, faults>>

ReindexMark(h) ==
  /\ loc[h].pc = "read"
  /\ \/ /\ Write(loc[h].rec, MarkedRunning(row[loc[h].rec]))
        /\ Goto(h, [loc[h] EXCEPT !.pc = "ingest"])
     \/ LoseWrite(h) /\ Goto(h, Idle)
  /\ UNCHANGED kis

\* POST /kis/indexing:retry-failed: the candidate rows come from a snapshot and the
\* update names them by id alone.
RequeuePick(h, r) ==
  /\ "requeue" \in AdminOps
  /\ loc[h].pc = "idle"
  /\ row[r].status = "failed"
  /\ Goto(h, At("requeue", "requeue", r, 0, 0))
  /\ UNCHANGED <<row, kis, valid, orphaned, faults>>

RequeueWrite(h) ==
  /\ loc[h].pc = "requeue"
  /\ Write(loc[h].rec, Requeued(row[loc[h].rec])) \/ LoseWrite(h)
  /\ Goto(h, Idle)
  /\ UNCHANGED kis

\* POST /parse:batch-reparse, one record of the batch: OCR and parsing take minutes
\* between the read and the update.
ReparseRead(h, r) ==
  /\ "reparse" \in AdminOps
  /\ loc[h].pc = "idle"
  /\ Exists(r)
  /\ Goto(h, At("reparse", "reparse", r, 0, 0))
  /\ UNCHANGED <<row, kis, valid, orphaned, faults>>

ReparseWrite(h) ==
  /\ loc[h].pc = "reparse"
  /\ Write(loc[h].rec, Reparsed(row[loc[h].rec])) \/ LoseWrite(h)
  /\ Goto(h, Idle)
  /\ UNCHANGED kis

\* DELETE /api/history/{id}: the row goes, whatever is working on it.
Delete(h, r) ==
  /\ "delete" \in AdminOps
  /\ loc[h].pc = "idle"
  /\ Exists(r)
  /\ Write(r, FreshRow("deleted", 0))
  /\ UNCHANGED <<loc, kis>>

-----------------------------------------------------------------------------
\* Time and failures.

Down(x, floor) == IF x = None THEN None ELSE IF x > floor THEN x - 1 ELSE x

Aged(x) == [x EXCEPT !.next = Down(@, 0), !.lease = Down(@, -1)]

LeaseLive(x) == x.lease # None /\ x.lease >= 0

\* A tick of the clock.  A claim whose lease runs out is no longer valid.
Tick ==
  /\ \E r \in Records : Aged(row[r]) # row[r]
  /\ row' = [r \in Records |-> Aged(row[r])]
  /\ valid' = {w \in valid : LeaseLive(row'[loc[w].rec])}
  /\ UNCHANGED <<loc, kis, orphaned, faults>>

\* A process dies, or its worker is cancelled at shutdown: it writes nothing more.
Crash(p) ==
  /\ loc[p].pc # "idle"
  /\ Fault
  /\ Goto(p, Idle)
  /\ valid' = valid \ {p}
  /\ Orphan(p)
  /\ UNCHANGED <<row, kis>>

-----------------------------------------------------------------------------
\* Rows older than the queue are "not_started"; the rest do not exist yet.
Init ==
  /\ row \in [Records -> {FreshRow("absent", 0), FreshRow("not_started", 1)}]
  /\ \A r, s \in Records : s < r /\ row[r].status = "not_started" => row[s].status = "not_started"
  /\ loc = [p \in Procs |-> Idle]
  /\ kis = [r \in Records |-> [source |-> None, chunked |-> FALSE, articles |-> 0]]
  /\ valid = {}
  /\ orphaned = {}
  /\ faults = 0

KisCall(p) ==
  \/ KisIngest(p) \/ KisIngestBreaks(p) \/ KisCompile(p) \/ KisFinish(p)
  \/ KisError(p) \/ KisOff(p)

WorkerNext(w) == (\E r \in Records : Claim(w, r)) \/ KisCall(w) \/ WorkerReport(w)

\* What a handler does once its request has begun.
HandlerContinues(h) ==
  \/ QueueDisabled(h) \/ QueueInline(h) \/ QueueBackground(h)
  \/ KisCall(h) \/ HandlerReport(h)
  \/ ReindexMark(h) \/ RequeueWrite(h) \/ ReparseWrite(h)

HandlerStarts(h, r) ==
  \/ Insert(h, r) \/ ReindexRead(h, r) \/ RequeuePick(h, r) \/ ReparseRead(h, r)
  \/ Delete(h, r)

Next ==
  \/ \E w \in Workers : WorkerNext(w)
  \/ \E h \in Handlers : HandlerContinues(h)
  \/ \E h \in Handlers, r \in Records : HandlerStarts(h, r)
  \/ \E p \in Procs : Crash(p)
  \/ Tick

Spec == Init /\ [][Next]_vars

\* Started requests finish, workers keep polling, every call to KIS returns (each has
\* an HTTP timeout) and time passes.  Nothing obliges users or administrators to act.
Fairness ==
  /\ \A w \in Workers : WF_vars(WorkerNext(w))
  /\ \A h \in Handlers : WF_vars(HandlerContinues(h))
  /\ WF_vars(Tick)

FairSpec == Spec /\ Fairness
-----------------------------------------------------------------------------
\* Properties.

TypeOK ==
  /\ row \in [Records -> Row]
  /\ loc \in [Procs -> Local]
  /\ kis \in [Records -> Knowledge]
  /\ valid \subseteq Workers
  /\ orphaned \subseteq Records
  /\ faults \in 0..MaxFaults

\* The columns of a row agree with each other.
Consistent(x) ==
  /\ x.worker = None <=> x.lease = None
  /\ x.lease # None => x.status \in {"running", "pending"}
  /\ x.next # None => x.status \in {"running", "pending", "failed"}

\* A lease has a holder and stays only on work in hand, and a settled row keeps no
\* schedule, whoever wrote the row and in whatever order (update_kis_index_status,
\* enqueue, requeue, re-parse and the claim together).
RowConsistent == \A r \in Records : Consistent(row[r])

ClaimHolds(w) ==
  LET r == loc[w].rec IN
  /\ Indexing(w) /\ r \in Records
  /\ row[r].status = "running"
  /\ row[r].worker = w
  /\ row[r].attempts = loc[w].attempt
  /\ LeaseLive(row[r])

\* A worker whose claim nobody has disturbed and whose lease has not run out finds the
\* row as its claim left it, so that its report is about its own attempt.
ValidClaimOwnsRow == \A w \in valid : ClaimHolds(w)

\* Two workers never index the same record at once, unless one of them outlived its
\* lease or a handler wrote to the row under it.
ExclusiveClaims ==
  \A w, x \in valid : loc[w].rec = loc[x].rec => w = x

\* A record is reported as indexed only when KIS holds its source and an article.
IndexedHasKnowledge ==
  \A r \in Records :
    row[r].status = "indexed" =>
      kis[r].source # None /\ kis[r].chunked /\ kis[r].articles > 0

\* A row marked running has a lease that will expire or a handler that will report on
\* it, whatever workers, other handlers and administrators do, crash or lose: only the
\* handler that was indexing it leaves it stranded, by a crash or a lost report, and then
\* until somebody writes the row (index_uploaded_document_via_kis, reindex).
RunningIsAttended ==
  \A r \in Records : row[r].status = "running" =>
    \/ row[r].lease # None
    \/ \E h \in Handlers : loc[h].rec = r /\ Indexing(h)
    \/ r \in orphaned

\* A failed record either waits for a scheduled attempt or has used up its attempts.
\* This is what workers alone do: an inline or admin failure schedules nothing.
RetryOrBudgetSpent ==
  \A r \in Records :
    row[r].status = "failed" => row[r].next # None \/ row[r].attempts >= MaxAttempts

\* Each article KIS compiled for a record was paid for by a counted attempt, across
\* crashes, expired leases and lost reports.
AttemptsPayForArticles ==
  \A r \in Records : kis[r].articles <= row[r].attempts

\* What is tried again and what it costs stay within the counted attempts.
AttemptsAreCounted == RetryOrBudgetSpent /\ AttemptsPayForArticles

\* Nothing more will be done for the record, on purpose.
Finished(r) ==
  \/ row[r].status \in {"indexed", "disabled", "deleted"}
  \/ row[r].status = "failed" /\ row[r].attempts >= MaxAttempts

\* Every record that is queued is finished in the end, through retries, worker crashes
\* and expired leases.
PendingSettles == \A r \in Records : row[r].status = "pending" ~> Finished(r)

-----------------------------------------------------------------------------
\* The queue implements exclusive jobs: the holder of a record is the worker whose
\* claim on it is undisturbed.
HolderOf(r) ==
  IF \E w \in valid : loc[w].rec = r THEN CHOOSE w \in valid : loc[w].rec = r ELSE None

Jobs == INSTANCE ExclusiveJobs
          WITH Jobs <- Records, Nobody <- None, holder <- [r \in Records |-> HolderOf(r)]

\* Claims, reports, crashes, foreign writes and expiring leases amount to taking a free
\* record and giving it back.
ImplementsExclusiveJobs == Jobs!Spec

=============================================================================
