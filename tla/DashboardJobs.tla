--------------------------- MODULE DashboardJobs ---------------------------
(***************************************************************************)
(* The background jobs of the senior officer dashboard: exports and metric *)
(* snapshots (senior_dashboard.py, the worker of app.py).  A worker takes  *)
(* the first queued row under FOR UPDATE SKIP LOCKED, computes and writes  *)
(* the result in one transaction, so that nobody sees it running and a     *)
(* crash leaves the row queued.  Retry and revoke read the row without a   *)
(* lock and later write only the columns that differ from what they read,  *)
(* waiting for a worker that holds the row.                                *)
(***************************************************************************)
EXTENDS DashboardMetrics

CONSTANTS
  Exports,    \* 1..n, in the order they are requested
  Snapshots,  \* 1..n, in the order they are requested
  Workers,    \* the worker loops of the API processes
  Sessions,   \* concurrent retry and revoke requests
  Officers,   \* rows the requesting user may have; [.. known |-> FALSE] if it has none
  Requested,  \* filters of the requests
  Datasets,   \* the states the case tables go through, a sequence
  MaxJobs,    \* bound: user id -> how many exports and snapshots it requests
  MaxFaults   \* bound on lost transactions and failing computations

ASSUME JobsAreNumbered == Exports \subseteq Nat /\ Snapshots \subseteq Nat

\* Values that filters can have: those of requests and of the users table.
Filters ==
  [station : {f.station : f \in Requested} \cup {u.station : u \in Officers},
   zone : {f.zone : f \in Requested} \cup DOMAIN IdRank,
   io : {f.io : f \in Requested} \cup {u.id : u \in Officers},
   status : {f.status : f \in Requested},
   from : {f.from : f \in Requested}, to : {f.to : f \in Requested}]

\* What a worker knows of a requester: the users row, and without one an
\* administrator.
UserPayload(u) ==
  IF u.known THEN u ELSE [u EXCEPT !.role = "System_Admin", !.station = None, !.ids = {}]
Users == {UserPayload(u) : u \in Officers}

ASSUME RequestsAssumption ==
  /\ Requested \subseteq Filters
  /\ IdRank \in [DOMAIN IdRank -> Nat]
  /\ \A u \in Officers : DOMAIN u = {"id", "role", "station", "ids", "known"}
                          /\ u.ids \subseteq DOMAIN IdRank

\* The id of a case is its key, its status one of the lifecycle, and tables are
\* finite.
ASSUME DatasetsAssumption ==
  \A d \in DOMAIN Datasets :
    /\ \A a, b \in Datasets[d].cases : a.id = b.id => a = b
    /\ \A c \in Datasets[d].cases :
         c.status \in {LifecycleOrder[i] : i \in DOMAIN LifecycleOrder}
    /\ IsFiniteSet(Datasets[d].cases) /\ IsFiniteSet(Datasets[d].documents)
    /\ IsFiniteSet(Datasets[d].generated) /\ IsFiniteSet(Datasets[d].analyses)
    /\ IsFiniteSet(Datasets[d].parsed)

VARIABLES
  data,       \* the state of the case tables, by its number
  officer,    \* the users row of the requester
  export,     \* dashboard_export_jobs
  snapshot,   \* dashboard_metric_snapshots
  held,       \* the row a worker's transaction has locked, and what it read
  txn,        \* the row an open retry or revoke has read
  faults,
  overlapped  \* history: exports written by a request that had read an older row

vars == <<data, officer, export, snapshot, held, txn, faults, overlapped>>

\* What a job writes, and what a worker has read when it has locked a row.
Contents ==
  [user : Users, filters : Filters, cases : DOMAIN Datasets, rest : DOMAIN Datasets,
   shows : SUBSET {c.id : c \in UNION {Datasets[d].cases : d \in DOMAIN Datasets}}]
Locks ==
  [kind : {"export"}, id : Exports, user : Users, cases : DOMAIN Datasets]
    \cup [kind : {"snapshot"}, id : Snapshots, user : Users, cases : DOMAIN Datasets]

ASSUME NoneIsNothing == None \notin Workers \cup Contents \cup Locks

Idle == [op |-> "idle"]

\* A row not inserted yet.
NoExport   == [status |-> "none", filters |-> None, file |-> None, revoked |-> FALSE]
NoSnapshot == [status |-> "none", filters |-> None, payload |-> None]

Init ==
  /\ data \in DOMAIN Datasets
  /\ officer \in Officers
  /\ export = [j \in Exports |-> NoExport]
  /\ snapshot = [k \in Snapshots |-> NoSnapshot]
  /\ held = [w \in Workers |-> None]
  /\ txn = [s \in Sessions |-> Idle]
  /\ faults = 0
  /\ overlapped = {}

-----------------------------------------------------------------------------
(* The world the reports are about. *)

Work ==
  /\ data + 1 \in DOMAIN Datasets /\ data' = data + 1
  /\ UNCHANGED <<officer, export, snapshot, held, txn, faults, overlapped>>

Transfer ==
  /\ officer' \in {u \in Officers : u.id = officer.id} \ {officer}
  /\ UNCHANGED <<data, export, snapshot, held, txn, faults, overlapped>>

-----------------------------------------------------------------------------
(* Requests. *)

\* Rows are inserted in the order of their numbers.
NextRow(j, rows) == rows[j].status = "none" /\ \A i \in DOMAIN rows :
                                         i < j => rows[i].status # "none"

\* An export refers to the users row of its requester.
CreateExportJob(j) ==
  /\ NextRow(j, export) /\ j <= MaxJobs[officer.id].exports
  /\ officer.known
  /\ officer.role \notin SelfViewRoles
  /\ \E f \in Requested : \E g \in ResolveDashboardFilters(officer, f) :
       export' = [export EXCEPT ![j].status = "queued", ![j].filters = g]
  /\ UNCHANGED <<data, officer, snapshot, held, txn, faults, overlapped>>

RefreshSnapshot(k) ==
  /\ NextRow(k, snapshot) /\ k <= MaxJobs[officer.id].snapshots
  /\ officer.role \in Supervisory \cup AIRoles
  /\ \E f \in Requested : \E g \in ResolveDashboardFilters(officer, f) :
       snapshot' = [snapshot EXCEPT ![k].status = "Queued", ![k].filters = g]
  /\ UNCHANGED <<data, officer, export, held, txn, faults, overlapped>>

\* Nothing keeps a retry from a row that did not fail.
ReadExport(s, j) ==
  /\ txn[s] = Idle /\ export[j].status # "none"
  /\ \/ txn' = [txn EXCEPT ![s] = [op |-> "retry", j |-> j, read |-> export[j]]]
     \/ /\ officer.role \in Supervisory
        /\ txn' = [txn EXCEPT ![s] = [op |-> "revoke", j |-> j, read |-> export[j]]]
  /\ UNCHANGED <<data, officer, export, snapshot, held, faults, overlapped>>

Locked(j) == \E w \in Workers : held[w] # None /\ held[w].kind = "export" /\ held[w].id = j

\* Mutant: the file stays whatever was read.
WrittenIfSet(read, current, value) == IF value = None THEN current ELSE value

\* A column is written if the new value differs from the one that was read.
Written(read, current, value) == IF read = value THEN current ELSE value

CommitExport(s) ==
  LET t == txn[s]
      row(status, revoked) ==
        [export[t.j] EXCEPT !.status = Written(t.read.status, @, status),
                            !.file = Written(t.read.file, @, None),
                            !.revoked = revoked]
  IN
  /\ t.op # "idle" /\ ~Locked(t.j)
  /\ export' = [export EXCEPT ![t.j] =
       IF t.op = "retry" THEN row("queued", @.revoked) ELSE row("revoked", TRUE)]
  /\ overlapped' = IF export[t.j] # t.read THEN overlapped \cup {t.j} ELSE overlapped
  /\ txn' = [txn EXCEPT ![s] = Idle]
  /\ UNCHANGED <<data, officer, snapshot, held, faults>>

-----------------------------------------------------------------------------
(* The worker. *)

Waiting(kind) ==
  IF kind = "export" THEN {j \in Exports : export[j].status = "queued"}
  ELSE {k \in Snapshots : snapshot[k].status = "Queued"}

\* Mutant: rows another worker has locked are not skipped.
FreeOrLocked(kind) == Waiting(kind)
Free(kind) ==
  {i \in Waiting(kind) :
     \A w \in Workers : held[w] # None => <<held[w].kind, held[w].id>> # <<kind, i>>}

\* Mutant: the latest request goes first.
LatestJob ==
  IF Free("export") # {} THEN [kind |-> "export", id |-> Max(Free("export"))]
  ELSE [kind |-> "snapshot", id |-> Max(Free("snapshot"))]

\* Exports come first, of each kind the oldest.
NextJob ==
  IF Free("export") # {} THEN [kind |-> "export", id |-> Min(Free("export"))]
  ELSE [kind |-> "snapshot", id |-> Min(Free("snapshot"))]

\* The lock, the requester's row and the first table of the dataset.
Take(w) ==
  /\ held[w] = None
  /\ Free("export") \cup Free("snapshot") # {}
  /\ held' = [held EXCEPT ![w] =
       [kind |-> NextJob.kind, id |-> NextJob.id, user |-> UserPayload(officer), cases |-> data]]
  /\ UNCHANGED <<data, officer, export, snapshot, txn, faults, overlapped>>

\* What a job writes: the cases it shows, and what its figures come from - the
\* cases as of Take, the other tables as of now.
ContentOf(h, user, filters) ==
  [user |-> h.user, filters |-> filters, cases |-> h.cases, rest |-> data,
   shows |-> {c.id : c \in FilterCases(Datasets[h.cases].cases, user, filters)}]

\* Mutant: the queued filters are used as they are.
ContentAsQueued(h, filters) ==
  {ContentOf(h, [h.user EXCEPT !.role = "System_Admin"], filters)}

\* The requester's present scope decides: filters it no longer allows make the
\* job fail.
Content(h, filters) ==
  {ContentOf(h, h.user, f) : f \in ResolveDashboardFilters(h.user, filters)}

ProcessExport(w) ==
  LET h == held[w] IN
  /\ h # None /\ h.kind = "export"
  /\ \/ /\ \E file \in Content(h, export[h.id].filters) :
             export' = [export EXCEPT ![h.id] = [@ EXCEPT !.status = "completed", !.file = file,
                                                         !.filters = file.filters]]
        /\ faults' = faults
     \/ /\ \/ Content(h, export[h.id].filters) = {} /\ faults' = faults
           \/ faults < MaxFaults /\ faults' = faults + 1
        /\ export' = [export EXCEPT ![h.id].status = "failed"]
  /\ held' = [held EXCEPT ![w] = None]
  /\ UNCHANGED <<data, officer, snapshot, txn, overlapped>>

ProcessSnapshot(w) ==
  LET h == held[w] IN
  /\ h # None /\ h.kind = "snapshot"
  /\ \/ /\ \E payload \in Content(h, snapshot[h.id].filters) :
             snapshot' = [snapshot EXCEPT ![h.id] = [@ EXCEPT !.status = "Current",
                                       !.payload = payload, !.filters = payload.filters]]
        /\ faults' = faults
     \/ /\ \/ Content(h, snapshot[h.id].filters) = {} /\ faults' = faults
           \/ faults < MaxFaults /\ faults' = faults + 1
        /\ snapshot' = [snapshot EXCEPT ![h.id].status = "Failed"]
  /\ held' = [held EXCEPT ![w] = None]
  /\ UNCHANGED <<data, officer, export, txn, overlapped>>

\* A crash, or a database error that leaves the transaction unusable.
Abandon(w) ==
  /\ held[w] # None /\ faults < MaxFaults
  /\ faults' = faults + 1
  /\ held' = [held EXCEPT ![w] = None]
  /\ UNCHANGED <<data, officer, export, snapshot, txn, overlapped>>

Next ==
  \/ Work \/ Transfer
  \/ \E j \in Exports : CreateExportJob(j)
  \/ \E k \in Snapshots : RefreshSnapshot(k)
  \/ \E s \in Sessions : CommitExport(s) \/ \E j \in Exports : ReadExport(s, j)
  \/ \E w \in Workers : Take(w) \/ ProcessExport(w) \/ ProcessSnapshot(w) \/ Abandon(w)

\* The loop takes the next row at the latest when its poll runs out, and a
\* request it serves comes to its end.
Fairness ==
  /\ \A w \in Workers : WF_vars(Take(w)) /\ WF_vars(ProcessExport(w) \/ ProcessSnapshot(w))
  /\ \A s \in Sessions : WF_vars(CommitExport(s))

Spec == Init /\ [][Next]_vars /\ Fairness

-----------------------------------------------------------------------------
(* Properties. *)

ExportRow == [status : {"none", "queued", "completed", "failed", "revoked"},
              filters : Filters \cup {None}, file : Contents \cup {None}, revoked : BOOLEAN]
SnapshotRow == [status : {"none", "Queued", "Current", "Failed"},
                filters : Filters \cup {None}, payload : Contents \cup {None}]
Opened == [op : {"retry", "revoke"}, j : Exports, read : ExportRow]

\* Rows have the columns and statuses of the code; "running" and "Running" are never
\* committed.
TypeOK ==
  /\ data \in DOMAIN Datasets /\ officer \in Officers
  /\ export \in [Exports -> ExportRow]
  /\ snapshot \in [Snapshots -> SnapshotRow]
  /\ held \in [Workers -> Locks \cup {None}]
  /\ txn \in [Sessions -> Opened \cup {Idle}]
  /\ overlapped \subseteq Exports

\* Only a completed export has its file and every completed one has it: in
\* particular a revoked export is gone - unless a retry or revoke had read the
\* row before another transaction wrote it (retry_export_job, revoke_export_job).
FileIffCompleted ==
  \A j \in Exports \ overlapped : export[j].file # None <=> export[j].status = "completed"

\* What an officer of a role may see at all, whatever the filters.
Permitted(u, c) ==
  CASE u.role \in AllRecordRoles -> TRUE
    [] u.role = "SHO" -> c.station = u.station
    [] u.role = "Zone_Officer" ->
         u.ids = {} \/ (c.station # None /\ {c.station, Zone[c.station]} \cap u.ids # {})
    [] OTHER -> u.id \in {c.io, c.creator}

\* An export or snapshot holds no case outside what its requester was permitted
\* when the worker began, nor outside the station its row was queued for, even
\* if the requester was transferred in between.  A requester without a users row
\* counts as an administrator there (_user_payload_from_model) and sees all.
ContentInScope ==
  LET sound(content, filters) ==
        content # None =>
          \A c \in Datasets[content.cases].cases : c.id \in content.shows =>
            /\ Permitted(content.user, c)
            /\ filters.station # None => c.station = filters.station
  IN  /\ \A j \in Exports : sound(export[j].file, export[j].filters)
      /\ \A k \in Snapshots : sound(snapshot[k].payload, snapshot[k].filters)

\* The figures of one report add up: stations and officers to the overview,
\* stages to the cases, although the tables were read one after the other.
Adds(r) ==
  LET over(key) == SumFunction([s \in DOMAIN r.stations |-> r.stations[s].figures[key]])
      by(key)   == SumFunction([o \in DOMAIN r.officers |-> r.officers[o][key]])
      stages    == SumFunction([x \in DOMAIN r.lifecycle |-> r.lifecycle[x].count])
  IN  /\ \A key \in DOMAIN r.overview : over(key) = r.overview[key]
      /\ \A key \in {"cases", "firs", "documents", "generated", "drafts", "analyses"} :
           by(key) = r.overview[key]
      /\ stages = r.overview.cases
      /\ r.overview.court <= r.overview.completed /\ r.overview.completed <= r.overview.firs
      /\ r.processing.completed + r.processing.pending = r.overview.cases
      /\ r.processing.negative <= r.processing.pending
\* By what a report comes from, so that each is computed once.
Sources == [user : Users, filters : Filters, cases : DOMAIN Datasets, rest : DOMAIN Datasets]
Source(content) == [user |-> content.user, filters |-> content.filters,
                    cases |-> content.cases, rest |-> content.rest]
AddsUp ==
  [s \in Sources |->
     Adds(Report(DashboardDataset(Datasets[s.cases].cases, Datasets[s.rest], s.user, s.filters),
                 s.filters))]
ReportsAddUp ==
  \A content \in {export[j].file : j \in Exports} \cup {snapshot[k].payload : k \in Snapshots} :
    content # None => AddsUp[Source(content)]

\* A row is computed by one worker at a time and never handed from one to
\* another: the jobs are exclusive as those of the indexing queue are
\* (FOR UPDATE SKIP LOCKED).
Jobs == {<<"export", j>> : j \in Exports} \cup {<<"snapshot", k>> : k \in Snapshots}
Holders(job) == {w \in Workers : held[w] # None /\ <<held[w].kind, held[w].id>> = job}
JobsExclusive == INSTANCE ExclusiveJobs WITH
  Nobody <- None,
  holder <- [job \in Jobs |-> IF Holders(job) = {} THEN None
                              ELSE CHOOSE w \in Holders(job) : TRUE]
ImplementsExclusiveJobs == JobsExclusive!Spec

\* Requests may keep coming, yet no queued row is passed over: an export is worked
\* off unless older ones are queued again and again, so the oldest always, and a
\* snapshot as soon as exports leave a worker to it (process_next_*_job).
QueuesDrain ==
  /\ \A j \in Exports :
       <>[](\A i \in Exports : i < j => export[i].status # "queued") =>
         (export[j].status = "queued" ~> export[j].status # "queued")
  /\ \A k \in Snapshots :
       <>[](\A j \in Exports : export[j].status # "queued") =>
         (snapshot[k].status = "Queued" ~> snapshot[k].status # "Queued")

=============================================================================
