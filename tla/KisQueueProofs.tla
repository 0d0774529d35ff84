--------------------------- MODULE KisQueueProofs ---------------------------
(***************************************************************************)
(* Proofs about KisQueue for every set of records, workers and handlers    *)
(* and every value of the numbers: types and consistent rows; undisturbed  *)
(* claims are exclusive and implement ExclusiveJobs; what is reported as   *)
(* indexed is known, and work in hand is finished; articles are paid for   *)
(* by counted attempts.                                                    *)
(***************************************************************************)
EXTENDS KisQueue, FiniteSetTheorems, TLAPS

-----------------------------------------------------------------------------
\* What the updates of a row return.

\* Powers of two are numbers: 2^n is the size of SUBSET (1..n).
LEMMA PowerOfTwo == \A n \in Nat : 2^n \in Nat
<1> TAKE n \in Nat
<1>1. IsFiniteSet(1..n) /\ Cardinality(1..n) = n
  BY FS_Interval, SMT
<1>2. Cardinality(SUBSET (1..n)) = 2^n /\ IsFiniteSet(SUBSET (1..n))
  BY <1>1, FS_SUBSET
<1> QED BY <1>2, FS_CardinalityType

\* The delay before a retry is a number of ticks.
LEMMA RetryDelayIsNat == \A a \in Nat : RetryDelay(a) \in Nat
<1> TAKE a \in Nat
<1> DEFINE e == (IF a < 1 THEN 1 ELSE a) - 1
<1>1. e \in Nat
  OBVIOUS
<1>2. 2^e \in Nat
  BY <1>1, PowerOfTwo
<1> HIDE DEF e
<1>3. BaseDelay * 2^e \in Nat
  <2> DEFINE pow == 2^e
  <2>1. pow \in Nat BY <1>2
  <2> HIDE DEF pow
  <2>2. BaseDelay * pow \in Nat BY <2>1, NumbersAssumption
  <2> QED BY <2>2 DEF pow
<1>4. MaxDelay \in Nat BY NumbersAssumption
<1>5. Smaller(MaxDelay, BaseDelay * 2^e) \in Nat
  BY <1>3, <1>4 DEF Smaller
<1> QED BY <1>5 DEF RetryDelay, e

\* Every statement of the code leaves a well-formed row behind.
LEMMA RowUpdates ==
  ASSUME NEW x \in Row
  PROVE  /\ Enqueued(x) \in Row
         /\ Requeued(x) \in Row
         /\ MarkedRunning(x) \in Row
         /\ \A s \in Statuses : Settled(x, s) \in Row
         /\ CallFailed(x) \in Row
         /\ \A a \in Nat : AttemptFailed(x, a) \in Row
         /\ \A w \in Workers : Claimed(x, w) \in Row
         /\ Reparsed(x) \in Row
         /\ Aged(x) \in Row
<1> USE NumbersAssumption
<1>1. Enqueued(x) \in Row
  BY DEF Enqueued, Row, Statuses
<1>2. Requeued(x) \in Row
  BY <1>1 DEF Requeued, Row
<1>3. MarkedRunning(x) \in Row
  BY DEF MarkedRunning, Row, Statuses
<1>4. \A s \in Statuses : Settled(x, s) \in Row
  BY DEF Settled, Row
<1>5. CallFailed(x) \in Row
  BY DEF CallFailed, Row, Statuses
<1>6. \A a \in Nat : AttemptFailed(x, a) \in Row
  BY <1>5, RetryDelayIsNat DEF AttemptFailed, Row
<1>7. \A w \in Workers : Claimed(x, w) \in Row
  <2>1. Smaller(x.attempts + 1, AttemptCap) \in 0..AttemptCap
    BY DEF Row, Smaller
  <2>2. LockTicks \in (-1)..LockTicks
    OBVIOUS
  <2> QED BY <2>1, <2>2 DEF Claimed, Row, Statuses
<1>8. Reparsed(x) \in Row
  <2> DEFINE c == IF x.content < MaxContent THEN x.content + 1 ELSE x.content
  <2>1. c \in 0..MaxContent
    BY DEF Row
  <2> HIDE DEF c
  <2>2. [x EXCEPT !.status = "pending", !.content = c] \in Row
    BY <2>1 DEF Row, Statuses
  <2> QED BY <2>2 DEF Reparsed, c
<1>9. Aged(x) \in Row
  <2>1. Down(x.next, 0) \in Nat \cup {None}
    BY NoneAssumption DEF Row, Down
  <2>2. Down(x.lease, -1) \in {None} \cup (-1)..LockTicks
    BY NoneAssumption DEF Row, Down
  <2> QED BY <2>1, <2>2 DEF Aged, Row
<1> QED BY <1>1, <1>2, <1>3, <1>4, <1>5, <1>6, <1>7, <1>8, <1>9

-----------------------------------------------------------------------------
\* Type correctness.

\* A row written by record id stays well formed, and claims are only taken away.
LEMMA WriteTypes ==
  ASSUME TypeOK, NEW r, NEW new, r \in Records => new \in Row, WriteRow(r, new)
  PROVE  row' \in [Records -> Row] /\ valid' \subseteq Workers /\ orphaned' \subseteq Records
  BY DEF TypeOK, WriteRow

LEMMA LoseWriteTypes ==
  ASSUME TypeOK, NEW p, LoseWrite(p)
  PROVE  /\ row' \in [Records -> Row] /\ valid' \subseteq Workers /\ orphaned' \subseteq Records
         /\ faults' \in 0..MaxFaults
  BY NumbersAssumption DEF TypeOK, LoseWrite, Fault, Orphan

LEMMA GotoTypes ==
  ASSUME TypeOK, NEW p \in Procs, NEW l \in Local, Goto(p, l)
  PROVE  loc' \in [Procs -> Local]
  BY DEF TypeOK, Goto

LEMMA IdleType == Idle \in Local
  BY NumbersAssumption DEF Idle, Local

\* The handler part of a parse request.
LEMMA QueueTypes ==
  ASSUME TypeOK, NEW h \in Handlers,
         QueueDisabled(h) \/ QueueInline(h) \/ QueueBackground(h)
  PROVE  TypeOK'
<1> DEFINE r == loc[h].rec
<1>1. h \in Procs /\ loc[h] \in Local
  BY DEF TypeOK, Procs
<1>2. r \in Records => row[r] \in Row
  BY DEF TypeOK
<1>3. CASE QueueDisabled(h)
  <2>1. r \in Records => Settled(row[r], "disabled") \in Row
    BY <1>2, RowUpdates DEF Statuses
  <2>2. loc' \in [Procs -> Local]
    BY <1>1, <1>3, GotoTypes, IdleType DEF QueueDisabled
  <2>3. CASE Write(r, Settled(row[r], "disabled"))
    BY <1>3, <2>1, <2>2, <2>3, WriteTypes DEF Write, QueueDisabled, TypeOK
  <2>4. CASE LoseWrite(h)
    BY <1>3, <2>2, <2>4, LoseWriteTypes DEF QueueDisabled, TypeOK
  <2> QED BY <1>3, <2>3, <2>4 DEF QueueDisabled
<1>4. CASE QueueInline(h)
  <2>1. r \in Records => MarkedRunning(row[r]) \in Row
    BY <1>2, RowUpdates
  <2>2. [loc[h] EXCEPT !.pc = "ingest", !.job = "inline"] \in Local
    BY <1>1 DEF Local
  <2>3. loc' \in [Procs -> Local]
    BY <1>1, <1>4, <2>2, GotoTypes DEF QueueInline
  <2>4. CASE Write(r, MarkedRunning(row[r]))
    BY <1>4, <2>1, <2>3, <2>4, WriteTypes DEF Write, QueueInline, TypeOK
  <2>5. CASE LoseWrite(h)
    BY <1>4, <2>3, <2>5, LoseWriteTypes DEF QueueInline, TypeOK
  <2> QED BY <1>4, <2>4, <2>5 DEF QueueInline
<1>5. CASE QueueBackground(h)
  <2>1. r \in Records => Enqueued(row[r]) \in Row
    BY <1>2, RowUpdates
  <2>2. loc' \in [Procs -> Local]
    BY <1>1, <1>5, GotoTypes, IdleType DEF QueueBackground
  <2>3. CASE Write(r, Enqueued(row[r]))
    BY <1>5, <2>1, <2>2, <2>3, WriteTypes DEF Write, QueueBackground, TypeOK
  <2>4. CASE LoseWrite(h)
    BY <1>5, <2>2, <2>4, LoseWriteTypes DEF QueueBackground, TypeOK
  <2> QED BY <1>5, <2>3, <2>4 DEF QueueBackground
<1> QED BY <1>3, <1>4, <1>5

\* The worker: its claim, and its report.
LEMMA WorkerTypes ==
  ASSUME TypeOK, NEW w \in Workers,
         (\E r \in Records : Claim(w, r)) \/ WorkerReport(w)
  PROVE  TypeOK'
<1>1. w \in Procs /\ loc[w] \in Local
  BY DEF TypeOK, Procs
<1>2. ASSUME NEW r \in Records, Claim(w, r) PROVE TypeOK'
  <2>1. Claimed(row[r], w) \in Row
    BY RowUpdates DEF TypeOK
  <2>2. row' \in [Records -> Row]
    BY <1>2, <2>1 DEF Claim, TypeOK
  <2>3. row[r].content \in 0..MaxContent /\ row'[r].attempts \in 0..AttemptCap
    BY <2>2 DEF TypeOK, Row
  <2>4. At("ingest", "queue", r, row[r].content, row'[r].attempts) \in Local
    BY <2>3 DEF At, Local
  <2>5. loc' \in [Procs -> Local]
    BY <1>1, <1>2, <2>4, GotoTypes DEF Claim
  <2> QED BY <1>2, <2>2, <2>5 DEF Claim, TypeOK
<1>3. CASE WorkerReport(w)
  <2> DEFINE r == loc[w].rec
             new == IF loc[w].out = "failed" THEN AttemptFailed(row[r], loc[w].attempt)
                    ELSE Settled(row[r], loc[w].out)
  <2>1. r \in Records => new \in Row
    <3> SUFFICES ASSUME r \in Records PROVE new \in Row
      OBVIOUS
    <3>1. row[r] \in Row /\ loc[w].attempt \in Nat
      BY <1>1, NumbersAssumption DEF TypeOK, Local
    <3>2. CASE loc[w].out = "failed"
      BY <3>1, <3>2, RowUpdates
    <3>3. CASE loc[w].out \in {"indexed", "disabled"}
      BY <3>1, <3>3, RowUpdates DEF Statuses
    <3>4. CASE loc[w].out = "none"
      BY <1>1, <1>3, <3>4 DEF Local, WorkerReport
    <3> QED BY <1>1, <3>2, <3>3, <3>4 DEF Local
  <2>2. loc' \in [Procs -> Local]
    BY <1>1, <1>3, GotoTypes, IdleType DEF WorkerReport
  <2>3. CASE Write(r, new)
    BY <1>3, <2>1, <2>2, <2>3, WriteTypes DEF Write, WorkerReport, TypeOK
  <2>4. CASE LoseWrite(w)
    BY <1>3, <2>2, <2>4, LoseWriteTypes DEF WorkerReport, TypeOK
  <2> HIDE DEF r, new
  <2> QED BY <1>3, <2>3, <2>4 DEF WorkerReport, r, new
<1> QED BY <1>2, <1>3


\* The calls to KIS, by a worker or a handler.
LEMMA KisCallTypes ==
  ASSUME TypeOK, NEW p \in Procs, KisCall(p)
  PROVE  TypeOK'
<1> DEFINE r == loc[p].rec
<1>1. loc[p] \in Local
  BY DEF TypeOK
<1>2. loc[p].content \in 0..MaxContent
  BY <1>1 DEF Local
<1>3. CASE KisIngest(p) \/ KisIngestBreaks(p)
  <2>1. /\ [loc[p] EXCEPT !.pc = "compile"] \in Local
        /\ [loc[p] EXCEPT !.pc = "report", !.out = "failed"] \in Local
    BY <1>1 DEF Local
  <2>2. loc' \in [Procs -> Local]
    BY <1>3, <2>1, GotoTypes DEF KisIngest, KisIngestBreaks
  <2>3. \A c \in BOOLEAN :
          [kis EXCEPT ![r].source = loc[p].content, ![r].chunked = c] \in [Records -> Knowledge]
    BY <1>2 DEF TypeOK, Knowledge
  <2>4. kis' \in [Records -> Knowledge]
    BY <1>3, <2>3 DEF KisIngest, KisIngestBreaks, TypeOK
  <2> QED BY <1>3, <2>2, <2>4 DEF KisIngest, KisIngestBreaks, TypeOK
<1>4. CASE KisCompile(p)
  <2>1. [loc[p] EXCEPT !.pc = "gates"] \in Local
    BY <1>1 DEF Local
  <2>2. loc' \in [Procs -> Local]
    BY <1>4, <2>1, GotoTypes DEF KisCompile
  <2>3. kis' \in [Records -> Knowledge]
    <3> DEFINE n == Smaller(kis[r].articles + 1, ArticleCap)
    <3>1. r \in Records => n \in 0..ArticleCap
      BY NumbersAssumption DEF TypeOK, Smaller, Knowledge
    <3>2. kis' = [kis EXCEPT ![r].articles = n]
      BY <1>4 DEF KisCompile
    <3> HIDE DEF n
    <3> QED BY <3>1, <3>2 DEF TypeOK, Knowledge
  <2> QED BY <1>4, <2>2, <2>3 DEF KisCompile, TypeOK
<1>5. ASSUME NEW out \in {"indexed", "failed", "disabled"}, Outcome(p, out) PROVE TypeOK'
  <2>1. [loc[p] EXCEPT !.pc = "report", !.out = out] \in Local
    BY <1>1 DEF Local
  <2>2. loc' \in [Procs -> Local]
    BY <1>5, <2>1, GotoTypes DEF Outcome
  <2> QED BY <1>5, <2>2 DEF Outcome, TypeOK
<1> QED BY <1>3, <1>4, <1>5 DEF KisCall, KisFinish, KisError, KisOff

\* The report of an inline or admin call.
LEMMA HandlerReportTypes ==
  ASSUME TypeOK, NEW h \in Handlers, HandlerReport(h)
  PROVE  TypeOK'
<1> DEFINE r == loc[h].rec
           new == IF loc[h].out = "failed" THEN CallFailed(row[r])
                  ELSE Settled(row[r], loc[h].out)
<1>1. h \in Procs /\ loc[h] \in Local
  BY DEF TypeOK, Procs
<1>2. r \in Records => new \in Row /\ CallFailed(row[r]) \in Row
  <2> SUFFICES ASSUME r \in Records PROVE new \in Row /\ CallFailed(row[r]) \in Row
    OBVIOUS
  <2>1. row[r] \in Row
    BY DEF TypeOK
  <2>2. loc[h].out \in {"indexed", "failed", "disabled"}
    BY <1>1 DEF HandlerReport, Local
  <2>3. loc[h].out \in Statuses
    BY <2>2 DEF Statuses
  <2> QED BY <2>1, <2>3, RowUpdates
<1>3. loc' \in [Procs -> Local]
  BY <1>1, GotoTypes, IdleType DEF HandlerReport
<1>4. CASE Write(r, new)
  BY <1>2, <1>3, <1>4, WriteTypes DEF Write, HandlerReport, TypeOK
<1>5. CASE LoseWrite(h)
  BY <1>3, <1>5, LoseWriteTypes DEF HandlerReport, TypeOK
<1>6. CASE Fault /\ WriteRow(r, CallFailed(row[r]))
  <2>1. row' \in [Records -> Row] /\ valid' \subseteq Workers /\ orphaned' \subseteq Records
    BY <1>2, <1>6, WriteTypes
  <2>2. faults' \in 0..MaxFaults
    BY <1>6, NumbersAssumption DEF Fault, TypeOK
  <2> QED BY <1>3, <2>1, <2>2 DEF HandlerReport, TypeOK
<1> HIDE DEF r, new
<1> QED BY <1>4, <1>5, <1>6 DEF HandlerReport, r, new

\* The second halves of the administrators' operations.
LEMMA AdminWriteTypes ==
  ASSUME TypeOK, NEW h \in Handlers, ReindexMark(h) \/ RequeueWrite(h) \/ ReparseWrite(h)
  PROVE  TypeOK'
<1> DEFINE r == loc[h].rec
<1>1. h \in Procs /\ loc[h] \in Local
  BY DEF TypeOK, Procs
<1>2. r \in Records => /\ MarkedRunning(row[r]) \in Row
                       /\ Requeued(row[r]) \in Row
                       /\ Reparsed(row[r]) \in Row
  BY RowUpdates DEF TypeOK
<1>3. [loc[h] EXCEPT !.pc = "ingest"] \in Local
  BY <1>1 DEF Local
<1>4. loc' \in [Procs -> Local]
  BY <1>1, <1>3, GotoTypes, IdleType DEF ReindexMark, RequeueWrite, ReparseWrite
<1>5. CASE LoseWrite(h)
  BY <1>4, <1>5, LoseWriteTypes DEF ReindexMark, RequeueWrite, ReparseWrite, TypeOK
<1>6. ASSUME NEW new, r \in Records => new \in Row, Write(r, new), kis' = kis PROVE TypeOK'
  BY <1>4, <1>6, WriteTypes DEF Write, TypeOK
<1> QED BY <1>2, <1>5, <1>6 DEF ReindexMark, RequeueWrite, ReparseWrite

\* The steps that begin a request.
LEMMA HandlerStartsTypes ==
  ASSUME TypeOK, NEW h \in Handlers, NEW r \in Records, HandlerStarts(h, r)
  PROVE  TypeOK'
<1>1. h \in Procs
  BY DEF Procs
<1>2. row[r] \in Row /\ row[r].content \in 0..MaxContent
  BY DEF TypeOK, Row
<1>3. \A s \in Statuses, c \in 0..MaxContent : FreshRow(s, c) \in Row
  BY NumbersAssumption DEF FreshRow, Row
<1>4. \A c \in 0..MaxContent :
        /\ At("inserted", "queue", r, c, 0) \in Local
        /\ At("read", "reindex", r, c, 0) \in Local
        /\ At("requeue", "requeue", r, c, 0) \in Local
        /\ At("reparse", "reparse", r, c, 0) \in Local
  BY NumbersAssumption DEF At, Local
<1>5. 0 \in 0..MaxContent /\ 1 \in 0..MaxContent
  BY NumbersAssumption
<1>6. CASE Insert(h, r)
  <2>1. FreshRow("pending", 1) \in Row
    BY <1>3, <1>5 DEF Statuses
  <2>2. loc' \in [Procs -> Local]
    BY <1>1, <1>4, <1>5, <1>6, GotoTypes DEF Insert
  <2> QED BY <1>6, <2>1, <2>2 DEF Insert, TypeOK
<1>7. CASE Delete(h, r)
  <2>1. FreshRow("deleted", 0) \in Row
    BY <1>3, <1>5 DEF Statuses
  <2> QED BY <1>7, <2>1, WriteTypes DEF Delete, Write, TypeOK
<1>8. CASE ReindexRead(h, r) \/ RequeuePick(h, r) \/ ReparseRead(h, r)
  <2>1. loc' \in [Procs -> Local]
    BY <1>1, <1>2, <1>4, <1>5, <1>8, GotoTypes DEF ReindexRead, RequeuePick, ReparseRead
  <2> QED BY <1>8, <2>1 DEF ReindexRead, RequeuePick, ReparseRead, TypeOK
<1> QED BY <1>6, <1>7, <1>8 DEF HandlerStarts

\* Crashes and the clock.
LEMMA CrashTickTypes ==
  ASSUME TypeOK, (\E p \in Procs : Crash(p)) \/ Tick
  PROVE  TypeOK'
<1>1. ASSUME NEW p \in Procs, Crash(p) PROVE TypeOK'
  <2>1. loc' \in [Procs -> Local]
    BY <1>1, GotoTypes, IdleType DEF Crash
  <2>2. faults' \in 0..MaxFaults
    BY <1>1, NumbersAssumption DEF Crash, Fault, TypeOK
  <2> QED BY <1>1, <2>1, <2>2 DEF Crash, Orphan, TypeOK
<1>2. CASE Tick
  <2>1. \A r \in Records : Aged(row[r]) \in Row
    BY RowUpdates DEF TypeOK
  <2> QED BY <1>2, <2>1 DEF Tick, TypeOK
<1> QED BY <1>1, <1>2

\* The initial states are well typed.
LEMMA InitTypes == Init => TypeOK
<1> SUFFICES ASSUME Init PROVE TypeOK
  OBVIOUS
<1>1. FreshRow("absent", 0) \in Row /\ FreshRow("not_started", 1) \in Row
  BY NumbersAssumption DEF FreshRow, Row, Statuses
<1>2. row \in [Records -> Row]
  BY <1>1 DEF Init
<1>3. loc \in [Procs -> Local]
  BY IdleType DEF Init
<1>4. kis \in [Records -> Knowledge]
  <2>1. [source |-> None, chunked |-> FALSE, articles |-> 0] \in Knowledge
    BY NumbersAssumption DEF Knowledge
  <2> QED BY <2>1 DEF Init
<1>5. valid \subseteq Workers /\ orphaned \subseteq Records /\ faults \in 0..MaxFaults
  BY NumbersAssumption DEF Init
<1> QED BY <1>2, <1>3, <1>4, <1>5 DEF TypeOK

\* Every step keeps the types.
LEMMA NextTypes == TypeOK /\ [Next]_vars => TypeOK'
<1> SUFFICES ASSUME TypeOK, [Next]_vars PROVE TypeOK'
  OBVIOUS
<1>1. ASSUME NEW w \in Workers, WorkerNext(w) PROVE TypeOK'
  BY <1>1, WorkerTypes, KisCallTypes DEF WorkerNext, Procs
<1>2. ASSUME NEW h \in Handlers, HandlerContinues(h) PROVE TypeOK'
  BY <1>2, QueueTypes, KisCallTypes, HandlerReportTypes, AdminWriteTypes
     DEF HandlerContinues, Procs
<1>3. ASSUME NEW h \in Handlers, NEW r \in Records, HandlerStarts(h, r) PROVE TypeOK'
  BY <1>3, HandlerStartsTypes
<1>4. CASE (\E p \in Procs : Crash(p)) \/ Tick
  BY <1>4, CrashTickTypes
<1>5. CASE UNCHANGED vars
  BY <1>5 DEF vars, TypeOK
<1> QED BY <1>1, <1>2, <1>3, <1>4, <1>5 DEF Next

\* Rows, the memory of workers and handlers, and the knowledge service stay within their
\* types, whatever the number of records, processes, attempts and ticks.
THEOREM TypeCorrect == Spec => []TypeOK
BY InitTypes, NextTypes, PTL DEF Spec


-----------------------------------------------------------------------------
\* Consistent rows.

\* No statement of the code leaves a row whose columns contradict each other.
LEMMA ConsistentUpdates ==
  ASSUME NEW x \in Row, Consistent(x)
  PROVE  /\ Consistent(Enqueued(x))
         /\ Consistent(Requeued(x))
         /\ Consistent(MarkedRunning(x))
         /\ \A s \in Statuses : Consistent(Settled(x, s))
         /\ Consistent(CallFailed(x))
         /\ \A a \in Nat : Consistent(AttemptFailed(x, a))
         /\ \A w \in Workers : Consistent(Claimed(x, w))
         /\ Consistent(Reparsed(x))
         /\ Consistent(Aged(x))
<1> USE NumbersAssumption, NoneAssumption DEF Consistent, Row
<1>1. Consistent(Enqueued(x)) /\ Consistent(Requeued(x))
  BY DEF Enqueued, Requeued
<1>2. Consistent(MarkedRunning(x))
  BY DEF MarkedRunning
<1>3. \A s \in Statuses : Consistent(Settled(x, s))
  BY DEF Settled
<1>4. Consistent(CallFailed(x)) /\ \A a \in Nat : Consistent(AttemptFailed(x, a))
  BY DEF CallFailed, AttemptFailed
<1>5. \A w \in Workers : Consistent(Claimed(x, w))
  BY DEF Claimed, Procs
<1>6. Consistent(Reparsed(x))
  BY DEF Reparsed
<1>7. Consistent(Aged(x))
  BY DEF Aged, Down
<1> QED BY <1>1, <1>2, <1>3, <1>4, <1>5, <1>6, <1>7


\* What a step may make of a row.
RowWrites(x) ==
  {x, Enqueued(x), Requeued(x), MarkedRunning(x), CallFailed(x), Reparsed(x), Aged(x),
   FreshRow("pending", 1), FreshRow("deleted", 0)}
    \cup {Settled(x, s) : s \in Statuses}
    \cup {AttemptFailed(x, a) : a \in Nat}
    \cup {Claimed(x, w) : w \in Workers}

\* A step changes a row only through one of the statements of the code.
LEMMA NextWritesRows ==
  ASSUME TypeOK, [Next]_vars, NEW s \in Records
  PROVE  row'[s] \in RowWrites(row[s])
<1>1. row \in [Records -> Row] /\ row[s] \in RowWrites(row[s])
  BY DEF TypeOK, RowWrites
<1>2. ASSUME NEW r, NEW new, WriteRow(r, new), r \in Records => new \in RowWrites(row[r])
      PROVE  row'[s] \in RowWrites(row[s])
  BY <1>1, <1>2 DEF WriteRow
<1>3. \A p \in Procs : loc[p] \in Local /\ loc[p].attempt \in Nat
  BY NumbersAssumption DEF TypeOK, Local
<1>4. ASSUME NEW w \in Workers, WorkerNext(w) PROVE row'[s] \in RowWrites(row[s])
  <2>1. ASSUME NEW r \in Records, Claim(w, r) PROVE row'[s] \in RowWrites(row[s])
    <3>1. row'[s] = IF s = r THEN Claimed(row[s], w) ELSE row[s]
      BY <1>1, <2>1 DEF Claim
    <3> QED BY <1>1, <3>1 DEF RowWrites
  <2>2. CASE WorkerReport(w)
    <3> DEFINE r == loc[w].rec
               new == IF loc[w].out = "failed" THEN AttemptFailed(row[r], loc[w].attempt)
                      ELSE Settled(row[r], loc[w].out)
    <3>1. loc[w].attempt \in Nat /\ loc[w].out \in Statuses \cup {"none"} /\ loc[w].out # "none"
      BY <1>3, <2>2 DEF Procs, Local, Statuses, WorkerReport
    <3>2. new \in RowWrites(row[r])
      BY <3>1 DEF RowWrites
    <3>3. WriteRow(r, new) \/ row' = row
      BY <2>2 DEF WorkerReport, Write, LoseWrite
    <3> HIDE DEF r, new
    <3> QED BY <1>1, <1>2, <3>2, <3>3
  <2>3. CASE KisCall(w)
    BY <1>1, <2>3 DEF KisCall, KisIngest, KisIngestBreaks, KisCompile, KisFinish, KisError, KisOff, Outcome
  <2> QED BY <1>4, <2>1, <2>2, <2>3 DEF WorkerNext
<1>5. ASSUME NEW h \in Handlers, HandlerContinues(h) PROVE row'[s] \in RowWrites(row[s])
  <2> DEFINE r == loc[h].rec
  <2>1. /\ Settled(row[r], "disabled") \in RowWrites(row[r])
        /\ MarkedRunning(row[r]) \in RowWrites(row[r])
        /\ Enqueued(row[r]) \in RowWrites(row[r])
        /\ Requeued(row[r]) \in RowWrites(row[r])
        /\ Reparsed(row[r]) \in RowWrites(row[r])
        /\ CallFailed(row[r]) \in RowWrites(row[r])
    BY DEF RowWrites, Statuses
  <2>2. ASSUME NEW new \in RowWrites(row[r]), Write(r, new) \/ WriteRow(r, new) \/ LoseWrite(h)
        PROVE  row'[s] \in RowWrites(row[s])
    BY <1>1, <1>2, <2>2 DEF Write, LoseWrite
  <2>3. CASE HandlerReport(h)
    <3>1. loc[h].out \in Statuses \cup {"none"} /\ loc[h].out # "none"
      BY <1>3, <2>3 DEF Procs, Local, Statuses, HandlerReport
    <3>2. Settled(row[r], loc[h].out) \in RowWrites(row[r])
      BY <3>1 DEF RowWrites
    <3> QED BY <2>1, <2>2, <2>3, <3>2 DEF HandlerReport
  <2>4. CASE KisCall(h)
    BY <1>1, <2>4 DEF KisCall, KisIngest, KisIngestBreaks, KisCompile, KisFinish, KisError, KisOff, Outcome
  <2>5. CASE QueueDisabled(h) \/ QueueInline(h) \/ QueueBackground(h)
    BY <2>1, <2>2, <2>5 DEF QueueDisabled, QueueInline, QueueBackground
  <2>6. CASE ReindexMark(h) \/ RequeueWrite(h) \/ ReparseWrite(h)
    BY <2>1, <2>2, <2>6 DEF ReindexMark, RequeueWrite, ReparseWrite
  <2> QED BY <1>5, <2>3, <2>4, <2>5, <2>6 DEF HandlerContinues
<1>6. ASSUME NEW h \in Handlers, NEW r \in Records, HandlerStarts(h, r)
      PROVE  row'[s] \in RowWrites(row[s])
  <2>1. CASE Insert(h, r)
    <3>1. row'[s] = IF s = r THEN FreshRow("pending", 1) ELSE row[s]
      BY <1>1, <2>1 DEF Insert
    <3> QED BY <1>1, <3>1 DEF RowWrites
  <2>2. CASE Delete(h, r)
    BY <1>2, <2>2 DEF Delete, Write, RowWrites
  <2>3. CASE ReindexRead(h, r) \/ RequeuePick(h, r) \/ ReparseRead(h, r)
    BY <1>1, <2>3 DEF ReindexRead, RequeuePick, ReparseRead
  <2> QED BY <1>6, <2>1, <2>2, <2>3 DEF HandlerStarts
<1>7. CASE \E p \in Procs : Crash(p)
  BY <1>1, <1>7 DEF Crash
<1>8. CASE Tick
  BY <1>8 DEF Tick, RowWrites
<1>9. CASE UNCHANGED vars
  BY <1>1, <1>9 DEF vars
<1> QED BY <1>4, <1>5, <1>6, <1>7, <1>8, <1>9 DEF Next

\* The columns of every row agree, whatever workers, handlers, administrators and crashes
\* do to it: update_kis_index_status, enqueue, requeue, re-parse and the claim in any order.
THEOREM RowsStayConsistent == Spec => []RowConsistent
<1>1. Init => RowConsistent
  <2> SUFFICES ASSUME Init, NEW r \in Records PROVE Consistent(row[r])
    BY DEF RowConsistent
  <2>1. row[r] \in {FreshRow("absent", 0), FreshRow("not_started", 1)}
    BY DEF Init
  <2> QED BY <2>1 DEF Consistent, FreshRow
<1>2. TypeOK /\ RowConsistent /\ [Next]_vars => RowConsistent'
  <2> SUFFICES ASSUME TypeOK, RowConsistent, [Next]_vars, NEW r \in Records
               PROVE  Consistent(row'[r])
    BY DEF RowConsistent, Consistent
  <2>1. row[r] \in Row /\ Consistent(row[r])
    BY DEF TypeOK, RowConsistent
  <2>2. Consistent(FreshRow("pending", 1)) /\ Consistent(FreshRow("deleted", 0))
    BY DEF Consistent, FreshRow
  <2>3. \A y \in RowWrites(row[r]) : Consistent(y)
    BY <2>1, <2>2, ConsistentUpdates DEF RowWrites
  <2> QED BY <2>3, NextWritesRows
<1> QED BY <1>1, <1>2, TypeCorrect, PTL DEF Spec


-----------------------------------------------------------------------------
\* Exclusive claims.

\* Valid claims survive a step that takes away the claims on the rows it changes and
\* leaves the other claimants in the middle of the same attempt.
LEMMA ClaimsSurvive ==
  ASSUME TypeOK, ValidClaimOwnsRow, valid' \subseteq valid,
         \A w \in valid' : /\ Indexing(w)' /\ loc'[w].rec = loc[w].rec
                           /\ loc'[w].attempt = loc[w].attempt
                           /\ row'[loc[w].rec] = row[loc[w].rec]
  PROVE  ValidClaimOwnsRow'
  BY DEF ValidClaimOwnsRow, ClaimHolds, LeaseLive

\* A write by record id takes away the claims on that record.
LEMMA WriteSparesOthers ==
  ASSUME TypeOK, NEW r, NEW new, WriteRow(r, new)
  PROVE  /\ valid' \subseteq valid
         /\ \A w \in valid' : loc[w].rec # r
         /\ \A s \in Records : s # r => row'[s] = row[s]
  BY DEF WriteRow, TypeOK

\* Nothing a handler does breaks the claims it leaves valid.
LEMMA HandlersSpareClaims ==
  ASSUME TypeOK, ValidClaimOwnsRow, NEW h \in Handlers,
         HandlerContinues(h) \/ \E r \in Records : HandlerStarts(h, r)
  PROVE  ValidClaimOwnsRow'
<1>1. \A w \in valid : w \in Workers /\ w # h /\ loc[w].rec \in Records /\ Indexing(w)
  BY ProcsAssumption DEF TypeOK, ValidClaimOwnsRow, ClaimHolds
<1>2. \A w \in valid : row[loc[w].rec].status = "running"
  BY DEF ValidClaimOwnsRow, ClaimHolds
<1>3. \A l : Goto(h, l) => \A w \in valid : loc'[w] = loc[w]
  BY <1>1 DEF Goto, TypeOK, Procs
<1>4. ASSUME \A w \in valid : loc'[w] = loc[w], NEW r, NEW new, WriteRow(r, new) \/ LoseWrite(h)
      PROVE  ValidClaimOwnsRow'
  <2>1. valid' \subseteq valid /\ \A w \in valid' : row'[loc[w].rec] = row[loc[w].rec]
    BY <1>1, <1>4, WriteSparesOthers DEF LoseWrite
  <2> QED BY <1>1, <1>4, <2>1, ClaimsSurvive DEF Indexing
<1>5. CASE UNCHANGED <<row, valid>> /\ \A w \in valid : loc'[w] = loc[w]
  BY <1>1, <1>5, ClaimsSurvive DEF Indexing
<1>6. CASE HandlerContinues(h)
  <2>1. CASE KisCall(h)
    BY <1>3, <1>5, <2>1 DEF KisCall, KisIngest, KisIngestBreaks, KisCompile, KisFinish, KisError, KisOff, Outcome
  <2>2. CASE QueueDisabled(h) \/ QueueInline(h) \/ QueueBackground(h)
    BY <1>3, <1>4, <2>2 DEF QueueDisabled, QueueInline, QueueBackground, Write
  <2>3. CASE HandlerReport(h)
    BY <1>3, <1>4, <2>3 DEF HandlerReport, Write
  <2>4. CASE ReindexMark(h) \/ RequeueWrite(h) \/ ReparseWrite(h)
    BY <1>3, <1>4, <2>4 DEF ReindexMark, RequeueWrite, ReparseWrite, Write
  <2> QED BY <1>6, <2>1, <2>2, <2>3, <2>4 DEF HandlerContinues
<1>7. ASSUME NEW r \in Records, HandlerStarts(h, r) PROVE ValidClaimOwnsRow'
  <2>1. CASE Insert(h, r)
    <3>1. valid' = valid /\ \A w \in valid' : loc[w].rec # r
      BY <1>2, <2>1 DEF Insert
    <3>2. \A w \in valid' : row'[loc[w].rec] = row[loc[w].rec]
      BY <1>1, <2>1, <3>1 DEF Insert, TypeOK
    <3>3. \A w \in valid' : loc'[w] = loc[w]
      BY <1>3, <2>1, <3>1 DEF Insert
    <3> QED BY <1>1, <3>1, <3>2, <3>3, ClaimsSurvive DEF Indexing
  <2>2. CASE Delete(h, r)
    BY <1>4, <2>2 DEF Delete, Write
  <2>3. CASE ReindexRead(h, r) \/ RequeuePick(h, r) \/ ReparseRead(h, r)
    BY <1>3, <1>5, <2>3 DEF ReindexRead, RequeuePick, ReparseRead
  <2> QED BY <1>7, <2>1, <2>2, <2>3 DEF HandlerStarts
<1> QED BY <1>6, <1>7

\* A claim hits no row that is validly held, and holds itself.
LEMMA ClaimsHold ==
  ASSUME TypeOK, ValidClaimOwnsRow, NEW w \in Workers, NEW r \in Records, Claim(w, r)
  PROVE  ValidClaimOwnsRow'
<1>1. \A x \in valid : x \in Workers /\ x # w /\ loc[x].rec # r /\ loc[x].rec \in Records
  <2> SUFFICES ASSUME NEW x \in valid
               PROVE  x \in Workers /\ x # w /\ loc[x].rec # r /\ loc[x].rec \in Records
    OBVIOUS
  <2>1. x \in Workers /\ ClaimHolds(x)
    BY DEF TypeOK, ValidClaimOwnsRow
  <2>2. x # w
    BY <2>1 DEF ClaimHolds, Indexing, Calling, Claim
  <2>3. row[r] \in Row
    BY DEF TypeOK
  <2>4. loc[x].rec # r
    BY <2>1, <2>3 DEF ClaimHolds, Claim, Claimable, LeaseLive, Row
  <2> QED BY <2>1, <2>2, <2>4 DEF ClaimHolds
<1>2. \A x \in valid : loc'[x] = loc[x] /\ row'[loc[x].rec] = row[loc[x].rec]
  BY <1>1 DEF Claim, Goto, TypeOK, Procs
<1>3. \A x \in valid : ClaimHolds(x)'
  BY <1>1, <1>2 DEF ValidClaimOwnsRow, ClaimHolds, Indexing, LeaseLive
<1>4. ClaimHolds(w)'
  <2>1. loc'[w] = At("ingest", "queue", r, row[r].content, row'[r].attempts)
    BY DEF Claim, Goto, TypeOK, Procs
  <2>2. row'[r] = Claimed(row[r], w) /\ row[r] \in Row
    BY DEF Claim, TypeOK
  <2>3. row'[r].status = "running" /\ row'[r].worker = w /\ row'[r].lease = LockTicks
    BY <2>2 DEF Claimed, Row
  <2>4. LockTicks # None /\ LockTicks >= 0
    BY NoneAssumption, NumbersAssumption
  <2> QED BY <2>1, <2>3, <2>4 DEF ClaimHolds, Indexing, Calling, LeaseLive, At
<1> QED BY <1>3, <1>4 DEF ValidClaimOwnsRow, Claim

\* Nothing else a worker does, no crash and no tick, breaks the claims it leaves valid.
LEMMA WorkersSpareClaims ==
  ASSUME TypeOK, ValidClaimOwnsRow, NEW w \in Workers, KisCall(w) \/ WorkerReport(w)
  PROVE  ValidClaimOwnsRow'
<1>1. \A x \in valid : x \in Workers /\ loc[x].rec \in Records /\ Indexing(x)
  BY DEF TypeOK, ValidClaimOwnsRow, ClaimHolds
<1>2. \A l : Goto(w, l) => loc'[w] = l /\ \A x \in valid : x # w => loc'[x] = loc[x]
  BY <1>1 DEF Goto, TypeOK, Procs
<1>3. CASE KisCall(w)
  <2>1. valid' = valid /\ row' = row
    BY <1>3 DEF KisCall, KisIngest, KisIngestBreaks, KisCompile, KisFinish, KisError, KisOff, Outcome
  <2>2. loc[w] \in Local
    BY DEF TypeOK, Procs
  <2>3. Indexing(w)' /\ loc'[w].rec = loc[w].rec /\ loc'[w].attempt = loc[w].attempt
    <3>1. CASE KisIngest(w)
      BY <1>2, <2>2, <3>1 DEF KisIngest, Indexing, Calling, Local
    <3>2. CASE KisCompile(w)
      BY <1>2, <2>2, <3>2 DEF KisCompile, Indexing, Calling, Local
    <3>3. CASE KisIngestBreaks(w)
      <4>1. loc'[w] = [loc[w] EXCEPT !.pc = "report", !.out = "failed"]
        BY <1>2, <3>3 DEF KisIngestBreaks
      <4> QED BY <2>2, <4>1 DEF Indexing, Local
    <3>4. ASSUME NEW out, Outcome(w, out)
          PROVE  Indexing(w)' /\ loc'[w].rec = loc[w].rec /\ loc'[w].attempt = loc[w].attempt
      <4>1. loc'[w] = [loc[w] EXCEPT !.pc = "report", !.out = out]
        BY <1>2, <3>4 DEF Outcome
      <4> QED BY <2>2, <4>1 DEF Indexing, Local
    <3> QED BY <1>3, <3>1, <3>2, <3>3, <3>4 DEF KisCall, KisFinish, KisError, KisOff
  <2>4. \A x \in valid : x # w => loc'[x] = loc[x]
    BY <1>2, <1>3 DEF KisCall, KisIngest, KisIngestBreaks, KisCompile, KisFinish, KisError, KisOff, Outcome
  <2> QED BY <1>1, <2>1, <2>3, <2>4, ClaimsSurvive DEF Indexing
<1>4. CASE WorkerReport(w)
  <2>1. valid' \subseteq valid /\ w \notin valid'
    BY <1>4 DEF WorkerReport, Write, WriteRow, LoseWrite
  <2>2. \A x \in valid' : row'[loc[x].rec] = row[loc[x].rec]
    BY <1>1, <1>4, WriteSparesOthers DEF WorkerReport, Write, LoseWrite
  <2>3. \A x \in valid' : loc'[x] = loc[x]
    BY <1>2, <1>4, <2>1 DEF WorkerReport
  <2> QED BY <1>1, <2>1, <2>2, <2>3, ClaimsSurvive DEF Indexing
<1> QED BY <1>3, <1>4

LEMMA CrashTickSpareClaims ==
  ASSUME TypeOK, ValidClaimOwnsRow, (\E p \in Procs : Crash(p)) \/ Tick
  PROVE  ValidClaimOwnsRow'
<1>1. \A x \in valid : x \in Workers /\ loc[x].rec \in Records /\ Indexing(x)
  BY DEF TypeOK, ValidClaimOwnsRow, ClaimHolds
<1>2. ASSUME NEW p \in Procs, Crash(p) PROVE ValidClaimOwnsRow'
  BY <1>1, <1>2, ClaimsSurvive DEF Crash, Goto, Indexing, TypeOK
<1>3. CASE Tick
  <2> SUFFICES ASSUME NEW w \in valid' PROVE ClaimHolds(w)'
    BY DEF ValidClaimOwnsRow
  <2>1. w \in valid /\ loc' = loc /\ LeaseLive(row'[loc[w].rec])
    BY <1>3 DEF Tick
  <2>2. row'[loc[w].rec] = Aged(row[loc[w].rec]) /\ row[loc[w].rec] \in Row
    BY <1>1, <1>3, <2>1 DEF Tick, TypeOK
  <2>3. ClaimHolds(w)
    BY <2>1 DEF ValidClaimOwnsRow
  <2> QED BY <2>1, <2>2, <2>3 DEF ClaimHolds, Indexing, Aged, Row, LeaseLive
<1> QED BY <1>2, <1>3

\* A worker whose claim nobody has disturbed finds the row as its claim left it.
THEOREM ClaimsOwnRows == Spec => []ValidClaimOwnsRow
<1>1. Init => ValidClaimOwnsRow
  BY DEF Init, ValidClaimOwnsRow
<1>2. TypeOK /\ ValidClaimOwnsRow /\ [Next]_vars => ValidClaimOwnsRow'
  <2> SUFFICES ASSUME TypeOK, ValidClaimOwnsRow, [Next]_vars PROVE ValidClaimOwnsRow'
    OBVIOUS
  <2>1. ASSUME NEW w \in Workers, WorkerNext(w) PROVE ValidClaimOwnsRow'
    BY <2>1, ClaimsHold, WorkersSpareClaims DEF WorkerNext
  <2>2. ASSUME NEW h \in Handlers, HandlerContinues(h) \/ \E r \in Records : HandlerStarts(h, r)
        PROVE  ValidClaimOwnsRow'
    BY <2>2, HandlersSpareClaims
  <2>3. CASE (\E p \in Procs : Crash(p)) \/ Tick
    BY <2>3, CrashTickSpareClaims
  <2>4. CASE UNCHANGED vars
    BY <2>4 DEF vars, ValidClaimOwnsRow, ClaimHolds, Indexing, LeaseLive
  <2> QED BY <2>1, <2>2, <2>3, <2>4 DEF Next
<1> QED BY <1>1, <1>2, TypeCorrect, PTL DEF Spec

\* Two undisturbed claims are never on the same record: FOR UPDATE SKIP LOCKED and the
\* lease make a claim exclusive, however many workers poll.
THEOREM ClaimsExclusive == Spec => []ExclusiveClaims
<1>1. TypeOK /\ ValidClaimOwnsRow => ExclusiveClaims
  BY DEF ValidClaimOwnsRow, ClaimHolds, ExclusiveClaims
<1> QED BY <1>1, TypeCorrect, ClaimsOwnRows, PTL


-----------------------------------------------------------------------------
\* The queue implements exclusive jobs.

IInv == TypeOK /\ ValidClaimOwnsRow

\* The holder of a record is the only valid claimant on it.
HolderFacts ==
  \A r \in Records :
    /\ \A w \in valid : loc[w].rec = r => HolderOf(r) = w
    /\ HolderOf(r) # None => HolderOf(r) \in valid /\ loc[HolderOf(r)].rec = r

LEMMA HolderIsClaimant == IInv => HolderFacts
<1> SUFFICES ASSUME IInv, NEW r \in Records
             PROVE  /\ \A w \in valid : loc[w].rec = r => HolderOf(r) = w
                    /\ HolderOf(r) # None => HolderOf(r) \in valid /\ loc[HolderOf(r)].rec = r
  BY DEF HolderFacts
<1>1. \A w, x \in valid : loc[w].rec = r /\ loc[x].rec = r => w = x
  BY DEF IInv, ValidClaimOwnsRow, ClaimHolds
<1>2. CASE \E w \in valid : loc[w].rec = r
  <2>1. HolderOf(r) \in valid /\ loc[HolderOf(r)].rec = r
    BY <1>2 DEF HolderOf
  <2> QED BY <1>1, <2>1
<1>3. CASE ~ \E w \in valid : loc[w].rec = r
  BY <1>3 DEF HolderOf
<1> QED BY <1>2, <1>3

\* A step that only takes claims away is a release.
LEMMA FewerClaimsRelease ==
  ASSUME HolderFacts, HolderFacts', valid' \subseteq valid,
         \A w \in valid' : loc'[w].rec = loc[w].rec
  PROVE  Jobs!Next
<1> DEFINE S == {r \in Records : HolderOf(r)' = None}
<1>1. \A r \in Records : HolderOf(r)' # None => HolderOf(r) = HolderOf(r)'
  <2> SUFFICES ASSUME NEW r \in Records, HolderOf(r)' # None PROVE HolderOf(r) = HolderOf(r)'
    OBVIOUS
  <2>1. HolderOf(r)' \in valid' /\ loc'[HolderOf(r)'].rec = r
    BY DEF HolderFacts
  <2>2. HolderOf(r)' \in valid /\ loc[HolderOf(r)'].rec = r
    BY <2>1
  <2> QED BY <2>2 DEF HolderFacts
<1>2. [r \in Records |-> HolderOf(r)'] =
        [r \in Records |-> IF r \in S THEN None ELSE [q \in Records |-> HolderOf(q)][r]]
  BY <1>1
<1>3. Jobs!Release(S)
  BY <1>2 DEF Jobs!Release
<1> QED BY <1>3 DEF Jobs!Next

\* A claim takes a record nobody holds.
LEMMA ClaimTakes ==
  ASSUME IInv, HolderFacts, HolderFacts', NEW w \in Workers, NEW r \in Records, Claim(w, r)
  PROVE  Jobs!Next
<1>1. \A x \in valid : x # w /\ loc[x].rec # r /\ loc'[x] = loc[x]
  <2> SUFFICES ASSUME NEW x \in valid PROVE x # w /\ loc[x].rec # r /\ loc'[x] = loc[x]
    OBVIOUS
  <2>1. ClaimHolds(x) /\ x \in Procs
    BY DEF IInv, ValidClaimOwnsRow, TypeOK, Procs
  <2>2. x # w
    BY <2>1 DEF ClaimHolds, Indexing, Calling, Claim
  <2>3. row[r] \in Row
    BY DEF IInv, TypeOK
  <2>4. loc[x].rec # r
    BY <2>1, <2>3 DEF ClaimHolds, Claim, Claimable, LeaseLive, Row
  <2> QED BY <2>1, <2>2, <2>4 DEF Claim, Goto, IInv, TypeOK
<1>2. w \in valid' /\ loc'[w].rec = r /\ valid' = valid \cup {w} /\ w # None
  BY NoneAssumption DEF Claim, Goto, At, IInv, TypeOK, Procs
<1>3. HolderOf(r) = None /\ \A q \in Records : HolderOf(q) # w
  BY <1>1, <1>2 DEF HolderFacts
<1>4. HolderOf(r)' = w
  BY <1>2 DEF HolderFacts
<1>5. \A q \in Records : q # r => HolderOf(q)' = HolderOf(q)
  <2> SUFFICES ASSUME NEW q \in Records, q # r PROVE HolderOf(q)' = HolderOf(q)
    OBVIOUS
  <2>1. CASE HolderOf(q) # None
    <3>1. HolderOf(q) \in valid' /\ loc'[HolderOf(q)].rec = q
      BY <1>1, <1>2, <2>1 DEF HolderFacts
    <3> QED BY <3>1 DEF HolderFacts
  <2>2. CASE HolderOf(q) = None
    <3>1. ASSUME HolderOf(q)' # None PROVE FALSE
      <4>1. HolderOf(q)' \in valid' /\ loc'[HolderOf(q)'].rec = q
        BY <3>1 DEF HolderFacts
      <4>2. HolderOf(q)' \in valid /\ loc[HolderOf(q)'].rec = q
        BY <1>1, <1>2, <4>1
      <4> QED BY <2>2, <3>1, <4>2 DEF HolderFacts
    <3> QED BY <2>2, <3>1
  <2> QED BY <2>1, <2>2
<1>6. [q \in Records |-> HolderOf(q)'] = [[q \in Records |-> HolderOf(q)] EXCEPT ![r] = w]
  BY <1>4, <1>5
<1>7. Jobs!Take(w, r)
  BY <1>3, <1>6 DEF Jobs!Take
<1> QED BY <1>7 DEF Jobs!Next

\* Every other step takes claims away or leaves them.
LEMMA OtherStepsTakeNoClaim ==
  ASSUME IInv, [Next]_vars, ~ \E w \in Workers, r \in Records : Claim(w, r)
  PROVE  valid' \subseteq valid /\ \A w \in valid' : loc'[w].rec = loc[w].rec
<1>1. \A x \in valid : x \in Workers /\ x \in Procs /\ x \notin Handlers /\ loc[x] \in Local
  BY ProcsAssumption DEF IInv, TypeOK, Procs
<1>2. \A p \in Procs : \A l : Goto(p, l) => \A x \in valid : x # p => loc'[x] = loc[x]
  BY <1>1 DEF Goto, IInv, TypeOK
<1>3. \A p \in Procs : \A l : Goto(p, l) => loc'[p] = l
  BY DEF Goto, IInv, TypeOK
<1>4. ASSUME NEW p \in Procs, KisCall(p)
      PROVE  valid' = valid /\ \A w \in valid' : loc'[w].rec = loc[w].rec
  <2>1. loc[p] \in Local
    BY DEF IInv, TypeOK
  <2>2. ASSUME NEW l, Goto(p, l), l.rec = loc[p].rec, valid' = valid
        PROVE  \A w \in valid' : loc'[w].rec = loc[w].rec
    BY <1>2, <1>3, <2>2
  <2>3. \A pc, out : /\ [loc[p] EXCEPT !.pc = pc].rec = loc[p].rec
                     /\ [loc[p] EXCEPT !.pc = pc, !.out = out].rec = loc[p].rec
    BY <2>1 DEF Local
  <2> QED BY <1>4, <2>2, <2>3 DEF KisCall, KisIngest, KisIngestBreaks, KisCompile, KisFinish, KisError, KisOff,
                                   Outcome
<1>5. ASSUME NEW w \in Workers, WorkerReport(w)
      PROVE  valid' \subseteq valid /\ \A x \in valid' : loc'[x].rec = loc[x].rec
  <2>1. valid' \subseteq valid \ {w}
    BY <1>5 DEF WorkerReport, Write, WriteRow, LoseWrite
  <2> QED BY <1>2, <1>5, <2>1 DEF WorkerReport, Procs
<1>6. ASSUME NEW h \in Handlers, HandlerContinues(h)
      PROVE  valid' \subseteq valid /\ \A x \in valid' : loc'[x].rec = loc[x].rec
  <2>1. CASE KisCall(h)
    BY <1>4, <2>1 DEF Procs
  <2>2. \E l : Goto(h, l) \/ KisCall(h)
    BY <1>6 DEF HandlerContinues, QueueDisabled, QueueInline, QueueBackground, HandlerReport,
                ReindexMark, RequeueWrite, ReparseWrite
  <2>3. valid' \subseteq valid \/ KisCall(h)
    BY <1>6 DEF HandlerContinues, QueueDisabled, QueueInline, QueueBackground, HandlerReport,
                ReindexMark, RequeueWrite, ReparseWrite, Write, WriteRow, LoseWrite
  <2> QED BY <1>1, <1>2, <2>1, <2>2, <2>3 DEF Procs
<1>7. ASSUME NEW h \in Handlers, NEW r \in Records, HandlerStarts(h, r)
      PROVE  valid' \subseteq valid /\ \A x \in valid' : loc'[x].rec = loc[x].rec
  <2>1. (\E l : Goto(h, l)) \/ loc' = loc
    BY <1>7 DEF HandlerStarts, Insert, ReindexRead, RequeuePick, ReparseRead, Delete
  <2>2. valid' \subseteq valid
    BY <1>7 DEF HandlerStarts, Insert, ReindexRead, RequeuePick, ReparseRead, Delete,
                Write, WriteRow
  <2> QED BY <1>1, <1>2, <2>1, <2>2 DEF Procs
<1>8. ASSUME NEW p \in Procs, Crash(p)
      PROVE  valid' \subseteq valid /\ \A x \in valid' : loc'[x].rec = loc[x].rec
  BY <1>2, <1>8 DEF Crash
<1>9. CASE Tick \/ UNCHANGED vars
  BY <1>9 DEF Tick, vars
<1> QED BY <1>4, <1>5, <1>6, <1>7, <1>8, <1>9 DEF Next, WorkerNext, Procs

\* Claims, reports, crashes, foreign writes and expiring leases of the queue are Take and
\* Release of ExclusiveJobs, for any number of records, workers and handlers.
THEOREM QueueImplementsExclusiveJobs == Spec => ImplementsExclusiveJobs
<1>1. Init => Jobs!Init
  BY DEF Init, Jobs!Init, HolderOf
<1>2. IInv /\ IInv' /\ [Next]_vars => [Jobs!Next]_([r \in Records |-> HolderOf(r)])
  <2> SUFFICES ASSUME IInv, IInv', [Next]_vars PROVE Jobs!Next
    OBVIOUS
  <2>1. HolderFacts /\ HolderFacts'
    BY HolderIsClaimant, PTL
  <2>2. CASE \E w \in Workers, r \in Records : Claim(w, r)
    BY <2>1, <2>2, ClaimTakes
  <2>3. CASE ~ \E w \in Workers, r \in Records : Claim(w, r)
    BY <2>1, <2>3, OtherStepsTakeNoClaim, FewerClaimsRelease
  <2> QED BY <2>2, <2>3
<1>3. Spec => []IInv
  BY TypeCorrect, ClaimsOwnRows, PTL DEF IInv
<1> QED BY <1>1, <1>2, <1>3, PTL DEF Spec, ImplementsExclusiveJobs, Jobs!Spec

-----------------------------------------------------------------------------
\* What is reported, and what is being worked on.

Known(r) == kis[r].source # None /\ kis[r].chunked /\ kis[r].articles > 0

\* What a worker or handler in state l has already seen KIS do.
Knows(l) ==
  /\ l.pc # "idle" => l.rec \in Records
  /\ l.pc = "compile" => kis[l.rec].source # None
  /\ l.pc = "gates" => Known(l.rec)
  /\ l.pc = "report" /\ l.out = "indexed" => Known(l.rec)

WorkInv ==
  /\ \A p \in Procs : Knows(loc[p])
  /\ IndexedHasKnowledge
  /\ RunningIsAttended

\* A handler in state l will report on record r.
WillReport(l, r) == l.rec = r /\ l.pc \in Calling \cup {"report"}

\* KIS forgets nothing; a row becomes indexed only with knowledge behind it, and running
\* only under a lease or with a handler that goes on to report.
LEMMA WorkSurvives ==
  ASSUME TypeOK, WorkInv, NEW p \in Procs, NEW l, Knows(l)', Goto(p, l),
         \A r \in Records : /\ kis[r].source # None => kis'[r].source # None
                            /\ Known(r) => Known(r)',
         \A r \in Records : row'[r].status = "indexed" =>
                              row[r].status = "indexed" \/ Known(r),
         \A r \in Records : row'[r].status = "running" =>
           \/ row'[r].lease # None
           \/ p \in Handlers /\ WillReport(l, r)
           \/ r \in orphaned'
           \/ /\ row'[r] = row[r] /\ r \notin orphaned
              /\ p \in Handlers => (WillReport(loc[p], r) => WillReport(l, r))
  PROVE  WorkInv'
<1>1. loc'[p] = l /\ \A q \in Procs \ {p} : loc'[q] = loc[q]
  BY DEF Goto, TypeOK
<1>2. ASSUME NEW q \in Procs PROVE Knows(loc[q])'
  <2>1. CASE q = p
    BY <1>1, <2>1 DEF Knows, Known
  <2>2. CASE q # p
    <3>1. Knows(loc[q]) /\ loc'[q] = loc[q]
      BY <1>1, <2>2 DEF WorkInv
    <3> QED BY <3>1 DEF Knows
  <2> QED BY <2>1, <2>2
<1>3. IndexedHasKnowledge'
  BY DEF WorkInv, IndexedHasKnowledge, Known
<1>4. RunningIsAttended'
  <2> SUFFICES ASSUME NEW r \in Records, row'[r].status = "running",
                      row'[r].lease = None, r \notin orphaned'
               PROVE  \E h \in Handlers : WillReport(loc'[h], r)
    BY DEF RunningIsAttended, WillReport, Indexing
  <2>1. CASE p \in Handlers /\ WillReport(l, r)
    BY <1>1, <2>1
  <2>2. CASE /\ row'[r] = row[r] /\ r \notin orphaned
             /\ p \in Handlers => (WillReport(loc[p], r) => WillReport(l, r))
    <3>1. PICK h \in Handlers : WillReport(loc[h], r)
      BY <2>2 DEF WorkInv, RunningIsAttended, WillReport, Indexing
    <3>2. h = p \/ loc'[h] = loc[h]
      BY <1>1 DEF Procs
    <3> QED BY <1>1, <2>2, <3>1, <3>2
  <2> QED BY <2>1, <2>2
<1> QED BY <1>2, <1>3, <1>4 DEF WorkInv

\* Records stay orphaned when p leaves, and the one it was going to report on becomes so.
OrphansKeep(p) ==
  \A r \in Records : r \in orphaned \/ (p \in Handlers /\ WillReport(loc[p], r)) => r \in orphaned'

LEMMA OrphanKeeps ==
  ASSUME NEW p, Orphan(p)
  PROVE  OrphansKeep(p)
BY DEF Orphan, OrphansKeep, WillReport, Indexing

\* A process that writes the row of its own record, or fails to, and then is idle or
\* goes on to index it.
LEMMA WriteKeepsWork ==
  ASSUME TypeOK, WorkInv, NEW p \in Procs, NEW l, Knows(l), Goto(p, l),
         kis' = kis, NEW r \in Records, WillReport(loc[p], r) \/ ~Indexing(p),
         NEW new, new.status = "indexed" => Known(r),
         new.status = "running" => new.lease # None \/ (p \in Handlers /\ WillReport(l, r)),
         WriteRow(r, new) \/ LoseWrite(p)
  PROVE  WorkInv'
<1>1. Knows(l)'
  BY DEF Knows, Known
<1>3. CASE LoseWrite(p)
  <2>1. row' = row /\ OrphansKeep(p)
    BY <1>3, OrphanKeeps DEF LoseWrite
  <2> QED BY <1>1, <2>1, WorkSurvives DEF Known, OrphansKeep
<1>4. CASE WriteRow(r, new)
  <2>1. \A q \in Records \ {r} : row'[q] = row[q]
    BY <1>4 DEF WriteRow, TypeOK
  <2>2. row'[r] = new \/ (row'[r] = row[r] /\ row[r].status # "running")
    <3>1. CASE Exists(r)
      <4>1. row' = [row EXCEPT ![r] = new] /\ row \in [Records -> Row]
        BY <1>4, <3>1 DEF WriteRow, TypeOK
      <4>2. row'[r] = new
        BY <4>1
      <4> QED BY <4>2
    <3>2. CASE ~Exists(r)
      <4>1. row' = row
        BY <1>4, <3>2 DEF WriteRow
      <4> QED BY <3>2, <4>1 DEF Exists
    <3> QED BY <3>1, <3>2
  <2>3. \A q \in Records : row'[q].status = "indexed" => row[q].status = "indexed" \/ Known(q)
    BY <2>1, <2>2
  <2>4. \A q \in Records : WillReport(loc[p], q) => q = r
    BY DEF WillReport, Indexing
  <2>5. ASSUME NEW q \in Records, row'[q].status = "running"
        PROVE  \/ row'[q].lease # None
               \/ p \in Handlers /\ WillReport(l, q)
               \/ q \in orphaned'
               \/ /\ row'[q] = row[q] /\ q \notin orphaned
                  /\ p \in Handlers => (WillReport(loc[p], q) => WillReport(l, q))
    <3>1. orphaned' = orphaned \ {r}
      BY <1>4 DEF WriteRow
    <3> QED BY <2>1, <2>2, <2>4, <2>5, <3>1
  <2> QED BY <1>1, <1>4, <2>3, <2>5, WorkSurvives DEF Known
<1> QED BY <1>3, <1>4

\* What the statements of the code make of status and lease.
LEMMA UpdatedStatus ==
  ASSUME NEW x \in Row
  PROVE  /\ Enqueued(x).status = "pending" /\ Requeued(x).status = "pending"
         /\ MarkedRunning(x).status = "running" /\ Reparsed(x).status = "pending"
         /\ \A s : Settled(x, s).status = s
         /\ CallFailed(x).status = "failed"
         /\ \A a : AttemptFailed(x, a).status = "failed"
         /\ \A w : Claimed(x, w).status = "running" /\ Claimed(x, w).lease # None
         /\ Aged(x).status = x.status /\ (x.lease # None => Aged(x).lease # None)
<1>1. Enqueued(x).status = "pending" /\ Requeued(x).status = "pending"
  BY DEF Enqueued, Requeued, Row
<1>2. MarkedRunning(x).status = "running" /\ Reparsed(x).status = "pending"
  BY DEF MarkedRunning, Reparsed, Row
<1>3. /\ \A s : Settled(x, s).status = s
      /\ CallFailed(x).status = "failed"
      /\ \A a : AttemptFailed(x, a).status = "failed"
  BY DEF Settled, CallFailed, AttemptFailed, Row
<1>4. \A w : Claimed(x, w).status = "running" /\ Claimed(x, w).lease # None
  BY NoneAssumption, NumbersAssumption DEF Claimed, Row
<1>5. Aged(x).status = x.status /\ (x.lease # None => Aged(x).lease # None)
  BY NoneAssumption, NumbersAssumption DEF Aged, Down, Row
<1> QED BY <1>1, <1>2, <1>3, <1>4, <1>5

LEMMA IdleKnows == Knows(Idle) /\ Idle.pc = "idle"
BY DEF Knows, Idle

\* The steps of a process on the row of its record.
LEMMA QueueKeepsWork ==
  ASSUME TypeOK, WorkInv, NEW h \in Handlers,
         QueueDisabled(h) \/ QueueInline(h) \/ QueueBackground(h)
  PROVE  WorkInv'
<1> DEFINE r == loc[h].rec
<1>1. h \in Procs /\ loc[h].pc = "inserted" /\ ~Indexing(h) /\ loc[h] \in Local
  BY DEF QueueDisabled, QueueInline, QueueBackground, Procs, Indexing, Calling, TypeOK
<1>2. r \in Records /\ row[r] \in Row
  BY <1>1 DEF WorkInv, Knows, TypeOK
<1> HIDE DEF r
<1>3. CASE QueueDisabled(h)
  BY <1>1, <1>2, <1>3, IdleKnows, UpdatedStatus, WriteKeepsWork DEF QueueDisabled, Write, r
<1>4. CASE QueueBackground(h)
  BY <1>1, <1>2, <1>4, IdleKnows, UpdatedStatus, WriteKeepsWork DEF QueueBackground, Write, r
<1>5. CASE QueueInline(h)
  <2> DEFINE l == [loc[h] EXCEPT !.pc = "ingest", !.job = "inline"]
  <2>1. l.pc = "ingest" /\ l.rec = r
    BY <1>1 DEF Local, r
  <2>2. Knows(l) /\ WillReport(l, r)
    BY <1>2, <2>1 DEF Knows, WillReport, Calling
  <2> HIDE DEF l
  <2>3. Goto(h, l) /\ kis' = kis /\ (Write(r, MarkedRunning(row[r])) \/ LoseWrite(h))
    BY <1>5 DEF QueueInline, l, r
  <2> QED BY <1>1, <1>2, <2>2, <2>3, UpdatedStatus, WriteKeepsWork DEF Write
<1> QED BY <1>3, <1>4, <1>5

LEMMA AdminKeepsWork ==
  ASSUME TypeOK, WorkInv, NEW h \in Handlers, ReindexMark(h) \/ RequeueWrite(h) \/ ReparseWrite(h)
  PROVE  WorkInv'
<1> DEFINE r == loc[h].rec
<1>1. h \in Procs /\ loc[h].pc # "idle" /\ ~Indexing(h) /\ loc[h] \in Local
  BY DEF ReindexMark, RequeueWrite, ReparseWrite, Procs, Indexing, Calling, TypeOK
<1>2. r \in Records /\ row[r] \in Row
  BY <1>1 DEF WorkInv, Knows, TypeOK
<1> HIDE DEF r
<1>3. CASE RequeueWrite(h)
  BY <1>1, <1>2, <1>3, IdleKnows, UpdatedStatus, WriteKeepsWork DEF RequeueWrite, Write, r
<1>4. CASE ReparseWrite(h)
  BY <1>1, <1>2, <1>4, IdleKnows, UpdatedStatus, WriteKeepsWork DEF ReparseWrite, Write, r
<1>5. CASE ReindexMark(h)
  <2> DEFINE l == [loc[h] EXCEPT !.pc = "ingest"]
  <2>1. l.pc = "ingest" /\ l.rec = r
    BY <1>1 DEF Local, r
  <2>2. Knows(l) /\ WillReport(l, r)
    BY <1>2, <2>1 DEF Knows, WillReport, Calling
  <2> HIDE DEF l
  <2>3. CASE Write(r, MarkedRunning(row[r])) /\ Goto(h, l)
    BY <1>1, <1>2, <1>5, <2>2, <2>3, UpdatedStatus, WriteKeepsWork DEF ReindexMark, Write
  <2>4. CASE LoseWrite(h) /\ Goto(h, Idle)
    <3>1. CallFailed(row[r]).status = "failed"
      BY <1>2, UpdatedStatus
    <3> QED BY <1>1, <1>2, <1>5, <2>4, <3>1, IdleKnows, WriteKeepsWork DEF ReindexMark
  <2> QED BY <1>5, <2>3, <2>4 DEF ReindexMark, l, r
<1> QED BY <1>3, <1>4, <1>5

\* A report says "indexed" only of a record whose knowledge is there.
LEMMA ReportsKeepWork ==
  ASSUME TypeOK, WorkInv, NEW p \in Procs,
         (p \in Workers /\ WorkerReport(p)) \/ (p \in Handlers /\ HandlerReport(p))
  PROVE  WorkInv'
<1> DEFINE r == loc[p].rec
<1>1. loc[p].pc = "report" /\ loc[p] \in Local /\ WillReport(loc[p], r)
  BY DEF WorkerReport, HandlerReport, TypeOK, WillReport
<1>2. /\ r \in Records /\ row[r] \in Row
      /\ loc[p].out = "indexed" => Known(r)
      /\ loc[p].out \in {"indexed", "failed", "disabled"}
  BY <1>1 DEF WorkInv, Knows, TypeOK, Local
<1> HIDE DEF r
<1>3. ASSUME NEW new, new.status \in {"failed", "disabled"} \/ new.status = loc[p].out,
             WriteRow(r, new) \/ LoseWrite(p),
             kis' = kis, Goto(p, Idle)
      PROVE  WorkInv'
  <2>1. new.status # "running" /\ (new.status = "indexed" => Known(r))
    BY <1>2, <1>3
  <2> QED BY <1>1, <1>2, <1>3, <2>1, IdleKnows, WriteKeepsWork
<1>4. CASE WorkerReport(p)
  <2> DEFINE new == IF loc[p].out = "failed" THEN AttemptFailed(row[r], loc[p].attempt)
                    ELSE Settled(row[r], loc[p].out)
  <2>1. new.status = loc[p].out
    BY <1>2, UpdatedStatus
  <2>2. (Write(r, new) \/ LoseWrite(p)) /\ Goto(p, Idle) /\ kis' = kis
    BY <1>4 DEF WorkerReport, r
  <2> HIDE DEF new
  <2> QED BY <1>3, <2>1, <2>2 DEF Write
<1>5. CASE HandlerReport(p)
  <2> DEFINE new == IF loc[p].out = "failed" THEN CallFailed(row[r])
                    ELSE Settled(row[r], loc[p].out)
  <2>1. new.status = loc[p].out /\ CallFailed(row[r]).status = "failed"
    BY <1>2, UpdatedStatus
  <2>2. /\ \/ Write(r, new)
           \/ LoseWrite(p)
           \/ WriteRow(r, CallFailed(row[r]))
        /\ Goto(p, Idle) /\ kis' = kis
    BY <1>5 DEF HandlerReport, r
  <2> HIDE DEF new
  <2> QED BY <1>3, <2>1, <2>2 DEF Write
<1> QED BY <1>4, <1>5

\* KIS only ever adds to what it holds.
LEMMA KisCallKeepsWork ==
  ASSUME TypeOK, WorkInv, NEW p \in Procs, KisCall(p)
  PROVE  WorkInv'
<1>1. loc[p].pc \in Calling /\ loc[p] \in Local
  BY DEF KisCall, KisIngest, KisIngestBreaks, KisCompile, KisFinish, KisError, KisOff, Calling, TypeOK
<1>0. PICK r \in Records : r = loc[p].rec
  BY <1>1 DEF WorkInv, Knows, Calling
<1>2. /\ Knows(loc[p]) /\ WillReport(loc[p], r)
      /\ kis[r] \in Knowledge /\ loc[p].content # None
  BY <1>0, <1>1, NoneAssumption DEF WorkInv, Knows, TypeOK, WillReport, Calling, Local
<1>3. UNCHANGED <<row, orphaned>>
  BY DEF KisCall, KisIngest, KisIngestBreaks, KisCompile, KisFinish, KisError, KisOff, Outcome
<1>4. ASSUME NEW l, Goto(p, l), Knows(l)', WillReport(l, r),
             \A q \in Records : /\ kis[q].source # None => kis'[q].source # None
                                /\ Known(q) => Known(q)'
      PROVE  WorkInv'
  <2>1. \A q \in Records : WillReport(loc[p], q) => WillReport(l, q)
    BY <1>0, <1>4 DEF WillReport
  <2> QED BY <1>3, <1>4, <2>1, WorkSurvives
<1>5. \A pc, out : /\ [loc[p] EXCEPT !.pc = pc].pc = pc
                   /\ [loc[p] EXCEPT !.pc = pc].rec = r
                   /\ [loc[p] EXCEPT !.pc = pc].out = loc[p].out
                   /\ [loc[p] EXCEPT !.pc = pc, !.out = out].pc = pc
                   /\ [loc[p] EXCEPT !.pc = pc, !.out = out].rec = r
                   /\ [loc[p] EXCEPT !.pc = pc, !.out = out].out = out
  BY <1>0, <1>1 DEF Local
<1>6. CASE KisIngest(p)
  <2>0. PICK l : l = [loc[p] EXCEPT !.pc = "compile"]
    OBVIOUS
  <2>1. l.pc = "compile" /\ l.rec = r
    BY <1>5, <2>0
  <2>2. kis'[r].source # None /\ \A q \in Records : /\ kis[q].source # None => kis'[q].source # None
                                                    /\ Known(q) => Known(q)'
    <3>1. CASE kis[r].source # None
      BY <1>0, <1>6, <3>1 DEF KisIngest, Known
    <3>2. CASE kis[r].source = None
      <4>1. kis' = [kis EXCEPT ![r].source = loc[p].content, ![r].chunked = TRUE]
        BY <1>0, <1>6, <3>2 DEF KisIngest
      <4>2. kis'[r].source = loc[p].content /\ \A q \in Records \ {r} : kis'[q] = kis[q]
        BY <1>0, <1>2, <4>1 DEF TypeOK, Knowledge
      <4> QED BY <1>0, <1>2, <3>2, <4>2 DEF Known
    <3> QED BY <3>1, <3>2
  <2>3. Knows(l)' /\ WillReport(l, r)
    BY <1>0, <1>2, <2>1, <2>2 DEF Knows, WillReport, Calling
  <2>4. Goto(p, l)
    BY <1>0, <2>0, <1>6 DEF KisIngest
  <2> QED BY <1>4, <2>2, <2>3, <2>4
<1>7. CASE KisIngestBreaks(p)
  <2>0. PICK l : l = [loc[p] EXCEPT !.pc = "report", !.out = "failed"]
    OBVIOUS
  <2>1. l.pc = "report" /\ l.rec = r /\ l.out = "failed"
    BY <1>5, <2>0
  <2>2. PICK some \in BOOLEAN :
          kis' = [kis EXCEPT ![r].source = loc[p].content, ![r].chunked = some]
    BY <1>0, <1>7 DEF KisIngestBreaks
  <2>3. kis'[r].source = loc[p].content /\ \A q \in Records \ {r} : kis'[q] = kis[q]
    BY <1>0, <1>2, <2>2 DEF TypeOK, Knowledge
  <2>4. kis[r].source = None /\ Goto(p, l)
    BY <1>0, <2>0, <1>7 DEF KisIngestBreaks
  <2>5. Knows(l)' /\ WillReport(l, r)
    BY <1>0, <1>2, <2>1 DEF Knows, WillReport, Calling
  <2> QED BY <1>0, <1>2, <1>4, <2>3, <2>4, <2>5 DEF Known
<1>8. CASE KisCompile(p)
  <2>0. PICK l : l = [loc[p] EXCEPT !.pc = "gates"]
    OBVIOUS
  <2> DEFINE n == Smaller(kis[r].articles + 1, ArticleCap)
  <2>1. l.pc = "gates" /\ l.rec = r
    BY <1>5, <2>0
  <2>2. n \in Nat /\ n > 0
    BY <1>0, <1>2, NumbersAssumption DEF Smaller, Knowledge
  <2>3. kis' = [kis EXCEPT ![r].articles = n] /\ kis[r].chunked /\ Goto(p, l)
    BY <1>0, <2>0, <1>8 DEF KisCompile
  <2> HIDE DEF n
  <2>4. /\ kis'[r].source = kis[r].source /\ kis'[r].chunked = kis[r].chunked
        /\ kis'[r].articles = n /\ \A q \in Records \ {r} : kis'[q] = kis[q]
    BY <1>0, <1>2, <2>3 DEF TypeOK, Knowledge
  <2>5. kis[r].source # None
    BY <1>0, <1>2, <1>8 DEF Knows, KisCompile
  <2>6. Known(r)' /\ \A q \in Records : /\ kis[q].source # None => kis'[q].source # None
                                        /\ Known(q) => Known(q)'
    BY <2>2, <2>3, <2>4, <2>5 DEF Known
  <2>7. Knows(l)' /\ WillReport(l, r)
    BY <1>0, <1>2, <2>1, <2>6 DEF Knows, WillReport, Calling
  <2> QED BY <1>4, <2>3, <2>6, <2>7
<1>9. ASSUME NEW out, Outcome(p, out), out = "indexed" => loc[p].pc = "gates" PROVE WorkInv'
  <2>0. PICK l : l = [loc[p] EXCEPT !.pc = "report", !.out = out]
    OBVIOUS
  <2>1. l.pc = "report" /\ l.rec = r /\ l.out = out
    BY <1>5, <2>0
  <2>2. Goto(p, l) /\ kis' = kis
    BY <1>0, <2>0, <1>9 DEF Outcome
  <2>3. Knows(l)' /\ WillReport(l, r)
    BY <1>0, <1>2, <1>9, <2>1, <2>2 DEF Knows, Known, WillReport, Calling
  <2> QED BY <1>0, <1>4, <2>2, <2>3 DEF Known
<1>10. CASE KisFinish(p) \/ KisError(p) \/ KisOff(p)
  BY <1>0, <1>9, <1>10 DEF KisFinish, KisError, KisOff
<1> QED BY <1>0, <1>6, <1>7, <1>8, <1>10 DEF KisCall

\* A claim leases the row it takes; a request begins with nothing known.
LEMMA StartsKeepWork ==
  ASSUME TypeOK, WorkInv, NEW p \in Procs, NEW r \in Records,
         (p \in Workers /\ Claim(p, r)) \/ (p \in Handlers /\ HandlerStarts(p, r))
  PROVE  WorkInv'
<1>1. loc[p].pc = "idle" /\ ~Indexing(p) /\ row[r] \in Row
  BY DEF Claim, HandlerStarts, Insert, ReindexRead, RequeuePick, ReparseRead, Delete, Indexing,
         Calling, TypeOK
<1>2. \A pc, job, content, attempt :
        LET l == At(pc, job, r, content, attempt) IN
        pc \in {"ingest", "inserted", "read", "requeue", "reparse"} => Knows(l) /\ Knows(l)'
  BY DEF At, Knows
<1>3. ~(\E q \in Records : WillReport(loc[p], q))
  BY <1>1 DEF WillReport, Indexing
<1>4. ASSUME NEW l, Goto(p, l), Knows(l)', UNCHANGED <<row, kis, orphaned>> PROVE WorkInv'
  BY <1>3, <1>4, WorkSurvives DEF Known
<1>5. CASE p \in Workers /\ Claim(p, r)
  <2>0. PICK l : l = At("ingest", "queue", r, row[r].content, row'[r].attempts)
    OBVIOUS
  <2>1. Goto(p, l) /\ Knows(l)' /\ kis' = kis /\ orphaned' = orphaned \ {r}
    BY <1>5, <2>0 DEF Claim, Knows, At
  <2>2. row'[r] = Claimed(row[r], p) /\ \A q \in Records \ {r} : row'[q] = row[q]
    BY <1>5 DEF Claim, TypeOK
  <2>3. row'[r].status = "running" /\ row'[r].lease # None
    BY <1>1, <2>2, UpdatedStatus
  <2> QED BY <1>3, <2>1, <2>2, <2>3, WorkSurvives DEF Known
<1>6. CASE p \in Handlers /\ Insert(p, r)
  <2> DEFINE l == At("inserted", "queue", r, 1, 0)
  <2>1. Goto(p, l) /\ Knows(l)' /\ kis' = kis /\ orphaned' = orphaned
    BY <1>2, <1>6 DEF Insert
  <2> HIDE DEF l
  <2>2. row'[r] = FreshRow("pending", 1) /\ \A q \in Records \ {r} : row'[q] = row[q]
    BY <1>6 DEF Insert, TypeOK
  <2>3. row'[r].status = "pending"
    BY <2>2 DEF FreshRow
  <2> QED BY <1>3, <2>1, <2>2, <2>3, WorkSurvives DEF Known
<1>7. CASE p \in Handlers /\ Delete(p, r)
  <2>1. Goto(p, loc[p]) /\ Knows(loc[p])
    BY <1>7 DEF Delete, Goto, TypeOK, WorkInv
  <2>2. FreshRow("deleted", 0).status = "deleted"
    BY DEF FreshRow
  <2>3. WriteRow(r, FreshRow("deleted", 0)) /\ kis' = kis
    BY <1>7 DEF Delete, Write
  <2> QED BY <1>1, <2>1, <2>2, <2>3, WriteKeepsWork
<1>8. CASE p \in Handlers /\ (ReindexRead(p, r) \/ RequeuePick(p, r) \/ ReparseRead(p, r))
  BY <1>2, <1>4, <1>8 DEF ReindexRead, RequeuePick, ReparseRead
<1> QED BY <1>5, <1>6, <1>7, <1>8 DEF HandlerStarts

LEMMA CrashKeepsWork ==
  ASSUME TypeOK, WorkInv, NEW p \in Procs, Crash(p)
  PROVE  WorkInv'
<1>1. OrphansKeep(p) /\ UNCHANGED <<row, kis>> /\ Goto(p, Idle)
  BY OrphanKeeps DEF Crash
<1>2. Knows(Idle)'
  BY IdleKnows DEF Knows
<1> QED BY <1>1, <1>2, WorkSurvives DEF Known, OrphansKeep

LEMMA TickKeepsWork ==
  ASSUME TypeOK, WorkInv, Tick
  PROVE  WorkInv'
<1>1. UNCHANGED <<loc, kis, orphaned>>
  BY DEF Tick
<1>2. ASSUME NEW r \in Records
      PROVE  row'[r].status = row[r].status /\ (row[r].lease # None => row'[r].lease # None)
  BY UpdatedStatus DEF Tick, TypeOK
<1>3. \A p \in Procs : Knows(loc[p])'
  BY <1>1 DEF WorkInv, Knows, Known
<1>4. IndexedHasKnowledge'
  BY <1>1, <1>2 DEF WorkInv, IndexedHasKnowledge
<1>5. RunningIsAttended'
  BY <1>1, <1>2 DEF WorkInv, RunningIsAttended, Indexing
<1> QED BY <1>3, <1>4, <1>5 DEF WorkInv

LEMMA WorkIsInductive == Spec => []WorkInv
<1>1. Init => WorkInv
  <2> SUFFICES ASSUME Init PROVE WorkInv
    OBVIOUS
  <2>1. \A r \in Records : row[r].status \in {"absent", "not_started"}
    <3>1. \A r \in Records : row[r] \in {FreshRow("absent", 0), FreshRow("not_started", 1)}
      BY DEF Init
    <3>2. FreshRow("absent", 0).status = "absent" /\ FreshRow("not_started", 1).status = "not_started"
      BY DEF FreshRow
    <3> QED BY <3>1, <3>2
  <2>2. \A p \in Procs : loc[p] = Idle
    BY DEF Init
  <2> QED BY <2>1, <2>2, IdleKnows DEF WorkInv, IndexedHasKnowledge, RunningIsAttended
<1>2. TypeOK /\ WorkInv /\ [Next]_vars => WorkInv'
  <2> SUFFICES ASSUME TypeOK, WorkInv, [Next]_vars PROVE WorkInv'
    OBVIOUS
  <2>1. ASSUME NEW w \in Workers, WorkerNext(w) PROVE WorkInv'
    <3>1. w \in Procs
      BY DEF Procs
    <3> QED BY <2>1, <3>1, StartsKeepWork, KisCallKeepsWork, ReportsKeepWork DEF WorkerNext
  <2>2. ASSUME NEW h \in Handlers, HandlerContinues(h) PROVE WorkInv'
    BY <2>2, QueueKeepsWork, KisCallKeepsWork, ReportsKeepWork, AdminKeepsWork
       DEF HandlerContinues, Procs
  <2>3. ASSUME NEW h \in Handlers, NEW r \in Records, HandlerStarts(h, r) PROVE WorkInv'
    BY <2>3, StartsKeepWork DEF Procs
  <2>4. CASE (\E p \in Procs : Crash(p)) \/ Tick
    BY <2>4, CrashKeepsWork, TickKeepsWork
  <2>5. CASE UNCHANGED vars
    BY <2>5 DEF vars, WorkInv, Knows, Known, IndexedHasKnowledge, RunningIsAttended, Indexing
  <2> QED BY <2>1, <2>2, <2>3, <2>4, <2>5 DEF Next
<1> QED BY <1>1, <1>2, TypeCorrect, PTL DEF Spec

\* A record is reported as indexed only when KIS holds its source, chunks of it and an
\* article, whoever reports, however stale the report
\* (index_uploaded_document_via_kis, update_kis_index_status).
THEOREM IndexedIsKnown == Spec => []IndexedHasKnowledge
<1>1. WorkInv => IndexedHasKnowledge
  BY DEF WorkInv
<1> QED BY <1>1, WorkIsInductive, PTL

\* A running row has a lease that will expire or a handler that will report on it, unless
\* the very handler that was indexing it crashed or lost its report; crashes of workers,
\* their lost writes and whatever befalls other records strand nothing
\* (index_uploaded_document_via_kis, update_kis_index_status).
THEOREM NoWorkStranded == Spec => []RunningIsAttended
<1>1. WorkInv => RunningIsAttended
  BY DEF WorkInv
<1> QED BY <1>1, WorkIsInductive, PTL

-----------------------------------------------------------------------------
\* What a counted attempt buys, where background workers alone index.

\* The deployment: every instance indexes in the background and administrators leave the
\* queue alone.  The bound on the counted articles is not above that on the attempts.
WorkersAlone ==
  /\ Modes = {"background"} /\ AdminOps = {}
  /\ IsFiniteSet(Workers)
  /\ ArticleCap <= AttemptCap

\* Workers whose attempt may yet compile an article of the record.
Unpaid(r) == {w \in Workers : loc[w].rec = r /\ loc[w].pc \in {"ingest", "compile"}}

Budgeted(r) ==
  \/ row[r].attempts = AttemptCap
  \/ kis[r].articles + Cardinality(Unpaid(r)) <= row[r].attempts

\* A worker in state l reports an attempt the row has counted.
AtWork(l) ==
  l.pc # "idle" =>
    l.rec \in Records /\ l.pc \in Calling \cup {"report"} /\ l.attempt <= row[l.rec].attempts

BudgetInv ==
  /\ \A h \in Handlers : loc[h].pc \in {"idle", "inserted"}
  /\ \A w \in Workers : AtWork(loc[w])
  /\ \A r \in Records : row[r].status = "absent" => row[r].attempts = 0
  /\ RetryOrBudgetSpent
  /\ \A r \in Records : Budgeted(r)

LEMMA UpdatedAttempts ==
  ASSUME NEW x \in Row
  PROVE  /\ Enqueued(x).attempts = x.attempts
         /\ \A s : Settled(x, s).attempts = x.attempts
         /\ \A a \in Nat : /\ AttemptFailed(x, a).attempts = x.attempts
                           /\ AttemptFailed(x, a).next # None \/ a >= MaxAttempts
         /\ \A w : Claimed(x, w).attempts = Smaller(x.attempts + 1, AttemptCap)
         /\ Aged(x).attempts = x.attempts /\ (x.next # None => Aged(x).next # None)
<1>1. Enqueued(x).attempts = x.attempts /\ \A s : Settled(x, s).attempts = x.attempts
  BY DEF Enqueued, Settled, Row
<1>2. ASSUME NEW a \in Nat
      PROVE  /\ AttemptFailed(x, a).attempts = x.attempts
             /\ AttemptFailed(x, a).next # None \/ a >= MaxAttempts
  <2>1. RetryDelay(a) # None
    BY RetryDelayIsNat, NoneAssumption
  <2> QED BY <2>1, NumbersAssumption DEF AttemptFailed, CallFailed, Row
<1>3. \A w : Claimed(x, w).attempts = Smaller(x.attempts + 1, AttemptCap)
  BY DEF Claimed, Row
<1>4. Aged(x).attempts = x.attempts /\ (x.next # None => Aged(x).next # None)
  BY NoneAssumption DEF Aged, Down, Row
<1> QED BY <1>1, <1>2, <1>3, <1>4

\* Attempts are never uncounted: what held of the other workers' attempts still does.
LEMMA BudgetSurvives ==
  ASSUME TypeOK, TypeOK', BudgetInv, NEW p \in Procs, NEW l, Goto(p, l),
         p \in Handlers => l.pc \in {"idle", "inserted"},
         p \in Workers => AtWork(l)',
         \A r \in Records : /\ row'[r].attempts >= row[r].attempts
                            /\ row'[r].status = "absent" => row'[r].attempts = 0
                            /\ row'[r].status = "failed" =>
                                 row'[r].next # None \/ row'[r].attempts >= MaxAttempts
                            /\ Budgeted(r)'
  PROVE  BudgetInv'
<1>1. loc'[p] = l /\ \A q \in Procs \ {p} : loc'[q] = loc[q]
  BY DEF Goto, TypeOK
<1>2. \A h \in Handlers : loc'[h].pc \in {"idle", "inserted"}
  BY <1>1 DEF BudgetInv, Procs
<1>3. ASSUME NEW w \in Workers PROVE AtWork(loc[w])'
  <2>1. CASE w = p
    BY <1>1, <2>1 DEF AtWork
  <2>2. CASE w # p
    <3>1. loc'[w] = loc[w] /\ AtWork(loc[w]) /\ loc[w] \in Local
      BY <1>1, <2>2 DEF BudgetInv, Procs, TypeOK
    <3>2. SUFFICES ASSUME loc[w].pc # "idle" PROVE loc[w].attempt <= row'[loc[w].rec].attempts
      BY <3>1 DEF AtWork
    <3>3. PICK r \in Records : r = loc[w].rec
      BY <3>1, <3>2 DEF AtWork
    <3>4. /\ row[r].attempts \in Int /\ row'[r].attempts \in Int /\ loc[w].attempt \in Int
          /\ loc[w].attempt <= row[r].attempts /\ row[r].attempts <= row'[r].attempts
      BY <3>1, <3>2, <3>3 DEF AtWork, TypeOK, Row, Local
    <3> QED BY <3>3, <3>4
  <2> QED BY <2>1, <2>2
<1>4. RetryOrBudgetSpent'
  BY DEF RetryOrBudgetSpent
<1> QED BY <1>2, <1>3, <1>4 DEF BudgetInv

\* A step that compiles nothing and starts no attempt.
LEMMA BudgetKept ==
  ASSUME WorkersAlone, TypeOK, TypeOK', NEW r \in Records, Budgeted(r),
         kis'[r].articles = kis[r].articles, row'[r].attempts >= row[r].attempts,
         Unpaid(r)' \subseteq Unpaid(r)
  PROVE  Budgeted(r)'
<1>1. IsFiniteSet(Unpaid(r))
  BY FS_Subset DEF Unpaid, WorkersAlone
<1>2. /\ Cardinality(Unpaid(r)') <= Cardinality(Unpaid(r))
      /\ Cardinality(Unpaid(r)') \in Nat /\ Cardinality(Unpaid(r)) \in Nat
  BY <1>1, FS_Subset, FS_CardinalityType
<1>3. /\ row[r].attempts \in 0..AttemptCap /\ row'[r].attempts \in 0..AttemptCap
      /\ kis[r].articles \in Int
  BY NumbersAssumption DEF TypeOK, Row, Knowledge
<1> DEFINE n == Cardinality(Unpaid(r))
           m == Cardinality(Unpaid(r)')
<1>4. row[r].attempts = AttemptCap \/ kis[r].articles + n <= row[r].attempts
  BY DEF Budgeted
<1>5. m <= n /\ m \in Nat /\ n \in Nat
  BY <1>2
<1> HIDE DEF n, m
<1>6. row'[r].attempts = AttemptCap \/ kis'[r].articles + m <= row'[r].attempts
  BY <1>3, <1>4, <1>5, NumbersAssumption
<1> QED BY <1>6 DEF Budgeted, m

LEMMA UnpaidAfter ==
  ASSUME TypeOK, NEW p \in Procs, NEW l, Goto(p, l), NEW r,
         l.rec = r /\ l.pc \in {"ingest", "compile"} =>
           loc[p].rec = r /\ loc[p].pc \in {"ingest", "compile"}
  PROVE  Unpaid(r)' \subseteq Unpaid(r)
<1>1. loc'[p] = l /\ \A q \in Procs \ {p} : loc'[q] = loc[q]
  BY DEF Goto, TypeOK
<1> QED BY <1>1 DEF Unpaid, Procs

LEMMA IdleIsAtWork == AtWork(Idle) /\ AtWork(Idle)' /\ Idle.pc = "idle"
BY DEF AtWork, Idle

\* A process that writes the row of its record, or fails to, and is done.
LEMMA WriteKeepsBudget ==
  ASSUME WorkersAlone, TypeOK, TypeOK', BudgetInv, NEW p \in Procs, Goto(p, Idle), kis' = kis,
         NEW r \in Records, NEW new,
         new.attempts = row[r].attempts, new.status # "absent",
         new.status = "failed" => new.next # None \/ new.attempts >= MaxAttempts,
         WriteRow(r, new) \/ LoseWrite(p)
  PROVE  BudgetInv'
<1>1. row' = row \/ row' = [row EXCEPT ![r] = new]
  BY DEF WriteRow, LoseWrite
<1>2. \A q \in Records : row'[q] = row[q] \/ (q = r /\ row'[q] = new)
  BY <1>1 DEF TypeOK
<1>3. \A q \in Records : row'[q].attempts >= row[q].attempts
  <2>1. \A q \in Records : row[q].attempts \in Int
    BY DEF TypeOK, Row
  <2> QED BY <1>2, <2>1
<1>4. \A q \in Records : Budgeted(q)'
  BY <1>3, BudgetKept, UnpaidAfter, IdleIsAtWork DEF BudgetInv
<1>5. \A q \in Records : row'[q].status = "absent" => row'[q].attempts = 0
  BY <1>2 DEF BudgetInv
<1>6. \A q \in Records :
        row'[q].status = "failed" => row'[q].next # None \/ row'[q].attempts >= MaxAttempts
  BY <1>2 DEF BudgetInv, RetryOrBudgetSpent
<1> QED BY <1>3, <1>4, <1>5, <1>6, IdleIsAtWork, BudgetSurvives

\* A process moves on and leaves rows and articles as they are.
LEMMA MoveKeepsBudget ==
  ASSUME WorkersAlone, TypeOK, TypeOK', BudgetInv, NEW p \in Procs, NEW l, Goto(p, l),
         p \in Handlers => l.pc \in {"idle", "inserted"},
         p \in Workers => AtWork(l),
         row' = row, \A r \in Records : kis'[r].articles = kis[r].articles,
         l.pc \in {"ingest", "compile"} =>
           l.rec = loc[p].rec /\ loc[p].pc \in {"ingest", "compile"}
  PROVE  BudgetInv'
<1>1. \A r \in Records : row'[r].attempts >= row[r].attempts
  BY DEF TypeOK, Row
<1>2. \A r \in Records : Budgeted(r)'
  BY <1>1, BudgetKept, UnpaidAfter DEF BudgetInv
<1>3. AtWork(l) => AtWork(l)'
  BY DEF AtWork
<1> QED BY <1>1, <1>2, <1>3, BudgetSurvives DEF BudgetInv, RetryOrBudgetSpent

\* A handler inserts a row, which nothing has worked on, and schedules it.
LEMMA HandlersKeepBudget ==
  ASSUME WorkersAlone, TypeOK, TypeOK', BudgetInv, NEW h \in Handlers,
         HandlerContinues(h) \/ \E r \in Records : HandlerStarts(h, r)
  PROVE  BudgetInv'
<1>1. h \in Procs /\ loc[h].pc \in {"idle", "inserted"} /\ loc[h] \in Local
  BY DEF Procs, BudgetInv, TypeOK
<1>2. CASE HandlerContinues(h)
  <2>1. QueueBackground(h)
    <3>1. ~KisCall(h) /\ ~HandlerReport(h)
      BY <1>1 DEF KisCall, KisIngest, KisIngestBreaks, KisCompile, KisFinish, KisError, KisOff,
         Calling, HandlerReport
    <3>2. ~ReindexMark(h) /\ ~RequeueWrite(h) /\ ~ReparseWrite(h)
      BY <1>1 DEF ReindexMark, RequeueWrite, ReparseWrite
    <3>3. ~QueueDisabled(h) /\ ~QueueInline(h)
      BY DEF WorkersAlone, QueueDisabled, QueueInline
    <3> QED BY <1>2, <3>1, <3>2, <3>3 DEF HandlerContinues
  <2>2. /\ loc[h].pc = "inserted" /\ Goto(h, Idle) /\ kis' = kis
        /\ WriteRow(loc[h].rec, Enqueued(row[loc[h].rec])) \/ LoseWrite(h)
    BY <2>1 DEF QueueBackground, Write
  <2>3. CASE loc[h].rec \in Records
    <3>1. PICK r \in Records : r = loc[h].rec
      BY <2>3
    <3>2. Enqueued(row[r]).attempts = row[r].attempts /\ Enqueued(row[r]).status = "pending"
      BY UpdatedAttempts, UpdatedStatus DEF TypeOK
    <3> QED BY <1>1, <2>2, <3>1, <3>2, WriteKeepsBudget
  <2>4. CASE loc[h].rec \notin Records
    <3>1. row' = row
      BY <2>2, <2>4 DEF WriteRow, LoseWrite, TypeOK
    <3> QED BY <1>1, <2>2, <3>1, IdleIsAtWork, MoveKeepsBudget
  <2> QED BY <2>3, <2>4
<1>3. ASSUME NEW r \in Records, HandlerStarts(h, r) PROVE BudgetInv'
  <2>1. Insert(h, r)
    BY <1>3 DEF HandlerStarts, WorkersAlone, ReindexRead, RequeuePick, ReparseRead, Delete
  <2>2. PICK l : l = At("inserted", "queue", r, 1, 0)
    OBVIOUS
  <2>3. l.pc = "inserted" /\ Goto(h, l) /\ kis' = kis /\ row[r].status = "absent"
    BY <2>1, <2>2 DEF Insert, At
  <2>4. row'[r] = FreshRow("pending", 1) /\ \A q \in Records \ {r} : row'[q] = row[q]
    BY <2>1 DEF Insert, TypeOK
  <2>5. row'[r].attempts = 0 /\ row'[r].status = "pending" /\ row[r].attempts = 0
    BY <2>3, <2>4 DEF FreshRow, BudgetInv
  <2>6. \A q \in Records : row'[q].attempts >= row[q].attempts
    BY <2>4, <2>5 DEF TypeOK, Row
  <2>7. \A q \in Records : Budgeted(q)'
    BY <1>1, <2>3, <2>6, BudgetKept, UnpaidAfter DEF BudgetInv
  <2>8. h \notin Workers
    BY ProcsAssumption
  <2> QED BY <1>1, <2>3, <2>4, <2>5, <2>6, <2>7, <2>8, BudgetSurvives
          DEF BudgetInv, RetryOrBudgetSpent
<1> QED BY <1>2, <1>3

\* A claim counts the attempt that the article will use up.
LEMMA ClaimKeepsBudget ==
  ASSUME WorkersAlone, TypeOK, TypeOK', BudgetInv, NEW w \in Workers, NEW r \in Records,
         Claim(w, r)
  PROVE  BudgetInv'
<1>1. w \in Procs /\ w \notin Handlers /\ row[r] \in Row /\ kis[r] \in Knowledge
  BY ProcsAssumption DEF Procs, TypeOK
<1>2. PICK l : l = At("ingest", "queue", r, row[r].content, row'[r].attempts)
  OBVIOUS
<1>3. /\ l.pc = "ingest" /\ l.rec = r /\ l.attempt = row'[r].attempts
      /\ Goto(w, l) /\ kis' = kis /\ loc[w].pc = "idle"
  BY <1>2 DEF At, Claim
<1>4. row'[r] = Claimed(row[r], w) /\ \A q \in Records \ {r} : row'[q] = row[q]
  BY DEF Claim, TypeOK
<1>5. /\ row'[r].attempts = Smaller(row[r].attempts + 1, AttemptCap)
      /\ row'[r].status = "running"
  BY <1>1, <1>4, UpdatedAttempts, UpdatedStatus
<1>6. row[r].attempts \in 0..AttemptCap /\ AttemptCap \in Nat /\ kis[r].articles \in Nat
  BY <1>1, NumbersAssumption DEF Row, Knowledge
<1>7. \A q \in Records : row'[q].attempts >= row[q].attempts
  <2>1. \A q \in Records : row[q].attempts \in Int
    BY DEF TypeOK, Row
  <2> QED BY <1>4, <1>5, <1>6, <2>1 DEF Smaller
<1>8. Budgeted(r)'
  <2>1. Unpaid(r)' = Unpaid(r) \cup {w}
    BY <1>1, <1>3 DEF Goto, TypeOK, Unpaid, Procs
  <2>2. IsFiniteSet(Unpaid(r)) /\ w \notin Unpaid(r)
    BY <1>3, FS_Subset DEF Unpaid, WorkersAlone
  <2>3. Cardinality(Unpaid(r)') = Cardinality(Unpaid(r)) + 1 /\ Cardinality(Unpaid(r)) \in Nat
    BY <2>1, <2>2, FS_AddElement, FS_CardinalityType
  <2> DEFINE n == Cardinality(Unpaid(r))
             m == Cardinality(Unpaid(r)')
  <2>4. m = n + 1 /\ n \in Nat
    BY <2>3
  <2>5. row[r].attempts = AttemptCap \/ kis[r].articles + n <= row[r].attempts
    BY DEF Budgeted, BudgetInv
  <2> HIDE DEF n, m
  <2>6. row'[r].attempts = AttemptCap \/ kis'[r].articles + m <= row'[r].attempts
    BY <1>3, <1>5, <1>6, <2>4, <2>5 DEF Smaller
  <2> QED BY <2>6 DEF Budgeted, m
<1>9. \A q \in Records : Budgeted(q)'
  <2> SUFFICES ASSUME NEW q \in Records, q # r PROVE Budgeted(q)'
    BY <1>8
  <2>1. Unpaid(q)' \subseteq Unpaid(q)
    BY <1>1, <1>3, UnpaidAfter
  <2> QED BY <1>3, <1>7, <2>1, BudgetKept DEF BudgetInv
<1>10. AtWork(l)'
  <2>1. row'[r].attempts \in Int
    BY DEF TypeOK, Row
  <2> QED BY <1>3, <2>1 DEF AtWork, Calling
<1> QED BY <1>1, <1>3, <1>4, <1>5, <1>7, <1>9, <1>10, BudgetSurvives
        DEF BudgetInv, RetryOrBudgetSpent

\* Compiling an article uses up one worker's counted attempt.
LEMMA KisCallKeepsBudget ==
  ASSUME WorkersAlone, TypeOK, TypeOK', BudgetInv, NEW w \in Workers, KisCall(w)
  PROVE  BudgetInv'
<1>1. w \in Procs /\ w \notin Handlers /\ loc[w].pc \in Calling /\ loc[w] \in Local
  BY ProcsAssumption DEF Procs, TypeOK, KisCall, KisIngest, KisIngestBreaks, KisCompile,
     KisFinish, KisError, KisOff, Calling
<1>2. PICK r \in Records : r = loc[w].rec /\ loc[w].attempt <= row[r].attempts
  BY <1>1 DEF BudgetInv, AtWork, Calling
<1>3. row' = row
  BY DEF KisCall, KisIngest, KisIngestBreaks, KisCompile, KisFinish, KisError, KisOff, Outcome
<1>4. \A q \in Records : kis[q] \in Knowledge
  BY DEF TypeOK
<1>5. \A pc, out : /\ [loc[w] EXCEPT !.pc = pc].pc = pc
                   /\ [loc[w] EXCEPT !.pc = pc].rec = r
                   /\ [loc[w] EXCEPT !.pc = pc].attempt = loc[w].attempt
                   /\ [loc[w] EXCEPT !.pc = pc, !.out = out].pc = pc
                   /\ [loc[w] EXCEPT !.pc = pc, !.out = out].rec = r
                   /\ [loc[w] EXCEPT !.pc = pc, !.out = out].attempt = loc[w].attempt
  BY <1>1, <1>2 DEF Local
<1>6. CASE KisIngest(w)
  <2>1. PICK l : l = [loc[w] EXCEPT !.pc = "compile"]
    OBVIOUS
  <2>2. l.pc = "compile" /\ l.rec = r /\ AtWork(l)
    BY <1>2, <1>5, <2>1 DEF AtWork, Calling
  <2>3. Goto(w, l) /\ loc[w].pc = "ingest"
    BY <1>6, <2>1 DEF KisIngest
  <2>4. \A q \in Records : kis'[q].articles = kis[q].articles
    <3>1. CASE kis[r].source = None
      <4>1. kis' = [kis EXCEPT ![r].source = loc[w].content, ![r].chunked = TRUE]
        BY <1>2, <1>6, <3>1 DEF KisIngest
      <4> QED BY <1>4, <4>1 DEF TypeOK, Knowledge
    <3>2. CASE kis[r].source # None
      BY <1>2, <1>6, <3>2 DEF KisIngest
    <3> QED BY <3>1, <3>2
  <2> QED BY <1>1, <1>2, <1>3, <2>2, <2>3, <2>4, MoveKeepsBudget
<1>7. CASE KisIngestBreaks(w)
  <2>1. PICK l : l = [loc[w] EXCEPT !.pc = "report", !.out = "failed"]
    OBVIOUS
  <2>2. l.pc = "report" /\ AtWork(l)
    BY <1>2, <1>5, <2>1 DEF AtWork
  <2>3. PICK some \in BOOLEAN :
          kis' = [kis EXCEPT ![r].source = loc[w].content, ![r].chunked = some]
    BY <1>2, <1>7 DEF KisIngestBreaks
  <2>4. \A q \in Records : kis'[q].articles = kis[q].articles
    BY <1>4, <2>3 DEF TypeOK, Knowledge
  <2>5. Goto(w, l)
    BY <1>7, <2>1 DEF KisIngestBreaks
  <2> QED BY <1>1, <1>3, <2>2, <2>4, <2>5, MoveKeepsBudget
<1>8. CASE KisCompile(w)
  <2>1. PICK l : l = [loc[w] EXCEPT !.pc = "gates"]
    OBVIOUS
  <2>2. l.pc = "gates" /\ l.rec = r /\ AtWork(l)
    BY <1>2, <1>5, <2>1 DEF AtWork, Calling
  <2>3. Goto(w, l) /\ loc[w].pc = "compile"
    BY <1>8, <2>1 DEF KisCompile
  <2> DEFINE a == Smaller(kis[r].articles + 1, ArticleCap)
  <2>4. kis' = [kis EXCEPT ![r].articles = a]
    BY <1>2, <1>8 DEF KisCompile
  <2>5. kis[r].articles \in Nat /\ a \in Int /\ a <= kis[r].articles + 1
    BY <1>4, NumbersAssumption DEF Smaller, Knowledge
  <2> HIDE DEF a
  <2>6. kis'[r].articles = a /\ \A q \in Records \ {r} : kis'[q] = kis[q]
    BY <1>4, <2>4 DEF TypeOK, Knowledge
  <2>7. row[r].attempts \in Int
    BY DEF TypeOK, Row
  <2>8. Budgeted(r)'
    <3>1. Unpaid(r)' = Unpaid(r) \ {w} /\ w \in Unpaid(r)
      BY <1>1, <1>2, <2>2, <2>3 DEF Goto, TypeOK, Unpaid, Procs
    <3>2. IsFiniteSet(Unpaid(r))
      BY FS_Subset DEF Unpaid, WorkersAlone
    <3>3. Cardinality(Unpaid(r)') = Cardinality(Unpaid(r)) - 1 /\ Cardinality(Unpaid(r)) \in Nat
      BY <3>1, <3>2, FS_RemoveElement, FS_CardinalityType
    <3> DEFINE n == Cardinality(Unpaid(r))
               m == Cardinality(Unpaid(r)')
    <3>4. m = n - 1 /\ n \in Nat
      BY <3>3
    <3>5. row[r].attempts = AttemptCap \/ kis[r].articles + n <= row[r].attempts
      BY DEF Budgeted, BudgetInv
    <3> HIDE DEF n, m
    <3>6. row'[r].attempts = AttemptCap \/ kis'[r].articles + m <= row'[r].attempts
      BY <1>3, <2>5, <2>6, <2>7, <3>4, <3>5
    <3> QED BY <3>6 DEF Budgeted, m
  <2>9. \A q \in Records : Budgeted(q)'
    <3> SUFFICES ASSUME NEW q \in Records, q # r PROVE Budgeted(q)'
      BY <2>8
    <3>1. Unpaid(q)' \subseteq Unpaid(q)
      BY <1>1, <2>2, <2>3, UnpaidAfter
    <3>2. row'[q].attempts >= row[q].attempts
      BY <1>3 DEF TypeOK, Row
    <3> QED BY <2>6, <3>1, <3>2, BudgetKept DEF BudgetInv
  <2>10. \A q \in Records : row'[q].attempts >= row[q].attempts
    BY <1>3 DEF TypeOK, Row
  <2>11. AtWork(l)'
    BY <1>3, <2>2 DEF AtWork
  <2> QED BY <1>1, <1>3, <2>3, <2>9, <2>10, <2>11, BudgetSurvives
          DEF BudgetInv, RetryOrBudgetSpent
<1>9. CASE KisFinish(w) \/ KisError(w) \/ KisOff(w)
  <2>1. PICK out : Outcome(w, out)
    BY <1>9 DEF KisFinish, KisError, KisOff
  <2>2. PICK l : l = [loc[w] EXCEPT !.pc = "report", !.out = out]
    OBVIOUS
  <2>3. l.pc = "report" /\ AtWork(l)
    BY <1>2, <1>5, <2>2 DEF AtWork
  <2>4. Goto(w, l) /\ kis' = kis
    BY <2>1, <2>2 DEF Outcome
  <2> QED BY <1>1, <1>3, <2>3, <2>4, MoveKeepsBudget
<1> QED BY <1>6, <1>7, <1>8, <1>9 DEF KisCall

\* A worker that gives an attempt up for good reports an attempt the row has counted.
LEMMA ReportKeepsBudget ==
  ASSUME WorkersAlone, TypeOK, TypeOK', BudgetInv, NEW w \in Workers, WorkerReport(w)
  PROVE  BudgetInv'
<1>1. w \in Procs /\ loc[w].pc = "report" /\ loc[w] \in Local
  BY DEF Procs, WorkerReport, TypeOK
<1>2. PICK r \in Records : r = loc[w].rec /\ loc[w].attempt <= row[r].attempts
  BY <1>1 DEF BudgetInv, AtWork
<1>3. /\ row[r] \in Row /\ row[r].attempts \in Int /\ loc[w].attempt \in Nat
      /\ loc[w].out \in {"indexed", "failed", "disabled"}
  BY <1>1, NumbersAssumption DEF TypeOK, Row, Local
<1> DEFINE new == IF loc[w].out = "failed" THEN AttemptFailed(row[r], loc[w].attempt)
                  ELSE Settled(row[r], loc[w].out)
<1>4. new.attempts = row[r].attempts /\ new.status = loc[w].out
  BY <1>3, UpdatedAttempts, UpdatedStatus
<1>5. new.status = "failed" => new.next # None \/ new.attempts >= MaxAttempts
  <2>1. SUFFICES ASSUME loc[w].out = "failed"
                 PROVE  \/ AttemptFailed(row[r], loc[w].attempt).next # None
                        \/ row[r].attempts >= MaxAttempts
    BY <1>4
  <2> QED BY <1>2, <1>3, UpdatedAttempts, NumbersAssumption
<1>6. Goto(w, Idle) /\ kis' = kis /\ (WriteRow(r, new) \/ LoseWrite(w))
  BY <1>2 DEF WorkerReport, Write
<1> HIDE DEF new
<1> QED BY <1>1, <1>3, <1>4, <1>5, <1>6, WriteKeepsBudget

LEMMA CrashTickKeepBudget ==
  ASSUME WorkersAlone, TypeOK, TypeOK', BudgetInv, (\E p \in Procs : Crash(p)) \/ Tick
  PROVE  BudgetInv'
<1>1. ASSUME NEW p \in Procs, Crash(p) PROVE BudgetInv'
  BY <1>1, IdleIsAtWork, MoveKeepsBudget DEF Crash
<1>2. CASE Tick
  <2>1. UNCHANGED <<loc, kis>>
    BY <1>2 DEF Tick
  <2>2. ASSUME NEW r \in Records
        PROVE  /\ row'[r].attempts = row[r].attempts /\ row'[r].status = row[r].status
               /\ row[r].next # None => row'[r].next # None
    BY <1>2, UpdatedAttempts, UpdatedStatus DEF Tick, TypeOK
  <2>3. \A w \in Workers : AtWork(loc[w])'
    BY <2>1, <2>2 DEF AtWork, BudgetInv
  <2>4. \A r \in Records : Budgeted(r)'
    BY <2>1, <2>2 DEF Budgeted, BudgetInv, Unpaid
  <2>5. RetryOrBudgetSpent'
    BY <2>2 DEF RetryOrBudgetSpent, BudgetInv
  <2>6. \A r \in Records : row'[r].status = "absent" => row'[r].attempts = 0
    BY <2>2 DEF BudgetInv
  <2> QED BY <2>1, <2>3, <2>4, <2>5, <2>6 DEF BudgetInv
<1> QED BY <1>1, <1>2

LEMMA InitBudget ==
  ASSUME WorkersAlone, Init
  PROVE  BudgetInv
<1>1. ASSUME NEW r \in Records
      PROVE  row[r].status \in {"absent", "not_started"} /\ row[r].attempts = 0
  <2>1. row[r] \in {FreshRow("absent", 0), FreshRow("not_started", 1)}
    BY DEF Init
  <2>2. /\ FreshRow("absent", 0).status = "absent" /\ FreshRow("absent", 0).attempts = 0
        /\ FreshRow("not_started", 1).status = "not_started"
        /\ FreshRow("not_started", 1).attempts = 0
    BY DEF FreshRow
  <2> QED BY <2>1, <2>2
<1>2. \A p \in Procs : loc[p].pc = "idle"
  BY IdleIsAtWork DEF Init
<1>3. ASSUME NEW r \in Records PROVE Budgeted(r)
  <2>1. Unpaid(r) = {}
    BY <1>2 DEF Unpaid, Procs
  <2>2. Cardinality(Unpaid(r)) = 0
    BY <2>1, FS_EmptySet
  <2>3. kis[r].articles = 0
    BY DEF Init
  <2> QED BY <1>1, <2>2, <2>3 DEF Budgeted
<1> QED BY <1>1, <1>2, <1>3 DEF BudgetInv, AtWork, RetryOrBudgetSpent, Procs

\* Where background workers alone index, a failed record waits for a scheduled attempt or
\* has used its attempts up, and KIS never compiled more articles for it than the queue
\* counted attempts, across crashes, expired leases and lost reports
\* (claim_next_kis_index_record, process_queued_kis_index_record).
THEOREM AttemptsPay ==
  ASSUME WorkersAlone
  PROVE  Spec => []AttemptsAreCounted
<1>1. Init => BudgetInv
  BY InitBudget
<1>2. TypeOK /\ BudgetInv /\ [Next]_vars => BudgetInv'
  <2> SUFFICES ASSUME TypeOK, BudgetInv, [Next]_vars PROVE BudgetInv'
    OBVIOUS
  <2>1. TypeOK'
    BY NextTypes
  <2>2. ASSUME NEW w \in Workers, WorkerNext(w) PROVE BudgetInv'
    BY <2>1, <2>2, ClaimKeepsBudget, KisCallKeepsBudget, ReportKeepsBudget DEF WorkerNext
  <2>3. ASSUME NEW h \in Handlers,
               HandlerContinues(h) \/ \E r \in Records : HandlerStarts(h, r)
        PROVE  BudgetInv'
    BY <2>1, <2>3, HandlersKeepBudget
  <2>4. CASE (\E p \in Procs : Crash(p)) \/ Tick
    BY <2>1, <2>4, CrashTickKeepBudget
  <2>5. CASE UNCHANGED vars
    BY <2>5 DEF vars, BudgetInv, AtWork, RetryOrBudgetSpent, Budgeted, Unpaid
  <2> QED BY <2>2, <2>3, <2>4, <2>5 DEF Next
<1>3. TypeOK /\ BudgetInv => AttemptsAreCounted
  <2> SUFFICES ASSUME TypeOK, BudgetInv, NEW r \in Records
               PROVE  kis[r].articles <= row[r].attempts
    BY DEF AttemptsAreCounted, AttemptsPayForArticles, BudgetInv
  <2>1. IsFiniteSet(Unpaid(r))
    BY FS_Subset DEF Unpaid, WorkersAlone
  <2>2. PICK n \in Nat : n = Cardinality(Unpaid(r))
    BY <2>1, FS_CardinalityType
  <2>3. /\ kis[r].articles \in 0..ArticleCap /\ row[r].attempts \in Int
        /\ row[r].attempts = AttemptCap \/ kis[r].articles + n <= row[r].attempts
    BY <2>2 DEF TypeOK, Knowledge, Row, BudgetInv, Budgeted
  <2> QED BY <2>3, NumbersAssumption DEF WorkersAlone
<1> QED BY <1>1, <1>2, <1>3, TypeCorrect, PTL DEF Spec
=============================================================================
