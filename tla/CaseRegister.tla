---------------------------- MODULE CaseRegister ----------------------------
(***************************************************************************)
(* The register of cases (cases.py) and its copy in CCTNS, the police      *)
(* records system the code reaches over HTTP (cctns.py).                   *)
(*                                                                         *)
(* A request runs in one database transaction that commits when it ends    *)
(* (database.get_db), at READ COMMITTED: each query sees what others have  *)
(* committed by then, a row it inserted is seen by nobody, and an update   *)
(* sets the columns the request changed, whatever else happened to the row *)
(* since it was read.  CCTNS is called in the middle of the transaction.   *)
(*                                                                         *)
(* Numbers are reduced to their sequence part: every number is of the same *)
(* year.                                                                   *)
(***************************************************************************)
EXTENDS Integers, FiniteSets, FiniteSetsExt

CONSTANTS
  Cases,       \* case ids
  Handlers,    \* requests that can be in progress at a time
  Stations,    \* police stations
  Lettered,    \* the stations whose code consists of letters only
  None,        \* SQL NULL
  Forms,       \* the cases clients submit, with the numbers they supply themselves
  Asked,       \* the statuses clients ask for
  CctnsUrl,    \* whether CCTNS_SYNC_URL is set
  SyncTries,   \* CCTNS_MAX_ATTEMPTS
  MaxSeq,      \* the largest number of four digits
  MaxRequests, \* bound: requests in a behaviour
  MaxAborts    \* bound: requests that fail before they commit

ASSUME CaseConstants ==
  /\ Lettered \subseteq Stations
  /\ MaxSeq \in Nat \ {0}
  /\ CctnsUrl \in BOOLEAN
  /\ SyncTries \in Nat \ {0} /\ MaxRequests \in Nat /\ MaxAborts \in Nat

VARIABLES
  cases,   \* cases[c]: the committed row of case c, or None
  loc,     \* loc[h]: the request h is working on
  cctns,   \* the cases CCTNS has taken, once or more often
  shaken,  \* history: stations whose cases were numbered or moved in overlapping requests
  begun,   \* requests so far
  aborts   \* requests that failed before they committed

vars == <<cases, loc, cctns, shaken, begun, aborts>>

\* From every status the statuses that may follow it.
ValidTransitions(status) ==
  CASE status = "Complaint_Received"   -> {"FIR_Registered", "Closed_No_FIR"}
    [] status = "FIR_Registered"       -> {"Under_Investigation"}
    [] status = "Under_Investigation"  -> {"Charge_Sheet_Filed", "Closure_Report_Filed", "Transferred"}
    [] status = "Charge_Sheet_Filed"   -> {"Court_Proceedings"}
    [] status = "Closure_Report_Filed" -> {"Disposed"}
    [] status = "Court_Proceedings"    -> {"Disposed"}
    [] OTHER -> {}

Statuses == {"Complaint_Received", "FIR_Registered", "Under_Investigation",
             "Charge_Sheet_Filed", "Closure_Report_Filed", "Court_Proceedings",
             "Disposed", "Transferred", "Closed_No_FIR"}

Places == Stations \cup {None}
Seqs == 1..MaxSeq

Types == {"FIR", "Suo_Motu", "Petition"}

\* A petition number carries the code of the station that issued it.
Petitions == [code : Places, seq : Seqs]

Form == [type : Types, crime : Seqs \cup {None}, petition : Petitions \cup {None},
         station : Places]

ASSUME FormsAssumption == Forms \subseteq Form

CaseRow == [type : Types, crime : Seqs \cup {None}, petition : Petitions \cup {None},
            station : Places, status : Statuses, sync : {"Pending", "Synced", "Failed"},
            known : BOOLEAN]

ASSUME NoneIsNothing == None \notin Cases \cup Stations \cup Nat \cup CaseRow

\* known: cctns_case_id is set.
NewCase(type, crime, petition, station) ==
  [type |-> type, crime |-> crime, petition |-> petition, station |-> station,
   status |-> "Complaint_Received", sync |-> "Pending", known |-> FALSE]

Blank == NewCase("FIR", None, None, None)

Idle == [pc |-> "idle"]

\* Kinds of request: "create" (pc number, check, post, commit), "retry" (post, commit),
\* "move" and "status" (commit).  draft holds the columns the request is going to write.
Request(op, pc, c, draft) ==
  [pc |-> pc, op |-> op, case |-> c, draft |-> draft, tries |-> 0, fresh |-> TRUE]

Busy(h) == loc[h].pc # "idle"
Doing(h, op, pc) == Busy(h) /\ loc[h].op = op /\ loc[h].pc = pc

Goto(h, l) == loc' = [loc EXCEPT ![h] = l]

\* A request begins; what it reads first it reads now.
Begin(h) == ~Busy(h) /\ begun < MaxRequests /\ begun' = begun + 1

Committed == {c \in Cases : cases[c] # None}
CasesOf(s) == {c \in Committed : cases[c].station = s}

Unused(c) ==
  /\ cases[c] = None /\ c \notin cctns
  /\ \A h \in Handlers : Busy(h) => loc[h].case # c

-----------------------------------------------------------------------------
\* Numbers.

\* The sequence numbers the committed cases of a station have used.
UsedSeqs(s, type) ==
  IF type = "Petition"
  THEN {cases[c].petition.seq : c \in {d \in CasesOf(s) : cases[d].petition # None
                                                        /\ cases[d].petition.code = s}}
  ELSE {cases[c].crime : c \in {d \in CasesOf(s) : cases[d].crime # None}}

\* One more than the largest.
NextStationSequence(s, type) == Max({0} \cup UsedSeqs(s, type)) + 1

\* Another request is numbering a case of the same station.
Numbering(h, s) ==
  \E g \in Handlers \ {h} :
    Busy(g) /\ loc[g].op = "create" /\ loc[g].draft.station = s

-----------------------------------------------------------------------------
\* POST /cases.

\* A number the client supplies is taken as it is; a missing one is generated.
BeginCreate(h, c) ==
  \E form \in Forms :
    LET draft == NewCase(form.type, form.crime, form.petition, form.station)
        number == IF form.type = "Petition" THEN form.petition ELSE form.crime
    IN /\ Begin(h) /\ Unused(c)
       /\ Goto(h, Request("create", IF number = None THEN "number" ELSE "check", c, draft))
       /\ shaken' = IF Numbering(h, form.station) THEN shaken \cup {form.station} ELSE shaken
       /\ UNCHANGED <<cases, cctns, aborts>>

\* generate_case_identifiers: one more than the largest number among the committed cases.
\* A generated number of five digits, or one with a digit in its code, is then invalid.
GenerateNumber(h) ==
  LET draft == loc[h].draft
      s == draft.station
      seq == NextStationSequence(s, draft.type)
      valid == s # None /\ seq <= MaxSeq /\ (draft.type = "Petition" => s \in Lettered)
      numbered == IF draft.type = "Petition"
                  THEN [draft EXCEPT !.petition = [code |-> s, seq |-> seq]]
                  ELSE [draft EXCEPT !.crime = seq]
  IN /\ Doing(h, "create", "number")
     /\ Goto(h, IF valid THEN [loc[h] EXCEPT !.pc = "check", !.draft = numbered] ELSE Idle)
     /\ UNCHANGED <<cases, cctns, shaken, begun, aborts>>

\* The request goes on to CCTNS if that is configured.
AfterCheck == IF CctnsUrl THEN "post" ELSE "commit"

\* Mutant: the uniqueness check is left to the numbering.
EnsureUniqueCrimeNoSkipped(h) ==
  /\ Doing(h, "create", "check")
  /\ Goto(h, [loc[h] EXCEPT !.pc = AfterCheck])
  /\ UNCHANGED <<cases, cctns, shaken, begun, aborts>>

\* _ensure_unique_crime_no, then the row is inserted, unseen until the commit.  Nothing
\* checks petition numbers.
EnsureUniqueCrimeNo(h) ==
  LET draft == loc[h].draft
      taken == draft.crime # None /\ \E d \in CasesOf(draft.station) : cases[d].crime = draft.crime
  IN /\ Doing(h, "create", "check")
     /\ Goto(h, IF taken THEN Idle ELSE [loc[h] EXCEPT !.pc = AfterCheck])
     /\ UNCHANGED <<cases, cctns, shaken, begun, aborts>>

-----------------------------------------------------------------------------
\* sync_case_metadata, for a new case and for a retry.

\* CCTNS takes the case and answers, with an id or without.
PostAnswered(h) ==
  LET l == loc[h] IN
  /\ Busy(h) /\ l.pc = "post"
  /\ cctns' = cctns \cup {l.case}
  /\ \E id \in BOOLEAN :
       Goto(h, [l EXCEPT !.pc = "commit", !.draft.sync = "Synced", !.draft.known = (@ \/ id)])
  /\ UNCHANGED <<cases, shaken, begun, aborts>>

\* CCTNS is out of reach, or takes the case and its answer is lost.
PostFailed(h) ==
  LET l == loc[h]
      last == l.tries + 1 = SyncTries
  IN /\ Busy(h) /\ l.pc = "post"
     /\ cctns' \in {cctns, cctns \cup {l.case}}
     /\ Goto(h, IF last THEN [l EXCEPT !.pc = "commit", !.draft.sync = "Failed"]
                ELSE [l EXCEPT !.tries = @ + 1])
     /\ UNCHANGED <<cases, shaken, begun, aborts>>

\* Mutant: a crime number is looked up only after CCTNS has been told.
CommitCreateOrRefuse(h) ==
  LET draft == loc[h].draft
      taken == draft.crime # None /\ \E d \in CasesOf(draft.station) : cases[d].crime = draft.crime
  IN /\ Doing(h, "create", "commit")
     /\ cases' = IF taken THEN cases ELSE [cases EXCEPT ![loc[h].case] = draft]
     /\ Goto(h, Idle)
     /\ UNCHANGED <<cctns, shaken, begun, aborts>>

\* The new row becomes visible.
CommitCreate(h) ==
  /\ Doing(h, "create", "commit")
  /\ cases' = [cases EXCEPT ![loc[h].case] = loc[h].draft]
  /\ Goto(h, Idle)
  /\ UNCHANGED <<cctns, shaken, begun, aborts>>

\* POST /cases/seed-demo: a petition of no station with a number of its own, every time.
SeedDemo(h, c) ==
  /\ Begin(h) /\ Unused(c)
  /\ cases' = [cases EXCEPT ![c] = NewCase("Petition", None, [code |-> None, seq |-> 1], None)]
  /\ UNCHANGED <<loc, cctns, shaken, aborts>>

\* POST /cases/{id}/cctns/retry, of any case in any state.
BeginRetry(h, c) ==
  /\ Begin(h) /\ c \in Committed
  /\ Goto(h, Request("retry", AfterCheck, c, Blank))
  /\ UNCHANGED <<cases, cctns, shaken, aborts>>

\* The retry writes its outcome; an id is written only when CCTNS sent one.
CommitRetry(h) ==
  LET c == loc[h].case IN
  /\ Doing(h, "retry", "commit")
  /\ cases' = [cases EXCEPT ![c].sync = loc[h].draft.sync, ![c].known = (@ \/ loc[h].draft.known)]
  /\ Goto(h, Idle)
  /\ UNCHANGED <<cctns, shaken, begun, aborts>>

-----------------------------------------------------------------------------
\* PUT /cases/{id}: of the columns it may set, only the station matters here.  The move
\* is not checked against the numbers of the other station.
BeginMove(h, c) ==
  /\ Begin(h) /\ c \in Committed
  /\ \E s \in Stations \ {cases[c].station} :
       Goto(h, Request("move", "commit", c, [Blank EXCEPT !.station = s]))
  /\ UNCHANGED <<cases, cctns, shaken, aborts>>

CommitMove(h) ==
  LET c == loc[h].case IN
  /\ Doing(h, "move", "commit")
  /\ cases' = [cases EXCEPT ![c].station = loc[h].draft.station]
  /\ shaken' = IF cases'[c].station # cases[c].station
               THEN shaken \cup {cases[c].station, cases'[c].station} ELSE shaken
  /\ Goto(h, Idle)
  /\ UNCHANGED <<cctns, begun, aborts>>

-----------------------------------------------------------------------------
\* PATCH /cases/{id}/status.

\* Mutants: a petition is registered without a crime number; the table is not consulted.
MayBecomeUnnumbered(c, status) == status \in ValidTransitions(cases[c].status)

MayBecomeAnything(c, status) == status = "FIR_Registered" => cases[c].crime # None

MayBecome(c, status) ==
  /\ status \in ValidTransitions(cases[c].status)
  /\ status = "FIR_Registered" => cases[c].crime # None

\* The row is read and the transition checked.
BeginTransition(h, c) ==
  \E status \in Asked :
    /\ Begin(h) /\ c \in Committed
    /\ MayBecome(c, status)
    /\ Goto(h, Request("status", "commit", c, [Blank EXCEPT !.status = status]))
    /\ UNCHANGED <<cases, cctns, shaken, aborts>>

\* The new status is written, over whatever status the case has by now.  Other requests
\* that have read the old one are no longer fresh.
CommitTransition(h) ==
  LET c == loc[h].case IN
  /\ Doing(h, "status", "commit")
  /\ cases' = [cases EXCEPT ![c].status = loc[h].draft.status]
  /\ loc' = [g \in Handlers |->
               IF g = h THEN Idle
               ELSE IF Doing(g, "status", "commit") /\ loc[g].case = c
                    THEN [loc[g] EXCEPT !.fresh = FALSE] ELSE loc[g]]
  /\ UNCHANGED <<cctns, shaken, begun, aborts>>

-----------------------------------------------------------------------------
\* The process dies or the database refuses the commit: the transaction is rolled back,
\* what CCTNS was told stays.
Abort(h) ==
  /\ Busy(h) /\ aborts < MaxAborts
  /\ aborts' = aborts + 1
  /\ Goto(h, Idle)
  /\ UNCHANGED <<cases, cctns, shaken, begun>>

Init ==
  /\ cases = [c \in Cases |-> None]
  /\ loc = [h \in Handlers |-> Idle]
  /\ cctns = {}
  /\ shaken = {}
  /\ begun = 0
  /\ aborts = 0

Begins(h, c) ==
  \/ BeginCreate(h, c) \/ SeedDemo(h, c) \/ BeginRetry(h, c)
  \/ BeginMove(h, c) \/ BeginTransition(h, c)

Continues(h) ==
  \/ GenerateNumber(h) \/ EnsureUniqueCrimeNo(h)
  \/ PostAnswered(h) \/ PostFailed(h)
  \/ CommitCreate(h) \/ CommitRetry(h) \/ CommitMove(h) \/ CommitTransition(h)

Next ==
  \/ \E h \in Handlers, c \in Cases : Begins(h, c)
  \/ \E h \in Handlers : Continues(h) \/ Abort(h)

Spec == Init /\ [][Next]_vars

-----------------------------------------------------------------------------
\* Properties.

RequestType ==
  [pc : {"number", "check", "post", "commit"}, op : {"create", "retry", "move", "status"},
   case : Cases, draft : CaseRow, tries : 0..(SyncTries - 1), fresh : BOOLEAN]

TypeOK ==
  /\ cases \in [Cases -> CaseRow \cup {None}]
  /\ loc \in [Handlers -> RequestType \cup {Idle}]
  /\ cctns \subseteq Cases
  /\ shaken \subseteq Places
  /\ begun \in 0..MaxRequests /\ aborts \in 0..MaxAborts

Registered == Statuses \ {"Complaint_Received", "Closed_No_FIR"}

\* A case that has gone past registration has a crime number, whichever requests raced.
FirHasNumber ==
  \A c \in Committed : cases[c].status \in Registered => cases[c].crime # None

\* A case marked as synced, or that carries an id of CCTNS, is one CCTNS has taken.
SyncedIsKnown ==
  \A c \in Committed : cases[c].sync = "Synced" \/ cases[c].known => c \in cctns

SameCrime(c, d) ==
  /\ c # d /\ cases[c].station = cases[d].station
  /\ cases[c].crime # None /\ cases[c].crime = cases[d].crime

\* Crime numbers are unique in every station where no two registrations overlapped and
\* no case was moved in or out: supplied and generated numbers together.
UniqueUnlessShaken ==
  \A c, d \in Committed : SameCrime(c, d) => cases[c].station \in shaken

\* As long as no request failed half way, CCTNS knows only cases that are registered or
\* about to be: a request that is refused has not told CCTNS yet.
NoStrayCctnsCase ==
  aborts = 0 =>
    \A c \in cctns :
      c \in Committed \/ \E h \in Handlers : Busy(h) /\ loc[h].case = c

\* The register and CCTNS agree on what CCTNS has, through lost answers, retries and
\* refused requests.
CctnsAgrees == SyncedIsKnown /\ NoStrayCctnsCase

\* A status request that still knows the status of its case moves it along the table.
FreshMovesFollowTable ==
  [][\A h \in Handlers :
       CommitTransition(h) /\ loc[h].fresh =>
         LET c == loc[h].case IN cases'[c].status \in ValidTransitions(cases[c].status)]_vars

=============================================================================
