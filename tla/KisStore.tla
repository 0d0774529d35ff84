------------------------------ MODULE KisStore ------------------------------
(***************************************************************************)
(* How the knowledge service keeps its in-memory store in the database:    *)
(* after each successful mutating request StorePersistenceMiddleware       *)
(* writes the whole store into one row, and a start reads that row.        *)
(*                                                                         *)
(* One process serves the requests on one event loop.  A handler changes   *)
(* the store in one step; the persistence after it waits three times, for  *)
(* the row, for the write and for the commit, and requests interleave      *)
(* there.  The contents of the store are the requests that went into it.   *)
(*                                                                         *)
(* Names that KisKnowledge has too begin with Store here: the proofs are   *)
(* about both modules.                                                     *)
(***************************************************************************)
EXTENDS Integers, FiniteSets

CONSTANTS
  Requests,         \* mutating requests
  RequireDatabase,  \* KIS_REQUIRE_DATABASE: the service does not start without its database
  MaxStarts         \* bound: starts after the first one

ASSUME StoreAssumption ==
  /\ RequireDatabase \in BOOLEAN
  /\ MaxStarts \in Nat

VARIABLES
  memory,  \* the requests in the store
  rows,    \* the table kis_state_snapshots: the payload of its one row, or nothing
  loc,     \* loc[r]: where request r is
  starts,  \* starts after the first one
  base,    \* history: base[r]: what was in memory when r was handled
  quiet,   \* history: requests whose persistence overlapped with no other
  blind,   \* history: some start did not read the row
  past     \* history: what was in memory in this life, and the copy it began with

storeVars == <<memory, rows, loc, starts, base, quiet, blind, past>>

Ahead == [pc |-> "ahead"]        \* not sent yet
Persisted == [pc |-> "answered"]  \* answered after its persistence
Unsaved == [pc |-> "unsaved"]    \* answered, but not persisted
Lost == [pc |-> "lost"]          \* not answered

Persisting == {r \in Requests : loc[r].pc \in {"handled", "read", "written"}}

Goto(r, place) == loc' = [loc EXCEPT ![r] = place]

-----------------------------------------------------------------------------
\* The handler.  It may also refuse, after it changed something: then there is no copy.
Handle(r) ==
  /\ loc[r] = Ahead
  /\ memory' = memory \cup {r}
  /\ base' = [base EXCEPT ![r] = memory]
  /\ past' = past \cup {memory'}
  /\ \/ /\ Goto(r, [pc |-> "handled"])
        /\ quiet' = IF Persisting = {} THEN quiet \cup {r} ELSE quiet \ Persisting
     \/ /\ Goto(r, Unsaved)
        /\ quiet' = quiet
  /\ UNCHANGED <<rows, starts, blind>>

\* session.get: the row is read, the answer is awaited.
Read(r) ==
  /\ loc[r].pc = "handled"
  /\ Goto(r, [pc |-> "read", seen |-> rows])
  /\ UNCHANGED <<memory, rows, starts, base, quiet, blind, past>>

\* Mutant: only what this request did is added to what was read.
ExportOwn(r) ==
  /\ loc[r].pc = "read"
  /\ Goto(r, [pc |-> "written", seen |-> loc[r].seen,
              payload |-> {r} \cup UNION loc[r].seen])
  /\ UNCHANGED <<memory, rows, starts, base, quiet, blind, past>>

\* Mutant: the payload is what the store was before the handler ran.
ExportBefore(r) ==
  /\ loc[r].pc = "read"
  /\ Goto(r, [pc |-> "written", seen |-> loc[r].seen, payload |-> base[r]])
  /\ UNCHANGED <<memory, rows, starts, base, quiet, blind, past>>

\* The store is copied when the row has been read.
Export(r) ==
  /\ loc[r].pc = "read"
  /\ Goto(r, [pc |-> "written", seen |-> loc[r].seen, payload |-> memory])
  /\ UNCHANGED <<memory, rows, starts, base, quiet, blind, past>>

\* An insert fails if the row is there by now; an update of an equal payload writes nothing.
Commit(r) ==
  /\ loc[r].pc = "written"
  /\ LET seen == loc[r].seen  payload == loc[r].payload IN
     IF seen = {} /\ rows # {} THEN rows' = rows /\ Goto(r, Unsaved)
     ELSE rows' = (IF seen = {payload} THEN rows ELSE {payload}) /\ Goto(r, Persisted)
  /\ UNCHANGED <<memory, starts, base, quiet, blind, past>>

\* An error of the database is noted in app.state and the request is answered all the same.
Swallow(r) ==
  /\ r \in Persisting
  /\ Goto(r, Unsaved)
  /\ UNCHANGED <<memory, rows, starts, base, quiet, blind, past>>

\* The process ends, with requests in progress or without, and starts again: lifespan
\* reads the row, unless the database is not ready and not required.
Start ==
  /\ starts < MaxStarts
  /\ starts' = starts + 1
  /\ \/ memory' = UNION rows /\ blind' = blind
     \/ ~RequireDatabase /\ memory' = {} /\ blind' = TRUE
  /\ past' = {memory', UNION rows}
  /\ loc' = [r \in Requests |-> IF r \in Persisting THEN Lost ELSE loc[r]]
  /\ UNCHANGED <<rows, base, quiet>>

-----------------------------------------------------------------------------
StoreInit ==
  /\ memory = {} /\ rows = {}
  /\ loc = [r \in Requests |-> Ahead]
  /\ starts = 0
  /\ base = [r \in Requests |-> {}]
  /\ quiet = {} /\ blind = FALSE
  /\ past = {{}}

StoreNext ==
  \/ \E r \in Requests : Handle(r) \/ Read(r) \/ Export(r) \/ Commit(r) \/ Swallow(r)
  \/ Start

StoreSpec == StoreInit /\ [][StoreNext]_storeVars

-----------------------------------------------------------------------------
\* Properties.

Payloads == SUBSET Requests
Tables == {{}} \cup {{p} : p \in Payloads}

Places ==
  {Ahead, Persisted, Unsaved, Lost}
    \cup [pc : {"handled"}]
    \cup [pc : {"read"}, seen : Tables]
    \cup [pc : {"written"}, seen : Tables, payload : Payloads]

StoreTypeOK ==
  /\ memory \in Payloads
  /\ rows \in Tables
  /\ loc \in [Requests -> Places]
  /\ starts \in 0..MaxStarts
  /\ base \in [Requests -> Payloads]
  /\ quiet \subseteq Requests
  /\ blind \in BOOLEAN
  /\ past \subseteq Payloads

\* The row is never a mixture: with what a request did it has everything that request
\* found in memory, so that a start never brings back an object without those it names.
SavedIsClosed == \A payload \in rows : \A r \in payload : base[r] \subseteq payload

\* What a request did is in the row for good once the request was answered after a
\* persistence that overlapped with no other; overlapping ones may write an older copy
\* over a newer one, and so may a start that did not read the row.
QuietlySavedStays ==
  ~blind =>
    \A r \in quiet : loc[r] = Persisted => r \in UNION rows

\* The protocol keeps the promise of DurableCopy.
Copy == INSTANCE DurableCopy WITH
  Contents <- SUBSET Requests, Empty <- {}, copy <- UNION rows

KeepsACopy == Copy!Spec

=============================================================================
