----------------------------- MODULE AuditTrail -----------------------------
(***************************************************************************)
(* The audit log of audit.py: each entry carries the hash of the entry     *)
(* before it, and verify_audit_chain follows these links.                  *)
(*                                                                         *)
(* An entry is appended inside somebody's transaction: the handler's own,  *)
(* which commits when the request ends, or the one of AuditMiddleware,     *)
(* which appends an entry of its own after the handler has answered.       *)
(* Writers stand for both; an entry is seen by others once its transaction *)
(* has committed.  A hash is represented by the entry it is the hash of.   *)
(* All processes are assumed to read one clock.                            *)
(***************************************************************************)
EXTENDS Integers, FiniteSets, FiniteSetsExt

CONSTANTS
  Entries,     \* ids of audit entries
  Writers,     \* transactions that can append an entry at the same time
  None,        \* no hash
  Window,      \* how many of the latest entries are searched for a hash
  MaxLegacy,   \* bound: entries from before hashes were introduced
  MaxClock,    \* bound: timestamps taken
  Retention    \* whether expired entries are ever purged

ASSUME AuditAssumption ==
  /\ None \notin Entries
  /\ Window \in Nat \ {0} /\ MaxLegacy \in Nat /\ MaxClock \in Nat
  /\ Retention \in BOOLEAN

VARIABLES
  log,      \* the committed entries: a function from their ids to the columns that matter
  loc,      \* loc[w]: the transaction w is in
  clock,    \* timestamps taken so far
  gone,     \* history: entries that were purged
  alone     \* history: entries appended while no other append was in progress

vars == <<log, loc, clock, gone, alone>>

Idle == [pc |-> "idle"]

\* "linked" has read the hash to link to, "flushed" has inserted its entry.
Transaction(pc, e, previous, time) ==
  [pc |-> pc, entry |-> e, row |-> [previous |-> previous, hashed |-> TRUE, time |-> time]]

Busy(w) == loc[w].pc # "idle"

Logged == DOMAIN log
Hashed == {e \in Logged : log[e].hashed}

Before(e, f) == log[e].time < log[f].time

Latest(S) == CHOOSE e \in S : \A f \in S \ {e} : Before(f, e)

-----------------------------------------------------------------------------
\* Mutant: the oldest hash is taken.
OldestAuditHash ==
  IF Hashed = {} THEN None ELSE CHOOSE e \in Hashed : \A f \in Hashed \ {e} : Before(e, f)

\* The hash of the latest hashed entry among the last ones.
LatestAuditHash ==
  LET recent == {e \in Hashed : Cardinality({f \in Logged : Before(e, f)}) < Window}
  IN IF recent = {} THEN None ELSE Latest(recent)

\* log_audit_event first reads the hash to link to.
Link(w, e) ==
  /\ ~Busy(w)
  /\ e \notin Logged \cup gone
  /\ \A v \in Writers : Busy(v) => loc[v].entry # e
  /\ loc' = [loc EXCEPT ![w] = Transaction("linked", e, LatestAuditHash, 0)]
  /\ alone' = IF \A v \in Writers : ~Busy(v) THEN alone \cup {e}
              ELSE alone \ {loc[v].entry : v \in {u \in Writers : Busy(u)}}
  /\ UNCHANGED <<log, clock, gone>>

\* Then it takes the time, and inserts and hashes the entry.
Append(w) ==
  /\ loc[w].pc = "linked" /\ clock < MaxClock
  /\ clock' = clock + 1
  /\ loc' = [loc EXCEPT ![w].pc = "flushed", ![w].row.time = clock + 1]
  /\ UNCHANGED <<log, gone, alone>>

Commit(w) ==
  /\ loc[w].pc = "flushed"
  /\ log' = [e \in Logged \cup {loc[w].entry} |-> IF e \in Logged THEN log[e] ELSE loc[w].row]
  /\ loc' = [loc EXCEPT ![w] = Idle]
  /\ UNCHANGED <<clock, gone, alone>>

\* The transaction fails, in the handler or in the audit code: no entry.
Rollback(w) ==
  /\ Busy(w)
  /\ alone' = alone \ {loc[w].entry}
  /\ loc' = [loc EXCEPT ![w] = Idle]
  /\ UNCHANGED <<log, clock, gone>>

\* purge_expired_audit_logs deletes what is older than the cutoff.
Purge ==
  /\ Retention
  /\ \E cutoff \in 1..clock :
       LET expired == {e \in Logged : log[e].time < cutoff} IN
       /\ expired # {}
       /\ log' = [e \in Logged \ expired |-> log[e]]
       /\ gone' = gone \cup expired
  /\ UNCHANGED <<loc, clock, alone>>

-----------------------------------------------------------------------------
\* Entries from before the migration have no hashes.
Init ==
  /\ \E legacy \in {S \in SUBSET Entries : IsFiniteSet(S) /\ Cardinality(S) <= MaxLegacy} :
       \E time \in [legacy -> 1..Cardinality(legacy)] :
         /\ \A e, f \in legacy : e # f => time[e] # time[f]
         /\ log = [e \in legacy |-> [previous |-> None, hashed |-> FALSE, time |-> time[e]]]
         /\ clock = Cardinality(legacy)
  /\ loc = [w \in Writers |-> Idle]
  /\ gone = {}
  /\ alone = {}

Next ==
  \/ \E w \in Writers :
       (\E e \in Entries : Link(w, e)) \/ Append(w) \/ Commit(w) \/ Rollback(w)
  \/ Purge

Spec == Init /\ [][Next]_vars

-----------------------------------------------------------------------------
\* verify_audit_chain reads all entries in the order of their timestamps.

\* The hashed entry before e, if there is one.
Predecessor(e) ==
  LET earlier == {f \in Hashed : Before(f, e)}
  IN IF earlier = {} THEN None ELSE Latest(earlier)

\* Mutant: only the latest link is followed.
LastLinkVerified == Hashed # {} /\ LET e == Latest(Hashed) IN log[e].previous = Predecessor(e)

Verified == Hashed # {} /\ \A e \in Hashed : log[e].previous = Predecessor(e)

-----------------------------------------------------------------------------
\* Properties.

EntryRow == [previous : Entries \cup {None}, hashed : BOOLEAN, time : Nat]

TypeOK ==
  /\ Logged \subseteq Entries
  /\ \A e \in Logged : log[e] \in EntryRow /\ log[e].time \in 1..clock
  /\ loc \in [Writers -> [pc : {"linked", "flushed"}, entry : Entries, row : EntryRow] \cup {Idle}]
  /\ clock \in Nat
  /\ gone \subseteq Entries
  /\ alone \subseteq Entries

\* An entry links only to entries that were part of the trail, never to one whose
\* transaction was rolled back, and never forward in time.
LinksGoBack ==
  \A e \in Hashed :
    LET p == log[e].previous
    IN p # None => p \in gone \/ (p \in Logged /\ Before(p, e))

\* An entry appended while no other append was in progress links to the entry right
\* before it in the order in which the trail is verified, unless that one was purged.
AloneLinksToPredecessor ==
  \A e \in Hashed \cap alone :
    log[e].previous = Predecessor(e) \/ log[e].previous \in gone

\* When no appends overlapped and nothing was purged the trail verifies.
VerifiedUnlessDisturbed ==
  gone = {} /\ Hashed # {} /\ Hashed \subseteq alone => Verified

\* The links of the trail are what verification takes them for: they lead back, to the
\* entry right before where nothing overlapped, and then the trail verifies.
LinksAreSound == LinksGoBack /\ AloneLinksToPredecessor /\ VerifiedUnlessDisturbed

\* A trail with a wrong link stays unverified whatever is appended, so that one overlap
\* of two appends is reported until retention removes it: only a purge, or an empty
\* trail, can change the answer back.
BrokenStaysBroken ==
  [][Hashed # {} /\ ~Verified /\ gone' = gone => ~Verified']_vars

\* A trail that has hashed entries verifies, when nobody tampers with it.
ChainVerifies == Hashed # {} => Verified

=============================================================================
