-------------------------- MODULE AuditTrailProofs --------------------------
(***************************************************************************)
(* Proofs about AuditTrail, for any entries, transactions, window and      *)
(* number of legacy entries: the links of the trail are sound, and a       *)
(* broken trail stays broken until entries are purged.                     *)
(***************************************************************************)
EXTENDS AuditTrail, FiniteSetTheorems, WellFoundedInduction, TLAPS

-----------------------------------------------------------------------------
\* The inductive invariant.

Flushed(w) == loc[w].pc = "flushed"

\* No two entries have one timestamp, committed or not.
TimesDiffer ==
  /\ \A e, f \in Logged : log[e].time = log[f].time => e = f
  /\ \A w \in Writers : Flushed(w) =>
       loc[w].row.time \in 1..clock /\ \A e \in Logged : log[e].time # loc[w].row.time
  /\ \A v, w \in Writers : Flushed(v) /\ Flushed(w) /\ loc[v].row.time = loc[w].row.time => v = w

\* Entries without a hash are older than all others.
LegacyFirst ==
  \A e \in Logged \ Hashed :
    /\ \A f \in Hashed : Before(e, f)
    /\ \A w \in Writers : Flushed(w) => log[e].time < loc[w].row.time

\* An id is used once.
IdsOnce ==
  /\ \A w \in Writers : Busy(w) =>
       loc[w].row.hashed /\ loc[w].entry \notin Logged \cup gone
  /\ \A v, w \in Writers : Busy(v) /\ Busy(w) /\ loc[v].entry = loc[w].entry => v = w
  /\ Logged \cap gone = {}
  /\ \A e \in alone : e \in Logged \cup gone \/ \E w \in Writers : Busy(w) /\ loc[w].entry = e

\* What an entry is about to link to is in the trail, or was.
DraftsLink ==
  \A w \in Writers : Busy(w) =>
    LET p == loc[w].row.previous IN
    p # None => p \in gone \/ (p \in Logged /\ (Flushed(w) => log[p].time < loc[w].row.time))

\* The last entry of S in the trail lg.
IsLast(lg, S, p) ==
  IF S = {} THEN p = None ELSE p \in S /\ \A f \in S \ {p} : lg[f].time < lg[p].time

Earlier(lg, e) == {f \in DOMAIN lg : lg[f].hashed /\ lg[f].time < lg[e].time}

\* Nothing else is going on while an entry is appended alone, and it links to the last
\* hash; once it is committed whatever else is on its way is younger.
AloneInProgress ==
  \A w \in Writers : Busy(w) /\ loc[w].entry \in alone =>
    /\ \A v \in Writers : Busy(v) => v = w
    /\ IsLast(log, Hashed, loc[w].row.previous) \/ loc[w].row.previous \in gone
    /\ Flushed(w) => \A e \in Logged : log[e].time < loc[w].row.time

AloneIsPast ==
  \A e \in Logged \cap alone : \A w \in Writers : Flushed(w) => log[e].time < loc[w].row.time

AloneLinks ==
  \A e \in Hashed \cap alone :
    IsLast(log, Earlier(log, e), log[e].previous) \/ log[e].previous \in gone

IInv ==
  /\ TypeOK /\ TimesDiffer /\ LegacyFirst /\ IdsOnce /\ DraftsLink /\ LinksGoBack
  /\ AloneInProgress /\ AloneIsPast /\ AloneLinks

-----------------------------------------------------------------------------
\* Last entries.

Timed(lg, n) ==
  /\ \A e \in DOMAIN lg : lg[e].time \in 1..n
  /\ \A e, f \in DOMAIN lg : lg[e].time = lg[f].time => e = f

\* Entries have a last one: its time is that far from n.
LEMMA LastExists ==
  ASSUME NEW lg, NEW n \in Nat, Timed(lg, n), NEW S \in SUBSET DOMAIN lg, S # {}
  PROVE  \E m \in S : \A f \in S \ {m} : lg[f].time < lg[m].time
<1> DEFINE D == {n - lg[e].time : e \in S}
<1>1. D \in SUBSET Nat /\ D # {}
  BY DEF Timed
<1>2. PICK d \in D : \A c \in D : <<c, d>> \notin OpToRel(<, Nat)
  BY <1>1, NatLessThanWellFounded, WFMin
<1>3. PICK m \in S : d = n - lg[m].time
  OBVIOUS
<1>4. ASSUME NEW f \in S \ {m} PROVE lg[f].time < lg[m].time
  <2>1. n - lg[f].time \in D /\ n - lg[f].time \in Nat /\ d \in Nat
    BY <1>1
  <2>2. ~(n - lg[f].time < d)
    BY <1>2, <2>1 DEF OpToRel
  <2>3. lg[f].time # lg[m].time /\ lg[f].time \in Int /\ lg[m].time \in Int
    BY DEF Timed
  <2> QED BY <1>3, <2>2, <2>3
<1> QED BY <1>4

\* The last entry is the one that is chosen, and there is one only.
LEMMA LastIsChosen ==
  ASSUME NEW lg, NEW n \in Nat, Timed(lg, n), NEW S \in SUBSET DOMAIN lg, None \notin S,
         NEW p, p = IF S = {} THEN None
                    ELSE CHOOSE e \in S : \A f \in S \ {e} : lg[f].time < lg[e].time
  PROVE  IsLast(lg, S, p) /\ \A q : IsLast(lg, S, q) => q = p
<1>1. IsLast(lg, S, p)
  <2>1. CASE S = {}
    BY <2>1 DEF IsLast
  <2>2. CASE S # {}
    <3>1. \E m \in S : \A f \in S \ {m} : lg[f].time < lg[m].time
      BY <2>2, LastExists
    <3>2. p \in S /\ \A f \in S \ {p} : lg[f].time < lg[p].time
      BY <2>2, <3>1
    <3> QED BY <2>2, <3>2 DEF IsLast
  <2> QED BY <2>1, <2>2
<1>2. ASSUME NEW q, IsLast(lg, S, q) PROVE q = p
  <2>1. \A e \in S : lg[e].time \in Int
    BY DEF Timed
  <2> QED BY <1>1, <1>2, <2>1 DEF IsLast
<1> QED BY <1>1, <1>2

LEMMA TrailIsTimed == TypeOK /\ TimesDiffer => Timed(log, clock) /\ clock \in Nat
BY DEF TypeOK, TimesDiffer, Timed, Logged

\* Verification expects the last of the earlier hashed entries, and the next entry links
\* to the last hashed one.
LEMMA ExpectedIsLast ==
  TypeOK /\ TimesDiffer =>
    \A e \in Logged : \A p : IsLast(log, Earlier(log, e), p) <=> p = Predecessor(e)
<1> SUFFICES ASSUME TypeOK, TimesDiffer, NEW e \in Logged
             PROVE  \A p : IsLast(log, Earlier(log, e), p) <=> p = Predecessor(e)
  OBVIOUS
<1>1. Earlier(log, e) = {f \in Hashed : Before(f, e)}
  BY DEF Earlier, Hashed, Logged, Before
<1>2. Earlier(log, e) \in SUBSET DOMAIN log /\ None \notin Earlier(log, e)
  BY AuditAssumption DEF Earlier, TypeOK, Logged
<1>3. Predecessor(e) = IF Earlier(log, e) = {} THEN None
                       ELSE CHOOSE x \in Earlier(log, e) :
                              \A f \in Earlier(log, e) \ {x} : log[f].time < log[x].time
  BY <1>1 DEF Predecessor, Latest, Before
<1> QED BY <1>2, <1>3, LastIsChosen, TrailIsTimed

LEMMA ExpectedIsLastNext ==
  (TypeOK /\ TimesDiffer =>
    \A e \in Logged : \A p : IsLast(log, Earlier(log, e), p) <=> p = Predecessor(e))'
BY ExpectedIsLast, PTL

LEMMA LinkIsLast ==
  ASSUME TypeOK, TimesDiffer, LegacyFirst
  PROVE  IsLast(log, Hashed, LatestAuditHash)
<1> DEFINE recent == {e \in Hashed : Cardinality({f \in Logged : Before(e, f)}) < Window}
<1>1. Hashed \in SUBSET DOMAIN log /\ recent \in SUBSET DOMAIN log /\ None \notin recent
  BY AuditAssumption DEF Hashed, Logged, TypeOK
<1>2. Timed(log, clock) /\ clock \in Nat
  BY TrailIsTimed
<1>3. LatestAuditHash = IF recent = {} THEN None
                        ELSE CHOOSE e \in recent :
                               \A f \in recent \ {e} : log[f].time < log[e].time
  BY DEF LatestAuditHash, Latest, Before
<1> HIDE DEF recent
<1>4. \A q : IsLast(log, recent, q) => q = LatestAuditHash
  BY <1>1, <1>2, <1>3, LastIsChosen
<1>5. CASE Hashed = {}
  <2>1. recent = {}
    BY <1>5 DEF recent
  <2> QED BY <1>3, <1>5, <2>1 DEF IsLast
<1>6. CASE Hashed # {}
  <2>1. PICK m \in Hashed : \A f \in Hashed \ {m} : log[f].time < log[m].time
    BY <1>1, <1>2, <1>6, LastExists
  <2>2. {f \in Logged : Before(m, f)} = {}
    <3> SUFFICES ASSUME NEW f \in Logged, Before(m, f) PROVE FALSE
      OBVIOUS
    <3>1. log[f].time \in Int /\ log[m].time \in Int
      BY <1>1 DEF TypeOK, Logged
    <3>2. f \notin Hashed
      BY <2>1, <3>1 DEF Before
    <3> QED BY <3>1, <3>2 DEF LegacyFirst, Before
  <2>3. m \in recent
    BY <2>2, FS_EmptySet, AuditAssumption DEF recent
  <2>4. IsLast(log, recent, m)
    BY <2>1, <2>3 DEF IsLast, recent
  <2>5. LatestAuditHash = m
    BY <1>4, <2>4
  <2> QED BY <1>6, <2>1, <2>5 DEF IsLast
<1> QED BY <1>5, <1>6

-----------------------------------------------------------------------------
\* Each step keeps the invariant.

LEMMA Moved ==
  ASSUME TypeOK, NEW w \in Writers, NEW x, loc' = [loc EXCEPT ![w] = x]
  PROVE  loc'[w] = x /\ \A v \in Writers \ {w} : loc'[v] = loc[v]
BY DEF TypeOK

LEMMA BusyFields ==
  ASSUME TypeOK, NEW w \in Writers
  PROVE  /\ loc[w] \in [pc : {"linked", "flushed"}, entry : Entries, row : EntryRow] \cup {Idle}
         /\ Flushed(w) => Busy(w)
         /\ Busy(w) => /\ loc[w] \in [pc : {"linked", "flushed"}, entry : Entries, row : EntryRow]
                       /\ loc[w].entry \in Entries /\ loc[w].row \in EntryRow
                       /\ loc[w].row.previous \in Entries \cup {None}
                       /\ loc[w].row.time \in Nat
BY DEF TypeOK, Busy, Flushed, Idle, EntryRow

LEMMA InitHolds == Init => IInv
<1> SUFFICES ASSUME Init PROVE IInv
  OBVIOUS
<1>1. PICK legacy \in {S \in SUBSET Entries : IsFiniteSet(S) /\ Cardinality(S) <= MaxLegacy} :
        \E time \in [legacy -> 1..Cardinality(legacy)] :
          /\ \A e, f \in legacy : e # f => time[e] # time[f]
          /\ log = [e \in legacy |-> [previous |-> None, hashed |-> FALSE, time |-> time[e]]]
          /\ clock = Cardinality(legacy)
  BY DEF Init
<1>2. PICK time \in [legacy -> 1..Cardinality(legacy)] :
        /\ \A e, f \in legacy : e # f => time[e] # time[f]
        /\ log = [e \in legacy |-> [previous |-> None, hashed |-> FALSE, time |-> time[e]]]
        /\ clock = Cardinality(legacy)
  BY <1>1
<1>3. clock \in Nat
  BY <1>1, <1>2, FS_CardinalityType
<1>4. /\ Logged = legacy /\ Hashed = {}
      /\ \A e \in Logged : log[e] = [previous |-> None, hashed |-> FALSE, time |-> time[e]]
  BY <1>2 DEF Logged, Hashed
<1>5. loc = [w \in Writers |-> Idle] /\ gone = {} /\ alone = {}
  BY DEF Init
<1>6. \A w \in Writers : ~Busy(w) /\ ~Flushed(w)
  BY <1>5 DEF Busy, Flushed, Idle
<1>7. TypeOK
  BY <1>1, <1>2, <1>3, <1>4, <1>5 DEF TypeOK, EntryRow
<1>8. TimesDiffer
  BY <1>2, <1>4, <1>6 DEF TimesDiffer
<1> QED BY <1>4, <1>5, <1>6, <1>7, <1>8
     DEF IInv, LegacyFirst, IdsOnce, DraftsLink, LinksGoBack, AloneInProgress, AloneIsPast, AloneLinks

LEMMA LinkKeeps ==
  ASSUME IInv, NEW w \in Writers, NEW e \in Entries, Link(w, e)
  PROVE  IInv'
<1> DEFINE x == Transaction("linked", e, LatestAuditHash, 0)
<1>0. TypeOK /\ TimesDiffer /\ LegacyFirst
  BY DEF IInv
<1>1. /\ ~Busy(w) /\ e \notin Logged \cup gone
      /\ \A v \in Writers : Busy(v) => loc[v].entry # e
      /\ log' = log /\ clock' = clock /\ gone' = gone
  BY DEF Link
<1>2. loc'[w] = x /\ \A v \in Writers \ {w} : loc'[v] = loc[v]
  BY <1>0, Moved DEF Link
<1>3. IsLast(log, Hashed, LatestAuditHash)
  BY <1>0, LinkIsLast
<1>4. LatestAuditHash \in Logged \cup {None} /\ LatestAuditHash \in Entries \cup {None}
  BY <1>0, <1>3 DEF IsLast, Hashed, Logged, TypeOK
<1>5. /\ x.pc = "linked" /\ x.entry = e /\ x.row.previous = LatestAuditHash /\ x.row.hashed
      /\ x \in [pc : {"linked", "flushed"}, entry : Entries, row : EntryRow]
  BY <1>4 DEF Transaction, EntryRow
<1> HIDE DEF x
<1>6. /\ Busy(w)' /\ ~Flushed(w)'
      /\ \A v \in Writers \ {w} : (Busy(v)' <=> Busy(v)) /\ (Flushed(v)' <=> Flushed(v))
  BY <1>2, <1>5 DEF Busy, Flushed
<1>7. /\ Logged' = Logged /\ Hashed' = Hashed
      /\ \A a, b : Before(a, b)' <=> Before(a, b)
  BY <1>1 DEF Logged, Hashed, Before
<1>8. /\ e \notin alone /\ alone' \subseteq alone \cup {e}
      /\ e \in alone' => \A v \in Writers : ~Busy(v)
      /\ \A v \in Writers : Busy(v) => loc[v].entry \notin alone'
  BY <1>1 DEF Link, IInv, IdsOnce
<1>9. TypeOK'
  <2>1. loc' \in [Writers -> [pc : {"linked", "flushed"}, entry : Entries, row : EntryRow] \cup {Idle}]
    BY <1>0, <1>5 DEF Link, TypeOK, x
  <2> QED BY <1>0, <1>1, <1>8, <2>1 DEF TypeOK, Logged
<1>10. TimesDiffer' /\ LegacyFirst'
  BY <1>0, <1>1, <1>2, <1>6, <1>7 DEF TimesDiffer, LegacyFirst
<1>11. IdsOnce'
  BY <1>1, <1>2, <1>5, <1>6, <1>7, <1>8 DEF IInv, IdsOnce
<1>12. DraftsLink'
  BY <1>1, <1>2, <1>4, <1>5, <1>6, <1>7 DEF IInv, DraftsLink
<1>13. LinksGoBack'
  BY <1>1, <1>7 DEF IInv, LinksGoBack
<1>14. AloneInProgress'
  <2> SUFFICES ASSUME NEW v \in Writers, Busy(v)', loc'[v].entry \in alone'
               PROVE  /\ \A u \in Writers : Busy(u)' => u = v
                      /\ IsLast(log, Hashed, loc'[v].row.previous)
                      /\ ~Flushed(v)'
    BY <1>1, <1>7 DEF AloneInProgress
  <2>1. v = w
    BY <1>2, <1>6, <1>8
  <2> QED BY <1>2, <1>3, <1>5, <1>6, <1>8, <2>1
<1>15. AloneIsPast'
  BY <1>1, <1>2, <1>6, <1>7, <1>8 DEF IInv, AloneIsPast
<1>16. AloneLinks'
  BY <1>1, <1>7, <1>8 DEF IInv, AloneLinks, Hashed
<1> QED BY <1>9, <1>10, <1>11, <1>12, <1>13, <1>14, <1>15, <1>16 DEF IInv

LEMMA AppendKeeps ==
  ASSUME IInv, NEW w \in Writers, Append(w)
  PROVE  IInv'
<1> DEFINE x == [loc[w] EXCEPT !.pc = "flushed", !.row.time = clock + 1]
<1>0. TypeOK /\ TimesDiffer /\ LegacyFirst /\ clock \in Nat
  BY DEF IInv, TypeOK
<1>1. /\ loc[w].pc = "linked" /\ clock' = clock + 1
      /\ log' = log /\ gone' = gone /\ alone' = alone
  BY DEF Append
<1>2. Busy(w) /\ ~Flushed(w)
  BY <1>1 DEF Busy, Flushed
<1>3. loc[w] \in [pc : {"linked", "flushed"}, entry : Entries, row : EntryRow]
  BY <1>0, <1>2, BusyFields
<1>4. loc' = [loc EXCEPT ![w] = x]
  BY DEF Append
<1>5. loc'[w] = x /\ \A v \in Writers \ {w} : loc'[v] = loc[v]
  BY <1>0, <1>4, Moved
<1>6. /\ x.pc = "flushed" /\ x.entry = loc[w].entry /\ x.row.time = clock + 1
      /\ x.row.previous = loc[w].row.previous /\ x.row.hashed = loc[w].row.hashed
      /\ x \in [pc : {"linked", "flushed"}, entry : Entries, row : EntryRow]
  <2>1. clock + 1 \in Nat
    BY <1>0
  <2>2. loc[w].row \in EntryRow
    BY <1>3
  <2>3. [loc[w].row EXCEPT !.time = clock + 1] \in EntryRow
    BY <2>1, <2>2 DEF EntryRow
  <2>4. x = [loc[w] EXCEPT !.pc = "flushed", !.row = [loc[w].row EXCEPT !.time = clock + 1]]
    BY <1>3, <2>2 DEF EntryRow
  <2>5. x \in [pc : {"linked", "flushed"}, entry : Entries, row : EntryRow]
    BY <1>3, <2>3, <2>4
  <2>6. /\ x.row = [loc[w].row EXCEPT !.time = clock + 1]
        /\ x.pc = "flushed" /\ x.entry = loc[w].entry
    BY <1>3, <2>4
  <2> QED BY <2>2, <2>5, <2>6 DEF EntryRow
<1> HIDE DEF x
<1>7. /\ Busy(w)' /\ Flushed(w)'
      /\ \A v \in Writers \ {w} : (Busy(v)' <=> Busy(v)) /\ (Flushed(v)' <=> Flushed(v))
  BY <1>5, <1>6 DEF Busy, Flushed
<1>8. /\ Logged' = Logged /\ Hashed' = Hashed
      /\ \A a, b : Before(a, b)' <=> Before(a, b)
  BY <1>1 DEF Logged, Hashed, Before
<1>9. \A f \in Logged : log[f].time \in 1..clock
  BY <1>0 DEF TypeOK
<1>10. \A v \in Writers : Flushed(v) => loc[v].row.time \in 1..clock
  BY <1>0 DEF TimesDiffer
<1>11. TypeOK'
  <2>1. loc' \in [Writers -> [pc : {"linked", "flushed"}, entry : Entries, row : EntryRow] \cup {Idle}]
    BY <1>0, <1>4, <1>6 DEF TypeOK
  <2> QED BY <1>0, <1>1, <1>9, <2>1 DEF TypeOK, Logged
<1>12. TimesDiffer'
  BY <1>0, <1>1, <1>5, <1>6, <1>7, <1>8, <1>9, <1>10 DEF TimesDiffer
<1>13. LegacyFirst'
  BY <1>0, <1>1, <1>5, <1>6, <1>7, <1>8, <1>9 DEF LegacyFirst
<1>14. IdsOnce'
  <2>1. \A v \in Writers : (Busy(v)' <=> Busy(v)) /\ loc'[v].entry = loc[v].entry
                           /\ loc'[v].row.hashed = loc[v].row.hashed
    BY <1>2, <1>5, <1>6, <1>7
  <2> QED BY <1>1, <1>8, <2>1 DEF IInv, IdsOnce
<1>15. DraftsLink'
  BY <1>0, <1>1, <1>2, <1>5, <1>6, <1>7, <1>8, <1>9 DEF IInv, DraftsLink
<1>16. LinksGoBack'
  BY <1>1, <1>8 DEF IInv, LinksGoBack
<1>17. AloneInProgress'
  <2>1. \A v \in Writers : (Busy(v)' <=> Busy(v)) /\ loc'[v].entry = loc[v].entry
                           /\ loc'[v].row.previous = loc[v].row.previous
    BY <1>2, <1>5, <1>6, <1>7
  <2>2. \A v \in Writers : Flushed(v)' =>
          \/ Flushed(v) /\ loc'[v].row.time = loc[v].row.time
          \/ \A f \in Logged : log[f].time < loc'[v].row.time
    BY <1>0, <1>5, <1>6, <1>7, <1>9
  <2> QED BY <1>1, <1>8, <2>1, <2>2 DEF IInv, AloneInProgress
<1>18. AloneIsPast'
  BY <1>0, <1>1, <1>5, <1>6, <1>7, <1>8, <1>9 DEF IInv, AloneIsPast
<1>19. AloneLinks'
  BY <1>1, <1>8 DEF IInv, AloneLinks
<1> QED BY <1>11, <1>12, <1>13, <1>14, <1>15, <1>16, <1>17, <1>18, <1>19 DEF IInv

LEMMA RollbackKeeps ==
  ASSUME IInv, NEW w \in Writers, Rollback(w)
  PROVE  IInv'
<1>0. TypeOK
  BY DEF IInv
<1>1. /\ Busy(w) /\ log' = log /\ clock' = clock /\ gone' = gone
      /\ alone' = alone \ {loc[w].entry} /\ loc' = [loc EXCEPT ![w] = Idle]
  BY DEF Rollback
<1>2. loc'[w] = Idle /\ \A v \in Writers \ {w} : loc'[v] = loc[v]
  BY <1>0, <1>1, Moved
<1>3. /\ ~Busy(w)' /\ ~Flushed(w)'
      /\ \A v \in Writers \ {w} : (Busy(v)' <=> Busy(v)) /\ (Flushed(v)' <=> Flushed(v))
  BY <1>2 DEF Busy, Flushed, Idle
<1>4. /\ Logged' = Logged /\ Hashed' = Hashed
      /\ \A a, b : Before(a, b)' <=> Before(a, b)
  BY <1>1 DEF Logged, Hashed, Before
<1>5. TypeOK'
  BY <1>0, <1>1 DEF TypeOK, Logged
<1>6. TimesDiffer' /\ LegacyFirst' /\ DraftsLink' /\ LinksGoBack' /\ AloneInProgress'
      /\ AloneIsPast' /\ AloneLinks'
  BY <1>1, <1>2, <1>3, <1>4
     DEF IInv, TimesDiffer, LegacyFirst, DraftsLink, LinksGoBack, AloneInProgress, AloneIsPast,
         AloneLinks
<1>7. IdsOnce'
  BY <1>1, <1>2, <1>3, <1>4 DEF IInv, IdsOnce
<1> QED BY <1>5, <1>6, <1>7 DEF IInv

LEMMA CommitKeeps ==
  ASSUME IInv, NEW w \in Writers, Commit(w)
  PROVE  IInv'
<1>0. TypeOK /\ TimesDiffer /\ LegacyFirst /\ clock \in Nat
  BY DEF IInv, TypeOK
<1>1. /\ Flushed(w) /\ Busy(w) /\ clock' = clock /\ gone' = gone /\ alone' = alone
      /\ loc' = [loc EXCEPT ![w] = Idle]
      /\ log' = [a \in Logged \cup {loc[w].entry} |-> IF a \in Logged THEN log[a] ELSE loc[w].row]
  BY DEF Commit, Flushed, Busy
<1>2. PICK e, row : e = loc[w].entry /\ row = loc[w].row
  OBVIOUS
<1>3. /\ e \in Entries /\ row \in EntryRow /\ row.hashed /\ e \notin Logged \cup gone
      /\ row.time \in 1..clock /\ row.previous \in Entries \cup {None}
      /\ \A a \in Logged : log[a].time # row.time
  BY <1>0, <1>1, <1>2, BusyFields DEF IInv, IdsOnce, TimesDiffer
<1>4. /\ Logged' = Logged \cup {e} /\ log'[e] = row
      /\ \A a \in Logged : log'[a] = log[a]
      /\ Hashed' = Hashed \cup {e}
  BY <1>1, <1>2, <1>3 DEF Logged, Hashed
<1>5. loc'[w] = Idle /\ \A v \in Writers \ {w} : loc'[v] = loc[v]
  BY <1>0, <1>1, Moved
<1>6. /\ ~Busy(w)' /\ ~Flushed(w)'
      /\ \A v \in Writers \ {w} : (Busy(v)' <=> Busy(v)) /\ (Flushed(v)' <=> Flushed(v))
  BY <1>5 DEF Busy, Flushed, Idle
<1>7. /\ Hashed \subseteq Logged /\ \A a \in Logged : log[a].time \in 1..clock
      /\ \A a \in Hashed : a \in Logged
  BY <1>0 DEF TypeOK, Hashed
<1>8. TypeOK'
  <2>1. \A a \in Logged' : log'[a] \in EntryRow /\ log'[a].time \in 1..clock'
    BY <1>0, <1>1, <1>3, <1>4 DEF TypeOK
  <2> QED BY <1>0, <1>1, <1>3, <1>4, <2>1 DEF TypeOK
<1>9. TimesDiffer'
  BY <1>0, <1>1, <1>2, <1>3, <1>4, <1>5, <1>6, <1>7 DEF TimesDiffer
<1>10. LegacyFirst'
  BY <1>0, <1>1, <1>2, <1>3, <1>4, <1>5, <1>6, <1>7 DEF LegacyFirst, Before
<1>11. IdsOnce'
  BY <1>1, <1>2, <1>3, <1>4, <1>5, <1>6 DEF IInv, IdsOnce
<1>12. DraftsLink'
  BY <1>1, <1>4, <1>5, <1>6 DEF IInv, DraftsLink
<1>13. LinksGoBack'
  <2>1. row.previous # None =>
          row.previous \in gone \/ (row.previous \in Logged /\ log[row.previous].time < row.time)
    BY <1>1, <1>2 DEF IInv, DraftsLink
  <2>2. ASSUME NEW a \in Hashed', NEW p, p = log'[a].previous, p # None
        PROVE  p \in gone \/ (p \in Logged' /\ log'[p].time < log'[a].time)
    BY <1>1, <1>3, <1>4, <1>7, <2>1, <2>2 DEF IInv, LinksGoBack, Before
  <2> QED BY <1>1, <2>2 DEF LinksGoBack, Before
<1>14. AloneInProgress'
  <2> SUFFICES ASSUME NEW v \in Writers, Busy(v)', loc'[v].entry \in alone' PROVE FALSE
    BY DEF AloneInProgress
  <2> QED BY <1>1, <1>5, <1>6 DEF IInv, AloneInProgress
<1>15. AloneIsPast'
  <2> SUFFICES ASSUME NEW a \in Logged', a \in alone', NEW v \in Writers, Flushed(v)'
               PROVE  log'[a].time < loc'[v].row.time
    BY DEF AloneIsPast
  <2>1. v # w /\ loc'[v] = loc[v] /\ Flushed(v)
    BY <1>5, <1>6
  <2>2. a # e
    BY <1>1, <1>2, <2>1, BusyFields, <1>0 DEF IInv, AloneInProgress
  <2> QED BY <1>1, <1>4, <2>1, <2>2 DEF IInv, AloneIsPast
<1>16. AloneLinks'
  <2> SUFFICES ASSUME NEW a \in Hashed', a \in alone, log'[a].previous \notin gone
               PROVE  IsLast(log', Earlier(log', a), log'[a].previous)
    BY <1>1 DEF AloneLinks
  <2>1. CASE a = e
    <3>1. IsLast(log, Hashed, row.previous) /\ \A f \in Logged : log[f].time < row.time
      BY <1>1, <1>2, <1>4, <2>1 DEF IInv, AloneInProgress
    <3>2. Earlier(log', e) = Hashed
      <4>1. \A f \in Logged' : f \in Earlier(log', e) <=> f \in Hashed' /\ log'[f].time < row.time
        BY <1>4 DEF Earlier, Hashed, Logged
      <4>2. ~(row.time < row.time)
        BY <1>3
      <4>3. Earlier(log', e) \subseteq Logged'
        BY DEF Earlier, Logged
      <4> QED BY <1>3, <1>4, <1>7, <3>1, <4>1, <4>2, <4>3
    <3> QED BY <1>4, <1>7, <2>1, <3>1, <3>2 DEF IsLast
  <2>2. CASE a # e
    <3>1. a \in Hashed /\ a \in Logged /\ log'[a] = log[a]
      BY <1>4, <1>7, <2>2
    <3>2. IsLast(log, Earlier(log, a), log[a].previous)
      BY <1>1, <3>1 DEF IInv, AloneLinks
    <3>3. log[a].time < row.time
      BY <1>1, <1>2, <3>1 DEF IInv, AloneIsPast
    <3>4. Earlier(log', a) = Earlier(log, a)
      <4>1. ~(row.time < log[a].time)
        BY <1>3, <1>7, <3>1, <3>3
      <4>2. Earlier(log', a) = {f \in Logged \cup {e} : log'[f].hashed /\ log'[f].time < log[a].time}
        BY <1>4, <3>1 DEF Earlier, Logged
      <4>3. Earlier(log, a) = {f \in Logged : log[f].hashed /\ log[f].time < log[a].time}
        BY DEF Earlier, Logged
      <4> QED BY <1>4, <4>1, <4>2, <4>3
    <3>5. Earlier(log, a) \subseteq Logged
      BY DEF Earlier, Logged
    <3> QED BY <1>4, <3>1, <3>2, <3>4, <3>5 DEF IsLast
  <2> QED BY <2>1, <2>2
<1> QED BY <1>8, <1>9, <1>10, <1>11, <1>12, <1>13, <1>14, <1>15, <1>16 DEF IInv

LEMMA PurgeKeeps ==
  ASSUME IInv, Purge
  PROVE  IInv'
<1>0. TypeOK /\ TimesDiffer /\ LegacyFirst /\ clock \in Nat
  BY DEF IInv, TypeOK
<1>1. loc' = loc /\ clock' = clock /\ alone' = alone
  BY DEF Purge
<1>2. PICK cutoff, expired :
        /\ expired = {e \in Logged : log[e].time < cutoff}
        /\ log' = [e \in Logged \ expired |-> log[e]]
        /\ gone' = gone \cup expired
  BY DEF Purge
<1>3. /\ Logged' = Logged \ expired /\ Hashed' = Hashed \ expired
      /\ \A e \in Logged' : log'[e] = log[e]
      /\ Hashed \subseteq Logged
      /\ \A e \in Logged : log[e].time \in Int
      /\ \A e \in Logged : e \in expired <=> log[e].time < cutoff
  BY <1>0, <1>2 DEF Logged, Hashed, TypeOK
<1>4. \A v \in Writers : (Busy(v)' <=> Busy(v)) /\ (Flushed(v)' <=> Flushed(v))
  BY <1>1 DEF Busy, Flushed
<1>5. TypeOK'
  BY <1>0, <1>1, <1>2, <1>3 DEF TypeOK
<1>6. TimesDiffer'
  BY <1>0, <1>1, <1>3, <1>4 DEF TimesDiffer
<1>7. LegacyFirst'
  BY <1>0, <1>1, <1>3, <1>4 DEF LegacyFirst, Before
<1>8. IdsOnce'
  BY <1>1, <1>2, <1>3, <1>4 DEF IInv, IdsOnce
<1>9. DraftsLink'
  BY <1>1, <1>2, <1>3, <1>4 DEF IInv, DraftsLink
<1>10. LinksGoBack'
  BY <1>1, <1>2, <1>3, <1>4 DEF IInv, LinksGoBack, Before
<1>11. \A S \in SUBSET Hashed : \A p : IsLast(log, S, p) => IsLast(log', S \ expired, p) \/ p \in gone'
  <2> SUFFICES ASSUME NEW S \in SUBSET Hashed, NEW p, IsLast(log, S, p), p \notin expired
               PROVE  IsLast(log', S \ expired, p)
    BY <1>2
  <2>1. \A e \in S \ expired : log'[e] = log[e]
    BY <1>3
  <2> QED BY <1>3, <2>1 DEF IsLast
<1>12. AloneInProgress'
  BY <1>1, <1>2, <1>3, <1>4, <1>11 DEF IInv, AloneInProgress
<1>13. AloneIsPast'
  BY <1>1, <1>3, <1>4 DEF IInv, AloneIsPast
<1>14. AloneLinks'
  <2> SUFFICES ASSUME NEW a \in Hashed', a \in alone, log'[a].previous \notin gone'
               PROVE  IsLast(log', Earlier(log', a), log'[a].previous)
    BY <1>1 DEF AloneLinks
  <2>1. a \in Hashed /\ a \in Logged' /\ log'[a] = log[a]
    BY <1>3
  <2>2. IsLast(log, Earlier(log, a), log[a].previous)
    BY <1>1, <1>2, <2>1 DEF IInv, AloneLinks
  <2>3. Earlier(log', a) = Earlier(log, a) \ expired
    BY <1>3, <2>1 DEF Earlier, Logged
  <2>4. Earlier(log, a) \subseteq Hashed
    BY DEF Earlier, Hashed, Logged
  <2> QED BY <1>11, <2>1, <2>2, <2>3, <2>4
<1> QED BY <1>5, <1>6, <1>7, <1>8, <1>9, <1>10, <1>12, <1>13, <1>14 DEF IInv

LEMMA NextKeeps == IInv /\ [Next]_vars => IInv'
<1> SUFFICES ASSUME IInv, [Next]_vars PROVE IInv'
  OBVIOUS
<1>1. CASE UNCHANGED vars
  BY <1>1 DEF vars, IInv, TypeOK, TimesDiffer, LegacyFirst, IdsOnce, DraftsLink, LinksGoBack,
     AloneInProgress, AloneIsPast, AloneLinks, Logged, Hashed, Before, Busy, Flushed
<1> QED BY <1>1, LinkKeeps, AppendKeeps, CommitKeeps, RollbackKeeps, PurgeKeeps DEF Next

LEMMA Inductive == Spec => []IInv
BY InitHolds, NextKeeps, PTL DEF Spec

-----------------------------------------------------------------------------
\* Theorems.

\* Every reachable trail is well typed (AuditLog, log_audit_event).
THEOREM TypeCorrect == Spec => []TypeOK
<1>1. IInv => TypeOK
  BY DEF IInv
<1> QED BY <1>1, Inductive, PTL

\* Links lead back to entries that were part of the trail; an entry appended while nothing
\* else was links to the one right before it, whatever was appended and purged since; and
\* a trail of such entries verifies (log_audit_event, verify_audit_chain).
THEOREM LinksStaySound == Spec => []LinksAreSound
<1>1. IInv => LinksAreSound
  <2> SUFFICES ASSUME IInv PROVE AloneLinksToPredecessor /\ VerifiedUnlessDisturbed
    BY DEF IInv, LinksAreSound
  <2>1. ASSUME NEW e \in Hashed \cap alone
        PROVE  log[e].previous = Predecessor(e) \/ log[e].previous \in gone
    BY <2>1, ExpectedIsLast DEF IInv, AloneLinks, Hashed
  <2> QED BY <2>1 DEF AloneLinksToPredecessor, VerifiedUnlessDisturbed, Verified
<1> QED BY <1>1, Inductive, PTL

\* A trail that does not verify is not mended by further entries, in whatever order they
\* commit: only retention can hide a wrong link (verify_audit_chain, purge_expired_audit_logs).
THEOREM BrokenIsForGood == Spec => BrokenStaysBroken
<1>1. ASSUME IInv, IInv', [Next]_vars, Hashed # {}, ~Verified, gone' = gone
      PROVE  ~Verified'
  <2>1. PICK e \in Hashed : log[e].previous # Predecessor(e)
    BY <1>1 DEF Verified
  <2>2. TypeOK /\ TimesDiffer /\ TypeOK' /\ TimesDiffer'
    BY <1>1 DEF IInv
  <2>3. e \in Logged
    BY DEF Hashed
  <2>4. ~IsLast(log, Earlier(log, e), log[e].previous)
    BY <2>1, <2>2, <2>3, ExpectedIsLast
  <2>5. CASE log' = log
    BY <1>1, <2>1, <2>5 DEF Verified, Hashed, Logged, Predecessor, Latest, Before
  <2>6. CASE \E w \in Writers : Commit(w)
    <3>1. PICK w \in Writers : Commit(w)
      BY <2>6
    <3>2. PICK new : new = loc[w].entry
      OBVIOUS
    <3>3. Flushed(w) /\ Busy(w)
      BY <3>1 DEF Commit, Flushed, Busy
    <3>4. new \in Entries /\ new \notin Logged \cup gone
      BY <1>1, <2>2, <3>2, <3>3, BusyFields DEF IInv, IdsOnce
    <3>5. /\ DOMAIN log' = Logged \cup {new}
          /\ \A a \in Logged : log'[a] = log[a]
      BY <3>1, <3>2 DEF Commit, Logged
    <3>6. e \in Hashed'
      BY <3>5, <2>3 DEF Hashed, Logged
    <3>7. PICK p : p = log[e].previous
      OBVIOUS
    <3>8. p # new
      BY <1>1, <3>4, <3>7, AuditAssumption DEF IInv, LinksGoBack
    <3>9. ~IsLast(log', Earlier(log', e), p)
      <4>1. /\ Earlier(log, e) \subseteq Earlier(log', e)
            /\ Earlier(log', e) \subseteq Earlier(log, e) \cup {new}
            /\ Earlier(log, e) \subseteq Logged
        BY <2>3, <3>5 DEF Earlier, Logged
      <4>2. \A a \in Earlier(log, e) : log'[a] = log[a]
        BY <3>5, <4>1
      <4> QED BY <2>4, <3>7, <3>8, <4>1, <4>2 DEF IsLast
    <3>10. e \in Logged' /\ log'[e].previous = p
      BY <2>3, <3>5, <3>7 DEF Logged
    <3>11. p # Predecessor(e)'
      BY <2>2, <3>9, <3>10, ExpectedIsLastNext
    <3> QED BY <3>6, <3>10, <3>11 DEF Verified
  <2>7. CASE Purge
    BY <1>1, <2>7 DEF Purge, IInv, IdsOnce
  <2> QED BY <1>1, <2>5, <2>6, <2>7 DEF Next, vars, Link, Append, Rollback
<1> QED BY <1>1, Inductive, PTL DEF Spec, BrokenStaysBroken

=============================================================================
