------------------------- MODULE DashboardJobsProofs -------------------------
(***************************************************************************)
(* Proofs about DashboardJobs: its type invariant, that the file is there  *)
(* exactly while an export is completed, that contents stay in scope, that *)
(* the figures of a stored report add up, and that the jobs are exclusive: *)
(* for any exports, snapshots, workers, requests, users and case tables.   *)
(***************************************************************************)
EXTENDS DashboardJobs, FiniteSetTheorems, WellFoundedInduction, TLAPS

-----------------------------------------------------------------------------
\* What the properties rest on.

\* A worker holds a row that waits ...
HeldRowsWait ==
  \A w \in Workers : held[w] # None =>
    IF held[w].kind = "export" THEN export[held[w].id].status = "queued"
    ELSE snapshot[held[w].id].status = "Queued"

\* ... and that nobody else holds.
OneHolder ==
  \A v, w \in Workers :
    /\ held[v] # None /\ held[w] # None
    /\ held[v].kind = held[w].kind /\ held[v].id = held[w].id
    => v = w

\* A row that was not inserted is empty, and one that was has filters.
RowsBegin ==
  /\ \A j \in Exports : IF export[j].status = "none" THEN export[j].file = None
                        ELSE export[j].filters \in Filters
  /\ \A k \in Snapshots : IF snapshot[k].status = "none" THEN snapshot[k].payload = None
                          ELSE snapshot[k].filters \in Filters

\* Retries and revokes are of rows that were inserted.
ReadRowsExist ==
  \A s \in Sessions : txn[s] # Idle => export[txn[s].j].status # "none"

\* A content shows what its own user and filters allow.
Sound(content) ==
  \A c \in Datasets[content.cases].cases : c.id \in content.shows =>
    /\ Permitted(content.user, c)
    /\ content.filters.station # None => c.station = content.filters.station

\* A row has the filters its content was computed with.
ContentsSound ==
  /\ \A j \in Exports : export[j].file # None =>
       Sound(export[j].file) /\ export[j].filters = export[j].file.filters
  /\ \A k \in Snapshots : snapshot[k].payload # None =>
       Sound(snapshot[k].payload) /\ snapshot[k].filters = snapshot[k].payload.filters

IInv ==
  /\ TypeOK /\ HeldRowsWait /\ OneHolder /\ RowsBegin /\ ReadRowsExist /\ ContentsSound
  /\ FileIffCompleted

-----------------------------------------------------------------------------
\* Numbers, filters and contents.

LEMMA SmallestOf ==
  ASSUME NEW S \in SUBSET Nat, S # {}
  PROVE  \E x \in S : \A y \in S : x <= y
<1>1. PICK x \in S : \A y \in S : <<y, x>> \notin OpToRel(<, Nat)
  BY NatLessThanWellFounded, WFMin
<1>2. \A y \in S : ~(y < x)
  BY <1>1 DEF OpToRel
<1> QED BY <1>2

LEMMA MinOf ==
  ASSUME NEW S \in SUBSET Nat, S # {}
  PROVE  Min(S) \in S
BY SmallestOf DEF Min

\* The first place of a jurisdiction is one of it.
LEMMA FirstIdOf ==
  ASSUME NEW ids \in SUBSET DOMAIN IdRank, ids # {}
  PROVE  FirstId(ids) \in ids
<1> DEFINE ranks == {IdRank[i] : i \in ids}
<1>1. \A i \in ids : IdRank[i] \in Nat
  BY RequestsAssumption
<1>2. ranks \in SUBSET Nat /\ ranks # {}
  BY <1>1
<1>3. PICK n \in ranks : \A m \in ranks : n <= m
  BY <1>2, SmallestOf
<1>4. PICK i \in ids : IdRank[i] = n
  BY <1>3
<1>5. \A j \in ids : IdRank[i] <= IdRank[j]
  BY <1>3, <1>4
<1> QED BY <1>5 DEF FirstId

\* A requester is known by its row or counts as an administrator.
LEMMA KnownOrAdministrator ==
  ASSUME NEW u \in Users
  PROVE  u \in Officers \/ u.role = "System_Admin"
<1>1. PICK v \in Officers : u = UserPayload(v)
  BY DEF Users
<1>2. CASE v.known
  BY <1>1, <1>2 DEF UserPayload
<1>3. CASE ~v.known
  BY <1>1, <1>3, RequestsAssumption DEF UserPayload
<1> QED BY <1>2, <1>3

\* Resolved filters are made of what was asked for and of the row of the user.
LEMMA ResolvedFilters ==
  ASSUME NEW u \in Users \cup Officers, NEW f \in Filters, NEW g \in ResolveDashboardFilters(u, f)
  PROVE  g \in Filters
<1>0. CASE u.role = "System_Admin"
  BY <1>0 DEF ResolveDashboardFilters, SelfViewRoles, AllRecordRoles
<1> SUFFICES ASSUME u \in Officers PROVE g \in Filters
  BY <1>0, KnownOrAdministrator
<1>1. [f EXCEPT !.io = u.id] \in Filters
  BY DEF Filters
<1>2. [f EXCEPT !.station = u.station] \in Filters
  BY DEF Filters
<1>3. u.ids # {} => [f EXCEPT !.zone = FirstId(u.ids)] \in Filters
  <2>1. u.ids # {} => FirstId(u.ids) \in DOMAIN IdRank
    BY FirstIdOf, RequestsAssumption
  <2> QED BY <2>1 DEF Filters
<1>4. \/ g = [f EXCEPT !.io = u.id]
      \/ g = [f EXCEPT !.station = u.station]
      \/ g = f
      \/ u.ids # {} /\ g = [f EXCEPT !.zone = FirstId(u.ids)]
  BY DEF ResolveDashboardFilters, SelfViewRoles, AllRecordRoles
<1> QED BY <1>1, <1>2, <1>3, <1>4

\* Who gets filters at all gets those that keep the cases in the scope of the role.
LEMMA VisibleIsPermitted ==
  ASSUME NEW u, NEW f \in Filters, NEW g \in ResolveDashboardFilters(u, f),
         NEW c, CaseVisible(c, u, g)
  PROVE  Permitted(u, c) /\ (g.station # None => c.station = g.station)
<1>1. g.station # None => c.station = g.station
  BY DEF CaseVisible
<1>2. CASE u.role \in AllRecordRoles
  BY <1>1, <1>2 DEF Permitted, AllRecordRoles
<1>3. CASE u.role = "SHO"
  <2>1. u.station # None /\ u.role \notin AllRecordRoles
    BY <1>3 DEF ResolveDashboardFilters, SelfViewRoles, AllRecordRoles
  <2> QED BY <1>1, <1>3, <2>1 DEF CaseVisible, Permitted
<1>4. CASE u.role = "Zone_Officer"
  <2>1. StationAllowed(u, c.station)
    BY <1>4 DEF CaseVisible
  <2> QED BY <1>1, <1>4, <2>1 DEF StationAllowed, Permitted, AllRecordRoles
<1>5. CASE u.role \in SelfViewRoles
  <2>1. u.id \in {c.io, c.creator}
    BY <1>5 DEF CaseVisible
  <2> QED BY <1>1, <1>5, <2>1 DEF Permitted, SelfViewRoles, AllRecordRoles
<1>6. u.role \in AllRecordRoles \cup {"SHO", "Zone_Officer"} \cup SelfViewRoles
  BY DEF ResolveDashboardFilters
<1> QED BY <1>2, <1>3, <1>4, <1>5, <1>6

\* What a job writes.
LEMMA ContentFields ==
  ASSUME NEW h \in Locks, NEW f \in Filters, data \in DOMAIN Datasets,
         NEW content \in Content(h, f)
  PROVE  content \in Contents /\ Sound(content)
<1>1. h.user \in Users /\ h.cases \in DOMAIN Datasets
  BY DEF Locks
<1>2. PICK g \in ResolveDashboardFilters(h.user, f) : content = ContentOf(h, h.user, g)
  BY DEF Content
<1>3. g \in Filters
  BY <1>1, <1>2, ResolvedFilters
<1> DEFINE shown == {c.id : c \in FilterCases(Datasets[h.cases].cases, h.user, g)}
<1>4. /\ content.user = h.user /\ content.filters = g /\ content.cases = h.cases
      /\ content.shows = shown
  BY <1>2 DEF ContentOf
<1>5. shown \subseteq {c.id : c \in UNION {Datasets[d].cases : d \in DOMAIN Datasets}}
  BY <1>1 DEF FilterCases
<1>6. content \in Contents
  <2> HIDE DEF shown
  <2> QED BY <1>1, <1>2, <1>3, <1>4, <1>5 DEF ContentOf, Contents
<1>7. ASSUME NEW c \in Datasets[h.cases].cases, c.id \in shown
      PROVE  Permitted(h.user, c) /\ (g.station # None => c.station = g.station)
  <2>1. PICK e \in Datasets[h.cases].cases : CaseVisible(e, h.user, g) /\ e.id = c.id
    BY <1>7 DEF FilterCases
  <2>2. e = c
    BY <1>1, <2>1, DatasetsAssumption
  <2> QED BY <1>1, <1>2, <2>1, <2>2, VisibleIsPermitted
<1>8. Sound(content)
  <2> HIDE DEF shown
  <2> QED BY <1>4, <1>7 DEF Sound
<1> QED BY <1>6, <1>8

-----------------------------------------------------------------------------
\* Sums.  SumFunction is a function defined by recursion over the subsets of a
\* domain; that only one function solves its equation is shown by a smallest
\* subset on which two would differ.

Any(T) == CHOOSE x \in T : TRUE
SumOver(f, g) ==
  [T \in SUBSET DOMAIN f |-> IF T = {} THEN 0 ELSE f[Any(T)] + g[T \ {Any(T)}]]

\* A sum is told by any solution of the equation.
LEMMA SumIs ==
  ASSUME NEW f, IsFiniteSet(DOMAIN f), NEW C, C = SumOver(f, C)
  PROVE  SumFunction(f) = C[DOMAIN f]
<1> DEFINE D == DOMAIN f
           iter == CHOOSE g : g = SumOver(f, g)
           bad == {T \in SUBSET D : iter[T] # C[T]}
           sizes == {Cardinality(T) : T \in bad}
<1>1. iter = SumOver(f, iter)
  OBVIOUS
<1>2. SumFunction(f) = iter[D]
  BY DEF SumFunction, SumFunctionOnSet, FoldFunctionOnSet, MapThenFoldSet, SumOver, Any
<1> HIDE DEF iter
<1>3. ASSUME bad # {} PROVE FALSE
  <2>1. \A T \in SUBSET D : IsFiniteSet(T) /\ Cardinality(T) \in Nat
    BY FS_Subset, FS_CardinalityType
  <2>2. sizes \in SUBSET Nat /\ sizes # {}
    BY <1>3, <2>1
  <2>3. PICK n \in sizes : \A m \in sizes : n <= m
    BY <2>2, SmallestOf
  <2>4. PICK T \in bad : Cardinality(T) = n
    BY <2>3
  <2>5. T \in SUBSET D /\ T # {}
    BY <1>1, <2>4 DEF SumOver
  <2>6. Any(T) \in T
    BY <2>5 DEF Any
  <2>7. T \ {Any(T)} \in SUBSET D /\ Cardinality(T \ {Any(T)}) = n - 1
    BY <2>1, <2>4, <2>5, <2>6, FS_RemoveElement
  <2>8. n - 1 \notin sizes
    BY <2>2, <2>3
  <2>9. T \ {Any(T)} \notin bad
    BY <2>7, <2>8
  <2>10. iter[T \ {Any(T)}] = C[T \ {Any(T)}]
    BY <2>7, <2>9
  <2>11. iter[T] = f[Any(T)] + iter[T \ {Any(T)}]
    BY <1>1, <2>5 DEF SumOver
  <2>12. C[T] = f[Any(T)] + C[T \ {Any(T)}]
    BY <2>5 DEF SumOver
  <2> QED BY <2>4, <2>10, <2>11, <2>12
<1> QED BY <1>2, <1>3

\* A set divided into parts that share nothing.
Joined(F, T) == UNION {F[s] : s \in T}
Divides(F, S) ==
  /\ Joined(F, DOMAIN F) = S
  /\ \A s, t \in DOMAIN F : s # t => F[s] \cap F[t] = {}

\* What the parts of a set count adds up to what the set counts.
LEMMA PartsAddUp ==
  ASSUME NEW S, IsFiniteSet(S), NEW F, IsFiniteSet(DOMAIN F), Divides(F, S)
  PROVE  SumFunction([s \in DOMAIN F |-> Cardinality(F[s])]) = Cardinality(S)
<1> DEFINE f == [s \in DOMAIN F |-> Cardinality(F[s])]
           C == [T \in SUBSET DOMAIN F |-> Cardinality(Joined(F, T))]
<1>1. ASSUME NEW T \in SUBSET DOMAIN F, NEW x \in T
      PROVE  C[T] = f[x] + C[T \ {x}]
  <2> DEFINE R == T \ {x}
  <2>1. Joined(F, T) = F[x] \cup Joined(F, R)
    BY DEF Joined
  <2>2. F[x] \cap Joined(F, R) = {}
    BY DEF Joined, Divides
  <2>3. F[x] \in SUBSET S /\ Joined(F, R) \in SUBSET S
    BY DEF Joined, Divides
  <2>4. IsFiniteSet(F[x]) /\ IsFiniteSet(Joined(F, R))
    BY <2>3, FS_Subset
  <2>5. Cardinality(Joined(F, T)) = Cardinality(F[x]) + Cardinality(Joined(F, R))
    <3> HIDE DEF R
    <3>1. Cardinality(F[x] \cap Joined(F, R)) = 0
      BY <2>2, FS_EmptySet
    <3>2. Cardinality(F[x]) \in Nat /\ Cardinality(Joined(F, R)) \in Nat
      BY <2>4, FS_CardinalityType
    <3>3. Cardinality(F[x] \cup Joined(F, R)) = Cardinality(F[x]) + Cardinality(Joined(F, R))
              - Cardinality(F[x] \cap Joined(F, R))
      BY <2>4, FS_Union
    <3> QED BY <2>1, <3>1, <3>2, <3>3
  <2> QED BY <2>5
<1>2. C[{}] = 0
  <2>1. Joined(F, {}) = {}
    BY DEF Joined
  <2> QED BY <2>1, FS_EmptySet
<1>3. DOMAIN f = DOMAIN F
  OBVIOUS
<1>4. C = SumOver(f, C)
  <2> HIDE DEF f
  <2>1. ASSUME NEW T \in SUBSET DOMAIN F, T # {}
        PROVE  C[T] = f[Any(T)] + C[T \ {Any(T)}]
    BY <1>1, <2>1 DEF Any
  <2> QED BY <1>2, <1>3, <2>1 DEF SumOver
<1> HIDE DEF C, f
<1>5. SumFunction(f) = C[DOMAIN f]
  BY <1>3, <1>4, SumIs
<1>6. C[DOMAIN f] = Cardinality(S)
  BY <1>3 DEF C, Divides
<1> QED BY <1>5, <1>6 DEF f

\* The same of what is picked from a divided set.
LEMMA CountsAddUp ==
  ASSUME NEW T, IsFiniteSet(T), NEW P, IsFiniteSet(DOMAIN P), Divides(P, T), NEW S \in SUBSET T,
         NEW f, DOMAIN f = DOMAIN P, f = [s \in DOMAIN P |-> f[s]],
         \A s \in DOMAIN P : f[s] = Cardinality({x \in P[s] : x \in S})
  PROVE  SumFunction(f) = Cardinality(S)
<1> DEFINE F == [s \in DOMAIN P |-> {x \in P[s] : x \in S}]
<1>1. DOMAIN F = DOMAIN P /\ \A s \in DOMAIN P : F[s] = {x \in P[s] : x \in S}
  OBVIOUS
<1>2. f = [s \in DOMAIN F |-> Cardinality(F[s])]
  BY <1>1
<1> HIDE DEF F
<1>3. Divides(F, S)
  BY <1>1 DEF Divides, Joined
<1>4. IsFiniteSet(S)
  BY FS_Subset
<1> QED BY <1>1, <1>2, <1>3, <1>4, PartsAddUp

LEMMA ImageFinite ==
  ASSUME NEW g, IsFiniteSet(DOMAIN g)
  PROVE  IsFiniteSet({g[x] : x \in DOMAIN g})
<1> DEFINE T == {g[x] : x \in DOMAIN g}
           h == [x \in DOMAIN g |-> g[x]]
<1>1. h \in Surjection(DOMAIN g, T)
  BY DEF Surjection
<1> HIDE DEF h, T
<1>2. IsFiniteSet(T)
  BY <1>1, FS_Surjection
<1> QED BY <1>2 DEF T

-----------------------------------------------------------------------------
\* The figures of a report.

\* A dataset as the reports get it: finite, every row of one of its cases.
Joinable(d) ==
  /\ IsFiniteSet(d.cases) /\ IsFiniteSet(d.documents) /\ IsFiniteSet(d.generated)
  /\ IsFiniteSet(d.analyses)
  /\ \A a, b \in d.cases : a.id = b.id => a = b
  /\ \A c \in d.cases : c.status \in {LifecycleOrder[i] : i \in DOMAIN LifecycleOrder}
  /\ \A r \in d.documents \cup d.generated \cup d.analyses : \E c \in d.cases : c.id = r.case

\* Rows are taken in by the cases that were read.
LEMMA DatasetJoins ==
  ASSUME NEW x \in DOMAIN Datasets, NEW y \in DOMAIN Datasets, NEW u, NEW f
  PROVE  Joinable(DashboardDataset(Datasets[x].cases, Datasets[y], u, f))
<1> DEFINE d == DashboardDataset(Datasets[x].cases, Datasets[y], u, f)
<1>1. /\ d.cases \in SUBSET Datasets[x].cases
      /\ d.documents \in SUBSET Datasets[y].documents
      /\ d.generated \in SUBSET Datasets[y].generated
      /\ d.analyses \in SUBSET Datasets[y].analyses
  BY DEF DashboardDataset, FilterCases
<1>2. \A r \in d.documents \cup d.generated \cup d.analyses : r.case \in {c.id : c \in d.cases}
  BY DEF DashboardDataset
<1> HIDE DEF d
<1>3. /\ IsFiniteSet(d.cases) /\ IsFiniteSet(d.documents) /\ IsFiniteSet(d.generated)
      /\ IsFiniteSet(d.analyses)
  BY <1>1, FS_Subset, DatasetsAssumption
<1>4. /\ \A a, b \in d.cases : a.id = b.id => a = b
      /\ \A c \in d.cases : c.status \in {LifecycleOrder[i] : i \in DOMAIN LifecycleOrder}
  BY <1>1, DatasetsAssumption
<1>5. \A r \in d.documents \cup d.generated \cup d.analyses : \E c \in d.cases : c.id = r.case
  BY <1>2
<1> QED BY <1>3, <1>4, <1>5 DEF Joinable, d

\* Every case is of the station it is counted for, every row of the case's.
LEMMA StationParts ==
  ASSUME NEW d, Joinable(d), NEW D, D = {c.station : c \in d.cases}
  PROVE  /\ IsFiniteSet(D)
         /\ Divides([s \in D |-> AtStation(d, s).cases], d.cases)
         /\ Divides([s \in D |-> AtStation(d, s).documents], d.documents)
         /\ Divides([s \in D |-> AtStation(d, s).generated], d.generated)
         /\ Divides([s \in D |-> AtStation(d, s).analyses], d.analyses)
<1>1. IsFiniteSet(D)
  <2> DEFINE g == [c \in d.cases |-> c.station]
  <2>1. IsFiniteSet(DOMAIN g) /\ D = {g[x] : x \in DOMAIN g}
    BY DEF Joinable
  <2> HIDE DEF g
  <2> QED BY <2>1, ImageFinite
<1>2. Divides([s \in D |-> AtStation(d, s).cases], d.cases)
  <2> DEFINE F == [s \in D |-> AtStation(d, s).cases]
  <2>1. \A s \in D : F[s] = {c \in d.cases : c.station = s}
    BY DEF AtStation
  <2>2. DOMAIN F = D
    OBVIOUS
  <2>3. Divides(F, d.cases)
    <3> HIDE DEF F
    <3> QED BY <2>1, <2>2 DEF Divides, Joined
  <2> QED BY <2>3
<1>3. ASSUME NEW R,
             \A r \in R : \E c \in d.cases : c.id = r.case
      PROVE  Divides([s \in D |-> {r \in R : r.case \in {c.id : c \in {e \in d.cases : e.station = s}}}], R)
  <2> DEFINE F == [s \in D |-> {r \in R : r.case \in {c.id : c \in {e \in d.cases : e.station = s}}}]
  <2>1. ASSUME NEW r \in R PROVE \E s \in D : r \in F[s]
    BY <1>3
  <2>2. ASSUME NEW s \in D, NEW t \in D, NEW r, r \in F[s], r \in F[t] PROVE s = t
    <3>1. PICK a \in d.cases : a.station = s /\ a.id = r.case
      BY <2>2
    <3>2. PICK b \in d.cases : b.station = t /\ b.id = r.case
      BY <2>2
    <3> QED BY <3>1, <3>2 DEF Joinable
  <2>3. \A s \in D : F[s] \subseteq R
    OBVIOUS
  <2>4. DOMAIN F = D
    OBVIOUS
  <2>5. Divides(F, R)
    <3> HIDE DEF F
    <3> QED BY <2>1, <2>2, <2>3, <2>4 DEF Divides, Joined
  <2> QED BY <2>5
<1>4. /\ \A r \in d.documents : \E c \in d.cases : c.id = r.case
      /\ \A r \in d.generated : \E c \in d.cases : c.id = r.case
      /\ \A r \in d.analyses : \E c \in d.cases : c.id = r.case
  BY DEF Joinable
<1>5. /\ Divides([s \in D |-> AtStation(d, s).documents], d.documents)
      /\ Divides([s \in D |-> AtStation(d, s).generated], d.generated)
      /\ Divides([s \in D |-> AtStation(d, s).analyses], d.analyses)
  BY <1>3, <1>4 DEF AtStation
<1> QED BY <1>1, <1>2, <1>5

\* The figures of the stations add up to the overview.
LEMMA StationsAddUp ==
  ASSUME NEW d, Joinable(d), NEW key \in DOMAIN Figures(d)
  PROVE  SumFunction([s \in DOMAIN StationMetrics(d) |-> StationMetrics(d)[s].figures[key]])
           = Figures(d)[key]
<1> DEFINE D == {c.station : c \in d.cases}
           figures == [s \in D |-> Figures(AtStation(d, s))[key]]
           cases == [s \in D |-> AtStation(d, s).cases]
           documents == [s \in D |-> AtStation(d, s).documents]
           generated == [s \in D |-> AtStation(d, s).generated]
           analyses == [s \in D |-> AtStation(d, s).analyses]
<1>1. [s \in DOMAIN StationMetrics(d) |-> StationMetrics(d)[s].figures[key]] = figures
  BY DEF StationMetrics
<1>2. /\ IsFiniteSet(D) /\ Divides(cases, d.cases) /\ Divides(documents, d.documents)
      /\ Divides(generated, d.generated) /\ Divides(analyses, d.analyses)
  BY StationParts
<1>3. /\ IsFiniteSet(d.cases) /\ IsFiniteSet(d.documents) /\ IsFiniteSet(d.generated)
      /\ IsFiniteSet(d.analyses)
  BY DEF Joinable
<1>4. /\ DOMAIN cases = D /\ DOMAIN documents = D /\ DOMAIN generated = D
      /\ DOMAIN analyses = D /\ DOMAIN figures = D /\ figures = [s \in D |-> figures[s]]
  OBVIOUS
<1>5. ASSUME NEW s \in D
      PROVE  figures[s] = Figures([cases |-> cases[s], documents |-> documents[s],
                                   generated |-> generated[s], analyses |-> analyses[s]])[key]
  BY DEF Figures, AtStation
<1> HIDE DEF D, figures, cases, documents, generated, analyses
<1>6. CASE key \in {"cases", "firs", "completed", "court"}
  <2> DEFINE S == CASE key = "cases" -> d.cases
                    [] key = "firs" -> {c \in d.cases : c.status \in FirOrLater}
                    [] key = "completed" -> {c \in d.cases : c.status \in InvestigationCompleted}
                    [] key = "court" -> {c \in d.cases : c.status \in CourtProgressed}
  <2>1. S \in SUBSET d.cases /\ Figures(d)[key] = Cardinality(S)
    <3>1. CASE key = "cases"
      BY <3>1 DEF Figures
    <3>2. CASE key = "firs"
      BY <3>2 DEF Figures, Quantify
    <3>3. CASE key = "completed"
      BY <3>3 DEF Figures, Quantify
    <3>4. CASE key = "court"
      BY <3>4 DEF Figures, Quantify
    <3> QED BY <1>6, <3>1, <3>2, <3>3, <3>4
  <2>2. \A s \in D : cases[s] \subseteq d.cases
    BY <1>2, <1>4 DEF Divides, Joined
  <2>3. ASSUME NEW s \in D PROVE figures[s] = Cardinality({c \in cases[s] : c \in S})
    <3>1. CASE key = "cases"
      <4>1. {c \in cases[s] : c \in S} = cases[s]
        BY <2>2, <3>1
      <4> QED BY <1>5, <3>1, <4>1 DEF Figures
    <3>2. CASE key = "firs"
      <4>1. {c \in cases[s] : c \in S} = {c \in cases[s] : c.status \in FirOrLater}
        BY <2>2, <3>2
      <4> QED BY <1>5, <3>2, <4>1 DEF Figures, Quantify
    <3>3. CASE key = "completed"
      <4>1. {c \in cases[s] : c \in S} = {c \in cases[s] : c.status \in InvestigationCompleted}
        BY <2>2, <3>3
      <4> QED BY <1>5, <3>3, <4>1 DEF Figures, Quantify
    <3>4. CASE key = "court"
      <4>1. {c \in cases[s] : c \in S} = {c \in cases[s] : c.status \in CourtProgressed}
        BY <2>2, <3>4
      <4> QED BY <1>5, <3>4, <4>1 DEF Figures, Quantify
    <3> QED BY <1>6, <3>1, <3>2, <3>3, <3>4
  <2> HIDE DEF S
  <2> QED BY <1>1, <1>2, <1>3, <1>4, <2>1, <2>3, CountsAddUp
<1>7. CASE key = "documents"
  <2>1. \A s \in D : {r \in documents[s] : r \in d.documents} = documents[s]
    BY <1>2, <1>4 DEF Divides, Joined
  <2>2. \A s \in D : figures[s] = Cardinality({r \in documents[s] : r \in d.documents})
    BY <1>5, <1>7, <2>1 DEF Figures
  <2>3. Figures(d)[key] = Cardinality(d.documents)
    BY <1>7 DEF Figures
  <2> QED BY <1>1, <1>2, <1>3, <1>4, <2>2, <2>3, CountsAddUp
<1>8. CASE key = "analyses"
  <2>1. \A s \in D : {r \in analyses[s] : r \in d.analyses} = analyses[s]
    BY <1>2, <1>4 DEF Divides, Joined
  <2>2. \A s \in D : figures[s] = Cardinality({r \in analyses[s] : r \in d.analyses})
    BY <1>5, <1>8, <2>1 DEF Figures
  <2>3. Figures(d)[key] = Cardinality(d.analyses)
    BY <1>8 DEF Figures
  <2> QED BY <1>1, <1>2, <1>3, <1>4, <2>2, <2>3, CountsAddUp
<1>9. CASE key \in {"generated", "drafts"}
  <2> DEFINE S == IF key = "generated" THEN d.generated ELSE {g \in d.generated : g.fir}
  <2>1. S \in SUBSET d.generated /\ Figures(d)[key] = Cardinality(S)
    <3>1. CASE key = "generated"
      BY <3>1 DEF Figures
    <3>2. CASE key = "drafts"
      BY <3>2 DEF Figures, Quantify
    <3> QED BY <1>9, <3>1, <3>2
  <2>2. \A s \in D : generated[s] \subseteq d.generated
    BY <1>2, <1>4 DEF Divides, Joined
  <2>3. ASSUME NEW s \in D PROVE figures[s] = Cardinality({g \in generated[s] : g \in S})
    <3>1. CASE key = "generated"
      <4>1. {g \in generated[s] : g \in S} = generated[s]
        BY <2>2, <3>1
      <4> QED BY <1>5, <3>1, <4>1 DEF Figures
    <3>2. CASE key = "drafts"
      <4>1. {g \in generated[s] : g \in S} = {g \in generated[s] : g.fir}
        BY <2>2, <3>2
      <4> QED BY <1>5, <3>2, <4>1 DEF Figures, Quantify
    <3> QED BY <1>9, <3>1, <3>2
  <2> HIDE DEF S
  <2> QED BY <1>1, <1>2, <1>3, <1>4, <2>1, <2>3, CountsAddUp
<1>10. key \in {"cases", "firs", "completed", "court", "documents", "generated", "drafts", "analyses"}
  BY DEF Figures
<1> QED BY <1>6, <1>7, <1>8, <1>9, <1>10

\* Everything counts for the one it is attributed to.
LEMMA OwnersCount ==
  ASSUME NEW T, IsFiniteSet(T), NEW O, IsFiniteSet(O), NEW w \in [T -> O], NEW S \in SUBSET T,
         NEW f, f = [o \in O |-> Cardinality({x \in S : w[x] = o})]
  PROVE  SumFunction(f) = Cardinality(S)
<1> DEFINE P == [o \in O |-> {x \in T : w[x] = o}]
<1>1. DOMAIN P = O /\ \A o \in O : P[o] = {x \in T : w[x] = o}
  OBVIOUS
<1> HIDE DEF P
<1>2. Divides(P, T)
  BY <1>1 DEF Divides, Joined
<1>3. ASSUME NEW o \in O PROVE f[o] = Cardinality({x \in P[o] : x \in S})
  <2>1. {x \in P[o] : x \in S} = {x \in S : w[x] = o}
    BY <1>1
  <2> QED BY <2>1
<1> QED BY <1>1, <1>2, <1>3, CountsAddUp

\* The figures of the officers add up to the overview.
LEMMA OfficersAddUp ==
  ASSUME NEW d, Joinable(d),
         NEW key \in {"cases", "firs", "documents", "generated", "drafts", "analyses"}
  PROVE  SumFunction([o \in DOMAIN OfficerMetrics(d) |-> OfficerMetrics(d)[o][key]])
           = Figures(d)[key]
<1> DEFINE rows == d.documents \cup d.generated \cup d.analyses
           maker == [c \in d.cases |-> Maker(c)]
           owner == [c \in d.cases |-> Owner(c)]
           author == [r \in rows |-> By(r)]
           O == {Maker(c) : c \in d.cases} \cup {Owner(c) : c \in d.cases} \cup {By(r) : r \in rows}
           figures == [o \in O |-> OfficerMetrics(d)[o][key]]
<1>1. DOMAIN OfficerMetrics(d) = O
  BY DEF OfficerMetrics
<1>2. /\ IsFiniteSet(d.cases) /\ IsFiniteSet(d.documents) /\ IsFiniteSet(d.generated)
      /\ IsFiniteSet(d.analyses)
  BY DEF Joinable
<1>3. IsFiniteSet(rows)
  BY <1>2, FS_Union
<1>4. IsFiniteSet(O)
  <2>1. IsFiniteSet({maker[c] : c \in DOMAIN maker})
    <3>1. IsFiniteSet(DOMAIN maker)
      BY <1>2
    <3> HIDE DEF maker
    <3> QED BY <3>1, ImageFinite
  <2>2. IsFiniteSet({owner[c] : c \in DOMAIN owner})
    <3>1. IsFiniteSet(DOMAIN owner)
      BY <1>2
    <3> HIDE DEF owner
    <3> QED BY <3>1, ImageFinite
  <2>3. IsFiniteSet({author[r] : r \in DOMAIN author})
    <3>1. IsFiniteSet(DOMAIN author)
      BY <1>3
    <3> HIDE DEF author
    <3> QED BY <3>1, ImageFinite
  <2>4. O = {maker[c] : c \in DOMAIN maker} \cup {owner[c] : c \in DOMAIN owner}
              \cup {author[r] : r \in DOMAIN author}
    OBVIOUS
  <2> HIDE DEF O, maker, owner, author
  <2> QED BY <2>1, <2>2, <2>3, <2>4, FS_Union
<1>5. maker \in [d.cases -> O] /\ owner \in [d.cases -> O]
  OBVIOUS
<1>6. \A T \in {d.documents, d.generated, d.analyses} : [r \in T |-> By(r)] \in [T -> O]
  OBVIOUS
<1>7. CASE key = "cases"
  <2>1. figures = [o \in O |-> Cardinality({c \in d.cases : maker[c] = o})]
    BY <1>7 DEF OfficerMetrics, Quantify
  <2>2. Figures(d)[key] = Cardinality(d.cases)
    BY <1>7 DEF Figures
  <2> HIDE DEF figures, O, maker
  <2> QED BY <1>1, <1>2, <1>4, <1>5, <2>1, <2>2, OwnersCount DEF figures
<1>8. CASE key = "firs"
  <2> DEFINE S == {c \in d.cases : c.status \in FirOrLater}
  <2>1. figures = [o \in O |-> Cardinality({c \in S : owner[c] = o})]
    <3>1. ASSUME NEW o \in O
          PROVE  {c \in d.cases : Owner(c) = o /\ c.status \in FirOrLater} = {c \in S : owner[c] = o}
      OBVIOUS
    <3>2. \A o \in O : OfficerMetrics(d)[o][key] =
                        Cardinality({c \in d.cases : Owner(c) = o /\ c.status \in FirOrLater})
      BY <1>8 DEF OfficerMetrics, Quantify
    <3> HIDE DEF O, S, owner
    <3> QED BY <3>1, <3>2
  <2>2. Figures(d)[key] = Cardinality(S) /\ S \in SUBSET d.cases
    BY <1>8 DEF Figures, Quantify
  <2> HIDE DEF figures, O, owner, S
  <2>3. SumFunction(figures) = Cardinality(S)
    BY <1>2, <1>4, <1>5, <2>1, <2>2, OwnersCount
  <2> QED BY <1>1, <2>2, <2>3 DEF figures
<1>9. ASSUME NEW T \in {d.documents, d.generated, d.analyses}, NEW S \in SUBSET T, IsFiniteSet(T),
             Figures(d)[key] = Cardinality(S),
             \A o \in O : OfficerMetrics(d)[o][key] = Cardinality({r \in S : By(r) = o})
      PROVE  SumFunction(figures) = Figures(d)[key]
  <2> DEFINE w == [r \in T |-> By(r)]
  <2>1. \A o \in O : {r \in S : By(r) = o} = {r \in S : w[r] = o}
    OBVIOUS
  <2>2. w \in [T -> O]
    BY <1>6
  <2> HIDE DEF w, O
  <2>3. figures = [o \in O |-> Cardinality({r \in S : w[r] = o})]
    BY <1>9, <2>1
  <2> HIDE DEF figures
  <2> QED BY <1>4, <1>9, <2>2, <2>3, OwnersCount
<1>10. CASE key = "documents"
  <2>1. Figures(d)[key] = Cardinality(d.documents)
    BY <1>10 DEF Figures
  <2>2. \A o \in O : OfficerMetrics(d)[o][key] = Cardinality({r \in d.documents : By(r) = o})
    BY <1>10 DEF OfficerMetrics, Quantify
  <2> HIDE DEF O
  <2> QED BY <1>1, <1>2, <1>9, <2>1, <2>2
<1>11. CASE key = "generated"
  <2>1. Figures(d)[key] = Cardinality(d.generated)
    BY <1>11 DEF Figures
  <2>2. \A o \in O : OfficerMetrics(d)[o][key] = Cardinality({r \in d.generated : By(r) = o})
    BY <1>11 DEF OfficerMetrics, Quantify
  <2> HIDE DEF O
  <2> QED BY <1>1, <1>2, <1>9, <2>1, <2>2
<1>12. CASE key = "analyses"
  <2>1. Figures(d)[key] = Cardinality(d.analyses)
    BY <1>12 DEF Figures
  <2>2. \A o \in O : OfficerMetrics(d)[o][key] = Cardinality({r \in d.analyses : By(r) = o})
    BY <1>12 DEF OfficerMetrics, Quantify
  <2> HIDE DEF O
  <2> QED BY <1>1, <1>2, <1>9, <2>1, <2>2
<1>13. CASE key = "drafts"
  <2> DEFINE S == {g \in d.generated : g.fir}
  <2>1. Figures(d)[key] = Cardinality(S) /\ S \in SUBSET d.generated
    BY <1>13 DEF Figures, Quantify
  <2>2. \A o \in O : OfficerMetrics(d)[o][key] = Cardinality({r \in S : By(r) = o})
    <3>1. \A o : {r \in d.generated : By(r) = o /\ r.fir} = {r \in S : By(r) = o}
      OBVIOUS
    <3>2. \A o \in O : OfficerMetrics(d)[o][key] = Cardinality({r \in d.generated : By(r) = o /\ r.fir})
      BY <1>13 DEF OfficerMetrics, Quantify
    <3> HIDE DEF O, S
    <3> QED BY <3>1, <3>2
  <2> HIDE DEF O, S
  <2> QED BY <1>1, <1>2, <1>9, <2>1, <2>2
<1> QED BY <1>7, <1>8, <1>10, <1>11, <1>12, <1>13

\* Every case is at some stage.
LEMMA StagesAddUp ==
  ASSUME NEW d, Joinable(d), NEW f, NEW r, r = LifecycleSummary(d.cases, f)
  PROVE  SumFunction([x \in DOMAIN r |-> r[x].count]) = Figures(d).cases
<1> DEFINE D == {LifecycleOrder[i] : i \in DOMAIN LifecycleOrder}
           status == [c \in d.cases |-> c.status]
           counts == [x \in D |-> Cardinality({c \in d.cases : status[c] = x})]
<1>1. IsFiniteSet(D)
  <2>1. IsFiniteSet(DOMAIN LifecycleOrder)
    <3>1. DOMAIN LifecycleOrder = 1..9
      BY DEF LifecycleOrder
    <3>2. 9 \in Int /\ \A n \in Int : IsFiniteSet(1..n)
      BY FS_Interval
    <3> QED BY <3>1, <3>2, Zenon
  <2> QED BY <2>1, ImageFinite
<1>2. [x \in DOMAIN r |-> r[x].count] = counts
  <2>1. \A x : {c \in d.cases : c.status = x} = {c \in d.cases : status[c] = x}
    OBVIOUS
  <2>2. DOMAIN r = D /\ \A x \in D : r[x].count = Cardinality({c \in d.cases : c.status = x})
    BY DEF LifecycleSummary
  <2> HIDE DEF D, status
  <2> QED BY <2>1, <2>2
<1>3. status \in [d.cases -> D] /\ IsFiniteSet(d.cases)
  BY DEF Joinable
<1>4. Figures(d).cases = Cardinality(d.cases)
  BY DEF Figures
<1> HIDE DEF D, status
<1>5. SumFunction(counts) = Cardinality(d.cases)
  <2> HIDE DEF counts
  <2> QED BY <1>1, <1>3, OwnersCount DEF counts
<1> QED BY <1>2, <1>4, <1>5

\* Cases get further one stage after the other.
LEMMA StagesAreNested ==
  ASSUME NEW d, Joinable(d)
  PROVE  Figures(d).court <= Figures(d).completed /\ Figures(d).completed <= Figures(d).firs
<1> DEFINE In(statuses) == {c \in d.cases : c.status \in statuses}
<1>1. \A statuses : IsFiniteSet(In(statuses))
  BY FS_Subset DEF Joinable
<1>2. In(CourtProgressed) \in SUBSET In(InvestigationCompleted)
  BY DEF CourtProgressed, InvestigationCompleted
<1>3. In(InvestigationCompleted) \in SUBSET In(FirOrLater)
  BY DEF FirOrLater, InvestigationCompleted
<1>4. /\ Figures(d).court = Cardinality(In(CourtProgressed))
      /\ Figures(d).completed = Cardinality(In(InvestigationCompleted))
      /\ Figures(d).firs = Cardinality(In(FirOrLater))
  BY DEF Figures, Quantify
<1> HIDE DEF In
<1> QED BY <1>1, <1>2, <1>3, <1>4, FS_Subset

\* A case is completed or pending, and pending when its times are out of order.
LEMMA ProcessingAddsUp ==
  ASSUME NEW d, Joinable(d), NEW p, p = ProcessingTimes(d)
  PROVE  p.completed + p.pending = Figures(d).cases /\ p.negative <= p.pending
<1>1. \E drafted, done \in SUBSET d.cases :
        /\ p.completed = Cardinality(done) /\ p.pending = Cardinality(d.cases \ done)
        /\ p.negative = Cardinality(drafted \ done) /\ done \subseteq drafted
  BY DEF ProcessingTimes
<1>2. PICK drafted, done \in SUBSET d.cases :
        /\ p.completed = Cardinality(done) /\ p.pending = Cardinality(d.cases \ done)
        /\ p.negative = Cardinality(drafted \ done)
  BY <1>1
<1>3. IsFiniteSet(d.cases) /\ Figures(d).cases = Cardinality(d.cases)
  BY DEF Joinable, Figures
<1>4. d.cases \cap done = done /\ drafted \ done \in SUBSET (d.cases \ done)
  OBVIOUS
<1>5. Cardinality(d.cases \ done) = Cardinality(d.cases) - Cardinality(done)
  <2>1. Cardinality(d.cases \ done)
          = Cardinality(d.cases) - Cardinality(d.cases \cap done)
    BY <1>3, FS_Difference
  <2>2. Cardinality(d.cases \cap done) = Cardinality(done)
    BY <1>4
  <2> QED BY <2>1, <2>2
<1>6. IsFiniteSet(done) /\ IsFiniteSet(d.cases \ done)
  BY <1>3, FS_Subset, FS_Difference
<1>7. Cardinality(drafted \ done) <= Cardinality(d.cases \ done)
  BY <1>4, <1>6, FS_Subset
<1>8. Cardinality(done) \in Nat /\ Cardinality(d.cases) \in Nat
  BY <1>3, <1>6, FS_CardinalityType
<1> QED BY <1>2, <1>3, <1>5, <1>7, <1>8

\* What one report counts.
LEMMA OneReportAddsUp ==
  ASSUME NEW d, Joinable(d), NEW f
  PROVE  Adds(Report(d, f))
<1> DEFINE r == Report(d, f)
<1>1. /\ r.overview = Figures(d) /\ r.stations = StationMetrics(d) /\ r.officers = OfficerMetrics(d)
      /\ r.lifecycle = LifecycleSummary(d.cases, f) /\ r.processing = ProcessingTimes(d)
  BY DEF Report
<1> HIDE DEF r
<1>2. \A key \in DOMAIN r.overview :
        SumFunction([s \in DOMAIN r.stations |-> r.stations[s].figures[key]]) = r.overview[key]
  BY <1>1, StationsAddUp
<1>3. \A key \in {"cases", "firs", "documents", "generated", "drafts", "analyses"} :
        SumFunction([o \in DOMAIN r.officers |-> r.officers[o][key]]) = r.overview[key]
  BY <1>1, OfficersAddUp
<1>4. SumFunction([x \in DOMAIN r.lifecycle |-> r.lifecycle[x].count]) = r.overview.cases
  BY <1>1, StagesAddUp
<1>5. /\ r.overview.court <= r.overview.completed /\ r.overview.completed <= r.overview.firs
      /\ r.processing.completed + r.processing.pending = r.overview.cases
      /\ r.processing.negative <= r.processing.pending
  BY <1>1, StagesAreNested, ProcessingAddsUp
<1>6. Adds(r)
  BY <1>2, <1>3, <1>4, <1>5 DEF Adds
<1> QED BY <1>6 DEF r

-----------------------------------------------------------------------------
\* Steps.

LEMMA InitInv == Init => IInv
<1> SUFFICES ASSUME Init PROVE IInv
  OBVIOUS
<1>1. NoExport \in ExportRow /\ NoSnapshot \in SnapshotRow
  BY DEF NoExport, NoSnapshot, ExportRow, SnapshotRow
<1>2. TypeOK
  BY <1>1 DEF Init, TypeOK
<1>3. \A j \in Exports : export[j].status = "none" /\ export[j].file = None
  BY DEF Init, NoExport
<1>4. \A k \in Snapshots : snapshot[k].status = "none" /\ snapshot[k].payload = None
  BY DEF Init, NoSnapshot
<1>5. HeldRowsWait /\ OneHolder /\ ReadRowsExist
  BY DEF Init, HeldRowsWait, OneHolder, ReadRowsExist
<1>6. RowsBegin /\ ContentsSound /\ FileIffCompleted
  BY <1>3, <1>4 DEF RowsBegin, ContentsSound, FileIffCompleted
<1> QED BY <1>2, <1>5, <1>6 DEF IInv

\* A lock has the fields of its kind.
LEMMA LockFields ==
  ASSUME TypeOK, NEW w \in Workers, held[w] # None
  PROVE  /\ held[w] \in Locks /\ held[w].kind \in {"export", "snapshot"}
         /\ held[w].kind = "export" => held[w].id \in Exports
         /\ held[w].kind = "snapshot" => held[w].id \in Snapshots
BY DEF TypeOK, Locks

LEMMA TxnFields ==
  ASSUME TypeOK, NEW s \in Sessions, txn[s].op # "idle"
  PROVE  txn[s] \in Opened /\ txn[s] # Idle
BY DEF TypeOK, Idle

\* A row nobody holds is written; what it was is told by what it becomes.
LEMMA ExportWritten ==
  ASSUME IInv, NEW j \in Exports, NEW row \in ExportRow,
         export' = [export EXCEPT ![j] = row],
         row.status # "none", row.filters \in Filters,
         row.file # None => Sound(row.file) /\ row.filters = row.file.filters,
         j \in overlapped' \/ (row.file # None <=> row.status = "completed"),
         overlapped \subseteq overlapped' /\ overlapped' \subseteq Exports,
         \A w \in Workers :
           held'[w] # None => /\ held'[w] = held[w]
                              /\ held[w].kind = "export" => held[w].id # j,
         held' \in [Workers -> Locks \cup {None}],
         \A s \in Sessions : txn'[s] = txn[s] \/ txn'[s] = Idle,
         txn' \in [Sessions -> Opened \cup {Idle}],
         UNCHANGED <<data, officer, snapshot>>
  PROVE  IInv'
<1>1. TypeOK'
  BY DEF IInv, TypeOK
<1>2. export'[j] = row /\ \A i \in Exports \ {j} : export'[i] = export[i]
  BY DEF IInv, TypeOK
<1>3. HeldRowsWait'
  <2>1. \A w \in Workers : held'[w] # None /\ held'[w].kind = "export" =>
          held'[w].id \in Exports \ {j}
    BY LockFields DEF IInv
  <2> QED BY <1>2, <2>1 DEF IInv, HeldRowsWait
<1>4. OneHolder'
  BY DEF IInv, OneHolder
<1>5. RowsBegin'
  BY <1>2 DEF IInv, RowsBegin
<1>6. ReadRowsExist'
  <2>1. \A s \in Sessions : txn'[s] # Idle => txn'[s].j \in Exports /\ txn[s] = txn'[s]
    BY DEF Opened
  <2> QED BY <1>2, <2>1 DEF IInv, ReadRowsExist
<1>7. ContentsSound' /\ FileIffCompleted'
  <2>1. \A content : Sound(content)' = Sound(content)
    BY DEF Sound
  <2> QED BY <1>2, <2>1 DEF IInv, ContentsSound, FileIffCompleted
<1> QED BY <1>1, <1>3, <1>4, <1>5, <1>6, <1>7 DEF IInv

LEMMA SnapshotWritten ==
  ASSUME IInv, NEW k \in Snapshots, NEW row \in SnapshotRow,
         snapshot' = [snapshot EXCEPT ![k] = row],
         row.status # "none", row.filters \in Filters,
         row.payload # None => Sound(row.payload) /\ row.filters = row.payload.filters,
         \A w \in Workers :
           held'[w] # None => /\ held'[w] = held[w]
                              /\ held[w].kind = "snapshot" => held[w].id # k,
         held' \in [Workers -> Locks \cup {None}],
         UNCHANGED <<data, officer, export, txn, overlapped>>
  PROVE  IInv'
<1>1. TypeOK'
  BY DEF IInv, TypeOK
<1>2. snapshot'[k] = row /\ \A i \in Snapshots \ {k} : snapshot'[i] = snapshot[i]
  BY DEF IInv, TypeOK
<1>3. HeldRowsWait'
  <2>1. \A w \in Workers : held'[w] # None /\ held'[w].kind # "export" =>
          held'[w].id \in Snapshots \ {k}
    BY LockFields DEF IInv
  <2> QED BY <1>2, <2>1 DEF IInv, HeldRowsWait
<1>4. OneHolder'
  BY DEF IInv, OneHolder
<1>5. RowsBegin'
  BY <1>2 DEF IInv, RowsBegin
<1>6. ReadRowsExist'
  BY DEF IInv, ReadRowsExist
<1>7. ContentsSound' /\ FileIffCompleted'
  <2>1. \A content : Sound(content)' = Sound(content)
    BY DEF Sound
  <2> QED BY <1>2, <2>1 DEF IInv, ContentsSound, FileIffCompleted
<1> QED BY <1>1, <1>3, <1>4, <1>5, <1>6, <1>7 DEF IInv

LEMMA CreateKeeps ==
  ASSUME IInv, NEW j \in Exports, CreateExportJob(j)
  PROVE  IInv'
<1>1. PICK f \in Requested : \E g \in ResolveDashboardFilters(officer, f) :
        export' = [export EXCEPT ![j].status = "queued", ![j].filters = g]
  BY DEF CreateExportJob
<1>2. PICK g \in ResolveDashboardFilters(officer, f) :
        export' = [export EXCEPT ![j].status = "queued", ![j].filters = g]
  BY <1>1
<1> DEFINE row == [export[j] EXCEPT !.status = "queued", !.filters = g]
<1>3. g \in Filters
  BY <1>2, ResolvedFilters, RequestsAssumption DEF IInv, TypeOK
<1>4. export[j] \in ExportRow /\ export[j].status = "none" /\ export[j].file = None
  BY DEF IInv, TypeOK, CreateExportJob, NextRow, RowsBegin
<1>5. /\ row \in ExportRow /\ row.status = "queued" /\ row.filters = g /\ row.file = None
      /\ export' = [export EXCEPT ![j] = row]
  BY <1>2, <1>3, <1>4 DEF ExportRow
<1> HIDE DEF row
<1>6. UNCHANGED <<data, officer, snapshot, held, txn, overlapped>>
  BY DEF CreateExportJob
<1>7. \A w \in Workers : held[w] # None /\ held[w].kind = "export" => held[w].id # j
  BY <1>4 DEF IInv, HeldRowsWait
<1> QED BY <1>3, <1>5, <1>6, <1>7, ExportWritten DEF IInv, TypeOK

LEMMA RefreshKeeps ==
  ASSUME IInv, NEW k \in Snapshots, RefreshSnapshot(k)
  PROVE  IInv'
<1>1. PICK f \in Requested : \E g \in ResolveDashboardFilters(officer, f) :
        snapshot' = [snapshot EXCEPT ![k].status = "Queued", ![k].filters = g]
  BY DEF RefreshSnapshot
<1>2. PICK g \in ResolveDashboardFilters(officer, f) :
        snapshot' = [snapshot EXCEPT ![k].status = "Queued", ![k].filters = g]
  BY <1>1
<1> DEFINE row == [snapshot[k] EXCEPT !.status = "Queued", !.filters = g]
<1>3. g \in Filters
  BY <1>2, ResolvedFilters, RequestsAssumption DEF IInv, TypeOK
<1>4. snapshot[k] \in SnapshotRow /\ snapshot[k].status = "none" /\ snapshot[k].payload = None
  BY DEF IInv, TypeOK, RefreshSnapshot, NextRow, RowsBegin
<1>5. /\ row \in SnapshotRow /\ row.status = "Queued" /\ row.filters = g /\ row.payload = None
      /\ snapshot' = [snapshot EXCEPT ![k] = row]
  BY <1>2, <1>3, <1>4 DEF SnapshotRow
<1> HIDE DEF row
<1>6. UNCHANGED <<data, officer, export, held, txn, overlapped>>
  BY DEF RefreshSnapshot
<1>7. \A w \in Workers : held[w] # None /\ held[w].kind = "snapshot" => held[w].id # k
  BY <1>4 DEF IInv, HeldRowsWait
<1> QED BY <1>3, <1>5, <1>6, <1>7, SnapshotWritten DEF IInv, TypeOK

LEMMA ReadKeeps ==
  ASSUME IInv, NEW s \in Sessions, NEW j \in Exports, ReadExport(s, j)
  PROVE  IInv'
<1>1. /\ export[j].status # "none" /\ UNCHANGED <<data, officer, export, snapshot, held, overlapped>>
      /\ \E op \in {"retry", "revoke"} : txn' = [txn EXCEPT ![s] = [op |-> op, j |-> j, read |-> export[j]]]
  BY DEF ReadExport
<1>2. PICK op \in {"retry", "revoke"} : txn' = [txn EXCEPT ![s] = [op |-> op, j |-> j, read |-> export[j]]]
  BY <1>1
<1> DEFINE t == [op |-> op, j |-> j, read |-> export[j]]
<1>3. t \in Opened /\ t.j = j
  BY DEF IInv, TypeOK, Opened
<1>4. TypeOK'
  BY <1>1, <1>2, <1>3 DEF IInv, TypeOK
<1>5. ReadRowsExist'
  BY <1>1, <1>2, <1>3 DEF IInv, TypeOK, ReadRowsExist
<1>6. HeldRowsWait' /\ OneHolder' /\ RowsBegin' /\ ContentsSound' /\ FileIffCompleted'
  BY <1>1 DEF IInv, HeldRowsWait, OneHolder, RowsBegin, ContentsSound, FileIffCompleted, Sound
<1> QED BY <1>4, <1>5, <1>6 DEF IInv

\* A request that wrote over what it had read writes no file and no inconsistent status,
\* and one that did not is in overlapped.
LEMMA CommitKeeps ==
  ASSUME IInv, NEW s \in Sessions, CommitExport(s)
  PROVE  IInv'
<1> DEFINE t == txn[s]
           old == export[t.j]
<1>1. t \in Opened /\ t # Idle /\ ~Locked(t.j)
  BY TxnFields DEF IInv, CommitExport
<1>2. t.j \in Exports /\ t.read \in ExportRow
  BY <1>1 DEF Opened
<1>3. old \in ExportRow /\ old.status # "none" /\ old.filters \in Filters
  BY <1>1, <1>2 DEF IInv, TypeOK, ReadRowsExist, RowsBegin
<1>4. PICK status \in {"queued", "revoked"}, revoked \in BOOLEAN :
        /\ export' = [export EXCEPT ![t.j] =
             [old EXCEPT !.status = Written(t.read.status, old.status, status),
                         !.file = Written(t.read.file, old.file, None),
                         !.revoked = revoked]]
  <2>1. old.revoked \in BOOLEAN
    BY <1>3 DEF ExportRow
  <2> QED BY <2>1 DEF CommitExport
<1> DEFINE st == Written(t.read.status, old.status, status)
           file == Written(t.read.file, old.file, None)
           row == [old EXCEPT !.status = st, !.file = file, !.revoked = revoked]
<1>5. /\ st \in {old.status, status} /\ file \in {old.file, None}
      /\ old = t.read => st = status /\ file = None
  BY DEF Written
<1> HIDE DEF st, file
<1>6. /\ row \in ExportRow /\ row.status = st /\ row.file = file /\ row.filters = old.filters
      /\ row.status # "none"
  BY <1>3, <1>4, <1>5 DEF ExportRow
<1>7. export' = [export EXCEPT ![t.j] = row]
  BY <1>4 DEF st, file
<1> HIDE DEF row
<1>8. /\ overlapped' = IF old # t.read THEN overlapped \cup {t.j} ELSE overlapped
      /\ txn' = [txn EXCEPT ![s] = Idle] /\ UNCHANGED <<data, officer, snapshot, held>>
  BY DEF CommitExport
<1>9. overlapped \subseteq overlapped' /\ overlapped' \subseteq Exports
  BY <1>2, <1>8 DEF IInv, TypeOK
<1>10. row.file # None => Sound(row.file) /\ row.filters = row.file.filters
  BY <1>2, <1>5, <1>6 DEF IInv, ContentsSound
<1>11. t.j \in overlapped' \/ (row.file # None <=> row.status = "completed")
  BY <1>5, <1>6, <1>8
<1>12. \A w \in Workers : held[w] # None /\ held[w].kind = "export" => held[w].id # t.j
  BY <1>1 DEF Locked
<1>13. txn' \in [Sessions -> Opened \cup {Idle}] /\ \A r \in Sessions : txn'[r] = txn[r] \/ txn'[r] = Idle
  BY <1>8 DEF IInv, TypeOK
<1>14. held' \in [Workers -> Locks \cup {None}]
  BY <1>8 DEF IInv, TypeOK
<1> HIDE DEF t
<1> QED BY <1>2, <1>3, <1>6, <1>7, <1>8, <1>9, <1>10, <1>11, <1>12, <1>13, <1>14, ExportWritten

\* The first free row, exports first.
LEMMA NextJobIsFree ==
  ASSUME TypeOK, Free("export") \cup Free("snapshot") # {}
  PROVE  /\ NextJob.kind \in {"export", "snapshot"} /\ NextJob.id \in Free(NextJob.kind)
         /\ [kind |-> NextJob.kind, id |-> NextJob.id, user |-> UserPayload(officer), cases |-> data] \in Locks
<1>0. UserPayload(officer) \in Users
  BY DEF TypeOK, Users
<1>1. Free("export") \in SUBSET Exports /\ Free("snapshot") \in SUBSET Snapshots
  BY DEF Free, Waiting
<1>2. CASE Free("export") # {}
  <2>1. Min(Free("export")) \in Free("export")
    BY <1>1, <1>2, JobsAreNumbered, MinOf
  <2>2. NextJob.kind = "export" /\ NextJob.id = Min(Free("export"))
    BY <1>2 DEF NextJob
  <2> QED BY <1>0, <1>1, <2>1, <2>2 DEF Locks, TypeOK
<1>3. CASE Free("export") = {}
  <2>1. Min(Free("snapshot")) \in Free("snapshot")
    BY <1>1, <1>3, JobsAreNumbered, MinOf
  <2>2. NextJob.kind = "snapshot" /\ NextJob.id = Min(Free("snapshot"))
    BY <1>3 DEF NextJob
  <2> QED BY <1>0, <1>1, <2>1, <2>2 DEF Locks, TypeOK
<1> QED BY <1>2, <1>3

LEMMA TakeKeeps ==
  ASSUME IInv, NEW w \in Workers, Take(w)
  PROVE  IInv'
<1> DEFINE lock == [kind |-> NextJob.kind, id |-> NextJob.id, user |-> UserPayload(officer), cases |-> data]
<1>1. /\ held[w] = None /\ held' = [held EXCEPT ![w] = lock]
      /\ UNCHANGED <<data, officer, export, snapshot, txn, overlapped>>
  BY DEF Take
<1>2. /\ lock.kind \in {"export", "snapshot"} /\ lock.id \in Free(lock.kind) /\ lock \in Locks
  BY NextJobIsFree DEF Take, IInv
<1> HIDE DEF lock
<1>3. held'[w] = lock /\ \A v \in Workers \ {w} : held'[v] = held[v]
  BY <1>1 DEF IInv, TypeOK
<1>4. TypeOK'
  BY <1>1, <1>2 DEF IInv, TypeOK
<1>5. HeldRowsWait'
  BY <1>1, <1>2, <1>3 DEF IInv, HeldRowsWait, Free, Waiting
<1>6. \A v \in Workers : held[v] # None => held[v].kind # lock.kind \/ held[v].id # lock.id
  BY <1>2 DEF Free
<1>7. OneHolder'
  BY <1>3, <1>6 DEF IInv, OneHolder
<1>8. RowsBegin' /\ ReadRowsExist' /\ ContentsSound' /\ FileIffCompleted'
  BY <1>1 DEF IInv, RowsBegin, ReadRowsExist, ContentsSound, FileIffCompleted, Sound
<1> QED BY <1>4, <1>5, <1>7, <1>8 DEF IInv

\* Nobody holds the row that a worker gives back.
LEMMA GivenBack ==
  ASSUME IInv, NEW w \in Workers, held[w] # None, held' = [held EXCEPT ![w] = None]
  PROVE  /\ held' \in [Workers -> Locks \cup {None}]
         /\ held'[w] = None
         /\ \A v \in Workers : held'[v] # None =>
              /\ v # w /\ held'[v] = held[v]
              /\ held[v].kind # held[w].kind \/ held[v].id # held[w].id
BY DEF IInv, TypeOK, OneHolder

LEMMA ExportKeeps ==
  ASSUME IInv, NEW w \in Workers, ProcessExport(w)
  PROVE  IInv'
<1> DEFINE h == held[w]
           old == export[h.id]
<1>1. h # None /\ h.kind = "export" /\ held' = [held EXCEPT ![w] = None]
      /\ UNCHANGED <<data, officer, snapshot, txn, overlapped>>
  BY DEF ProcessExport
<1>2. h \in Locks /\ h.id \in Exports
  BY <1>1, LockFields DEF IInv
<1>3. old \in ExportRow /\ old.status = "queued" /\ old.filters \in Filters
  BY <1>1, <1>2 DEF IInv, TypeOK, HeldRowsWait, RowsBegin
<1>4. txn' \in [Sessions -> Opened \cup {Idle}] /\ overlapped' \subseteq Exports
  BY <1>1 DEF IInv, TypeOK
<1>5. /\ held' \in [Workers -> Locks \cup {None}]
      /\ \A v \in Workers : held'[v] # None =>
           held'[v] = held[v] /\ (held[v].kind = "export" => held[v].id # h.id)
  BY <1>1, GivenBack
<1>6. CASE \E file \in Content(h, old.filters) :
             export' = [export EXCEPT ![h.id] = [@ EXCEPT !.status = "completed", !.file = file,
                                                         !.filters = file.filters]]
  <2>1. PICK file \in Content(h, old.filters) :
             export' = [export EXCEPT ![h.id] = [old EXCEPT !.status = "completed", !.file = file,
                                                         !.filters = file.filters]]
    BY <1>6
  <2> DEFINE row == [old EXCEPT !.status = "completed", !.file = file, !.filters = file.filters]
  <2>2. file \in Contents /\ Sound(file)
    BY <1>2, <1>3, <2>1, ContentFields DEF IInv, TypeOK
  <2>3. file # None /\ file.filters \in Filters
    BY <2>2, NoneIsNothing DEF Contents
  <2>4. /\ row \in ExportRow /\ row.status = "completed" /\ row.file = file
        /\ row.filters = file.filters
    BY <1>3, <2>2, <2>3 DEF ExportRow
  <2>5. export' = [export EXCEPT ![h.id] = row]
    BY <2>1
  <2> HIDE DEF row, h
  <2> QED BY <1>1, <1>2, <1>4, <1>5, <2>2, <2>3, <2>4, <2>5, ExportWritten
<1>7. CASE export' = [export EXCEPT ![h.id].status = "failed"]
  <2> DEFINE row == [old EXCEPT !.status = "failed"]
  <2>1. /\ row \in ExportRow /\ row.status = "failed" /\ row.file = old.file
        /\ row.filters = old.filters
    BY <1>3 DEF ExportRow
  <2>2. export' = [export EXCEPT ![h.id] = row]
    BY <1>7
  <2>3. h.id \in overlapped \/ old.file = None
    BY <1>2, <1>3 DEF IInv, FileIffCompleted
  <2>4. old.file # None => Sound(old.file) /\ old.filters = old.file.filters
    BY <1>2 DEF IInv, ContentsSound
  <2>5. /\ row.file # None => Sound(row.file) /\ row.filters = row.file.filters
        /\ row.filters \in Filters
    BY <1>3, <2>1, <2>4
  <2>6. h.id \in overlapped' \/ row.file = None
    BY <1>1, <2>1, <2>3
  <2> HIDE DEF row, h
  <2> QED BY <1>1, <1>2, <1>4, <1>5, <2>1, <2>2, <2>5, <2>6, ExportWritten
<1> QED BY <1>6, <1>7 DEF ProcessExport

LEMMA SnapshotKeeps ==
  ASSUME IInv, NEW w \in Workers, ProcessSnapshot(w)
  PROVE  IInv'
<1> DEFINE h == held[w]
           old == snapshot[h.id]
<1>1. h # None /\ h.kind = "snapshot" /\ held' = [held EXCEPT ![w] = None]
      /\ UNCHANGED <<data, officer, export, txn, overlapped>>
  BY DEF ProcessSnapshot
<1>2. h \in Locks /\ h.id \in Snapshots
  BY <1>1, LockFields DEF IInv
<1>3. old \in SnapshotRow /\ old.status = "Queued" /\ old.filters \in Filters
  BY <1>1, <1>2 DEF IInv, TypeOK, HeldRowsWait, RowsBegin
<1>4. /\ held' \in [Workers -> Locks \cup {None}]
      /\ \A v \in Workers : held'[v] # None =>
           held'[v] = held[v] /\ (held[v].kind = "snapshot" => held[v].id # h.id)
  BY <1>1, GivenBack
<1>5. CASE \E payload \in Content(h, old.filters) :
             snapshot' = [snapshot EXCEPT ![h.id] = [@ EXCEPT !.status = "Current",
                                       !.payload = payload, !.filters = payload.filters]]
  <2>1. PICK payload \in Content(h, old.filters) :
             snapshot' = [snapshot EXCEPT ![h.id] = [old EXCEPT !.status = "Current",
                                       !.payload = payload, !.filters = payload.filters]]
    BY <1>5
  <2> DEFINE row == [old EXCEPT !.status = "Current", !.payload = payload,
                                !.filters = payload.filters]
  <2>2. payload \in Contents /\ Sound(payload)
    BY <1>2, <1>3, <2>1, ContentFields DEF IInv, TypeOK
  <2>3. payload.filters \in Filters
    BY <2>2 DEF Contents
  <2>4. /\ row \in SnapshotRow /\ row.status = "Current" /\ row.payload = payload
        /\ row.filters = payload.filters
    BY <1>3, <2>2, <2>3 DEF SnapshotRow
  <2>5. snapshot' = [snapshot EXCEPT ![h.id] = row]
    BY <2>1
  <2> HIDE DEF row, h
  <2> QED BY <1>1, <1>2, <1>4, <2>2, <2>3, <2>4, <2>5, SnapshotWritten
<1>6. CASE snapshot' = [snapshot EXCEPT ![h.id].status = "Failed"]
  <2> DEFINE row == [old EXCEPT !.status = "Failed"]
  <2>1. /\ row \in SnapshotRow /\ row.status = "Failed" /\ row.payload = old.payload
        /\ row.filters = old.filters
    BY <1>3 DEF SnapshotRow
  <2>2. snapshot' = [snapshot EXCEPT ![h.id] = row]
    BY <1>6
  <2>3. old.payload # None => Sound(old.payload) /\ old.filters = old.payload.filters
    BY <1>2 DEF IInv, ContentsSound
  <2>4. /\ row.payload # None => Sound(row.payload) /\ row.filters = row.payload.filters
        /\ row.filters \in Filters
    BY <1>3, <2>1, <2>3
  <2> HIDE DEF row, h
  <2> QED BY <1>1, <1>2, <1>4, <2>1, <2>2, <2>4, SnapshotWritten
<1> QED BY <1>5, <1>6 DEF ProcessSnapshot

\* Steps that write no row: the world moves on, a worker gives up, nothing happens.
LEMMA OthersKeep ==
  ASSUME IInv, UNCHANGED <<export, snapshot, txn, overlapped>>,
         data' \in DOMAIN Datasets, officer' \in Officers,
         held' = held \/ \E w \in Workers : held[w] # None /\ held' = [held EXCEPT ![w] = None]
  PROVE  IInv'
<1>1. /\ held' \in [Workers -> Locks \cup {None}]
      /\ \A v \in Workers : held'[v] # None => held'[v] = held[v]
  BY GivenBack DEF IInv, TypeOK
<1>2. TypeOK'
  BY <1>1 DEF IInv, TypeOK
<1>3. HeldRowsWait' /\ OneHolder'
  BY <1>1 DEF IInv, HeldRowsWait, OneHolder
<1>4. RowsBegin' /\ ReadRowsExist' /\ ContentsSound' /\ FileIffCompleted'
  BY DEF IInv, RowsBegin, ReadRowsExist, ContentsSound, FileIffCompleted, Sound
<1> QED BY <1>2, <1>3, <1>4 DEF IInv

LEMMA NextInv == IInv /\ [Next]_vars => IInv'
<1> SUFFICES ASSUME IInv, [Next]_vars PROVE IInv'
  OBVIOUS
<1>1. data \in DOMAIN Datasets /\ officer \in Officers
  BY DEF IInv, TypeOK
<1>2. CASE Work
  BY <1>1, <1>2, OthersKeep DEF Work
<1>3. CASE Transfer
  BY <1>1, <1>3, OthersKeep DEF Transfer
<1>4. ASSUME NEW w \in Workers, Abandon(w) PROVE IInv'
  BY <1>1, <1>4, OthersKeep DEF Abandon
<1>5. CASE UNCHANGED vars
  BY <1>1, <1>5, OthersKeep DEF vars
<1> QED BY <1>2, <1>3, <1>4, <1>5, CreateKeeps, RefreshKeeps, ReadKeeps, CommitKeeps,
           TakeKeeps, ExportKeeps, SnapshotKeeps DEF Next

LEMMA Inductive == Spec => []IInv
BY InitInv, NextInv, PTL DEF Spec

-----------------------------------------------------------------------------
\* The theorems.

\* Rows are well typed: statuses that mean a computation is under way are never committed.
THEOREM TypeCorrect == Spec => []TypeOK
<1>1. IInv => TypeOK
  BY DEF IInv
<1> QED BY <1>1, Inductive, PTL

\* An export has its file exactly while it is completed, unless a retry or revoke wrote over
\* a row that had changed since it was read (retry_export_job, revoke_export_job).
THEOREM FilesFollowTheStatus == Spec => []FileIffCompleted
<1>1. IInv => FileIffCompleted
  BY DEF IInv
<1> QED BY <1>1, Inductive, PTL

\* No export or snapshot shows a case outside the scope of its requester, although the
\* filters are resolved before and after a possible transfer (process_next_export_job,
\* process_next_metric_snapshot).
THEOREM ReportsStayInScope == Spec => []ContentInScope
<1>1. IInv => ContentInScope
  BY DEF IInv, ContentsSound, Sound, ContentInScope
<1> QED BY <1>1, Inductive, PTL

\* In every report that is stored the figures of the stations and officers add up to the
\* overview and the stages to the cases, whatever was committed between the reads of its
\* tables (dashboard_dataset, overview_metrics, station_metrics, officer_metrics).
THEOREM StoredReportsAddUp == Spec => []ReportsAddUp
<1>1. ASSUME NEW source \in Sources PROVE AddsUp[source]
  <2>1. Joinable(DashboardDataset(Datasets[source.cases].cases, Datasets[source.rest],
                                  source.user, source.filters))
    BY DatasetJoins DEF Sources
  <2>2. Adds(Report(DashboardDataset(Datasets[source.cases].cases, Datasets[source.rest],
                                     source.user, source.filters), source.filters))
    BY <2>1, OneReportAddsUp
  <2> QED BY <2>2 DEF AddsUp
<1>2. ASSUME NEW content \in Contents
      PROVE  AddsUp[Source(content)]
  <2>1. Source(content) \in Sources
    BY DEF Contents, Sources, Source
  <2> QED BY <1>1, <2>1
<1>3. ASSUME TypeOK PROVE ReportsAddUp
  <2>1. /\ \A j \in Exports : export[j].file \in Contents \cup {None}
        /\ \A k \in Snapshots : snapshot[k].payload \in Contents \cup {None}
    BY <1>3 DEF TypeOK, ExportRow, SnapshotRow
  <2> QED BY <1>2, <2>1 DEF ReportsAddUp
<1>4. IInv => ReportsAddUp
  BY <1>3 DEF IInv
<1> QED BY <1>4, Inductive, PTL

-----------------------------------------------------------------------------
\* Refinement: held rows as jobs in the hands of workers.

Held(job) == IF Holders(job) = {} THEN None ELSE CHOOSE w \in Holders(job) : TRUE

\* A job has one holder or none.
HolderFacts ==
  \A job \in Jobs : /\ \A w \in Holders(job) : Held(job) = w
                    /\ Held(job) # None => Held(job) \in Holders(job)

LEMMA HolderIsHolder == IInv => HolderFacts
<1> SUFFICES ASSUME IInv, NEW job \in Jobs
             PROVE  /\ \A w \in Holders(job) : Held(job) = w
                    /\ Held(job) # None => Held(job) \in Holders(job)
  BY DEF HolderFacts
<1>1. \A v, w \in Holders(job) : v = w
  BY DEF IInv, OneHolder, Holders
<1>2. CASE Holders(job) = {}
  BY <1>2 DEF Held
<1>3. CASE Holders(job) # {}
  <2>1. Held(job) \in Holders(job)
    BY <1>3 DEF Held
  <2> QED BY <1>1, <2>1
<1> QED BY <1>2, <1>3

\* A step after which nobody holds more than before is a release.
LEMMA FewerHoldersRelease ==
  ASSUME HolderFacts, HolderFacts', \A job \in Jobs : Holders(job)' \subseteq Holders(job)
  PROVE  JobsExclusive!Next
<1> DEFINE S == {job \in Jobs : Held(job)' = None}
<1>1. \A job \in Jobs : Held(job)' # None => Held(job) = Held(job)'
  BY DEF HolderFacts
<1>2. [job \in Jobs |-> Held(job)'] =
        [job \in Jobs |-> IF job \in S THEN None ELSE [i \in Jobs |-> Held(i)][job]]
  BY <1>1
<1>3. S \in SUBSET Jobs /\ JobsExclusive!Release(S)
  BY <1>2 DEF JobsExclusive!Release, Held
<1> QED BY <1>3 DEF JobsExclusive!Next

\* What a worker takes nobody had, and it had nothing.
LEMMA TakeIsTake ==
  ASSUME IInv, HolderFacts, HolderFacts', NEW w \in Workers, Take(w)
  PROVE  JobsExclusive!Next
<1> DEFINE job == <<NextJob.kind, NextJob.id>>
<1>1. /\ held[w] = None /\ NextJob.kind \in {"export", "snapshot"}
      /\ NextJob.id \in Free(NextJob.kind)
      /\ held'[w].kind = NextJob.kind /\ held'[w].id = NextJob.id /\ held'[w] # None
  BY NextJobIsFree, NoneIsNothing DEF Take, IInv, TypeOK
<1>2. \A v \in Workers \ {w} : held'[v] = held[v]
  BY DEF Take, IInv, TypeOK
<1>3. job \in Jobs
  BY <1>1 DEF Jobs, Free, Waiting
<1> HIDE DEF job
<1>4. \A v \in Workers : held[v] # None => <<held[v].kind, held[v].id>> # job
  BY <1>1 DEF Free, job
<1>5. Holders(job) = {} /\ Held(job) = None
  BY <1>4 DEF Holders, Held
<1>6. \A i \in Jobs : w \notin Holders(i)
  BY <1>1 DEF Holders
<1>7. \A i \in Jobs : Held(i) # w
  BY <1>6, NoneIsNothing DEF HolderFacts
<1>8. \A i \in Jobs : Holders(i)' = IF i = job THEN {w} ELSE Holders(i)
  <2>1. <<held'[w].kind, held'[w].id>> = job
    BY <1>1 DEF job
  <2> QED BY <1>1, <1>2, <1>4, <2>1 DEF Holders
<1>9. \A i \in Jobs : Held(i)' = IF i = job THEN w ELSE Held(i)
  <2> SUFFICES ASSUME NEW i \in Jobs PROVE Held(i)' = IF i = job THEN w ELSE Held(i)
    OBVIOUS
  <2>1. CASE i = job
    BY <1>3, <1>8, <2>1 DEF HolderFacts
  <2>2. CASE i # job /\ Holders(i) = {}
    BY <1>8, <2>2 DEF Held
  <2>3. CASE i # job /\ Holders(i) # {}
    <3>1. PICK v \in Holders(i) : v \in Holders(i)'
      BY <1>8, <2>3
    <3> QED BY <2>3, <3>1 DEF HolderFacts
  <2> QED BY <2>1, <2>2, <2>3
<1>10. JobsExclusive!Take(w, job)
  <2>1. [i \in Jobs |-> Held(i)'] = [[i \in Jobs |-> Held(i)] EXCEPT ![job] = w]
    BY <1>3, <1>9
  <2> QED BY <1>3, <1>5, <1>7, <2>1 DEF JobsExclusive!Take, Held
<1> QED BY <1>3, <1>10 DEF JobsExclusive!Next

LEMMA OtherStepsTakeNothing ==
  ASSUME IInv, [Next]_vars, ~ \E w \in Workers : Take(w), NEW job \in Jobs
  PROVE  Holders(job)' \subseteq Holders(job)
<1>1. held' = held \/ \E w \in Workers : held' = [held EXCEPT ![w] = None]
  BY DEF Next, vars, Work, Transfer, CreateExportJob, RefreshSnapshot, CommitExport, ReadExport,
         ProcessExport, ProcessSnapshot, Abandon
<1>2. \A v \in Workers : held'[v] # None => held'[v] = held[v]
  BY <1>1 DEF IInv, TypeOK
<1> QED BY <1>2 DEF Holders

\* Rows under FOR UPDATE SKIP LOCKED are taken and given back as ExclusiveJobs has it, for any
\* number of exports, snapshots and workers.
THEOREM DashboardImplementsExclusiveJobs == Spec => ImplementsExclusiveJobs
<1>1. Init => JobsExclusive!Init
  <2> SUFFICES ASSUME Init PROVE JobsExclusive!Init
    OBVIOUS
  <2>1. \A job : Holders(job) = {}
    BY DEF Init, Holders
  <2> QED BY <2>1 DEF JobsExclusive!Init
<1>2. IInv /\ IInv' /\ [Next]_vars =>
        [JobsExclusive!Next]_([job \in Jobs |-> IF Holders(job) = {} THEN None
                                                ELSE CHOOSE w \in Holders(job) : TRUE])
  <2> SUFFICES ASSUME IInv, IInv', [Next]_vars PROVE JobsExclusive!Next
    OBVIOUS
  <2>1. HolderFacts /\ HolderFacts'
    BY HolderIsHolder, PTL
  <2>2. CASE \E w \in Workers : Take(w)
    BY <2>1, <2>2, TakeIsTake
  <2>3. CASE ~ \E w \in Workers : Take(w)
    BY <2>1, <2>3, OtherStepsTakeNothing, FewerHoldersRelease
  <2> QED BY <2>2, <2>3
<1> QED BY <1>1, <1>2, Inductive, PTL DEF Spec, ImplementsExclusiveJobs, JobsExclusive!Spec
=============================================================================
