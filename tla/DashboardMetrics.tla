-------------------------- MODULE DashboardMetrics --------------------------
(***************************************************************************)
(* What the senior officer dashboard counts, and for whom                  *)
(* (senior_dashboard.py): the filters a user gets, the records they leave, *)
(* and the figures of the reports.  A user is [id, role, station, ids],    *)
(* ids being stations and zones of the jurisdiction; a dataset has cases   *)
(* [id, station, io, creator, status, created], case documents, generated  *)
(* documents (fir marks a FIR draft), analyses and parse records, each     *)
(* with its case, creator and time.  Times are whole numbers.              *)
(***************************************************************************)
EXTENDS Integers, FiniteSets, FiniteSetsExt

CONSTANTS
  None,
  Zone,    \* station -> its zone
  IdRank   \* the order of the identifiers of a jurisdiction

AllRecordRoles == {"System_Admin", "Senior_Command", "AI_Admin"}
SelfViewRoles  == {"IO", "Clerk"}
Supervisory    == {"Senior_Command", "Zone_Officer", "SHO", "System_Admin"}
AIRoles        == {"AI_Admin", "System_Admin", "Senior_Command"}
AllowedRoles   == AllRecordRoles \cup SelfViewRoles \cup Supervisory

LifecycleOrder ==
  <<"Complaint_Received", "FIR_Registered", "Under_Investigation",
    "Charge_Sheet_Filed", "Closure_Report_Filed", "Court_Proceedings",
    "Transferred", "Disposed", "Closed_No_FIR">>
FirOrLater ==
  {"FIR_Registered", "Under_Investigation", "Charge_Sheet_Filed",
   "Closure_Report_Filed", "Court_Proceedings", "Transferred", "Disposed"}
InvestigationCompleted ==
  {"Charge_Sheet_Filed", "Closure_Report_Filed", "Court_Proceedings", "Disposed"}
CourtProgressed == {"Court_Proceedings", "Disposed"}

-----------------------------------------------------------------------------
(* Scope. *)

\* Periods as a pair of times, both included; {} for a refused one.  A month
\* is named by the time it starts.
NormalizePeriod(period, now, thisMonth, lastMonth, from, to) ==
  LET range == CASE period = "last_7_days"    -> <<now - 7, now>>
                 [] period = "last_30_days"   -> <<now - 30, now>>
                 [] period = "current_month"  -> <<thisMonth, now>>
                 [] period = "previous_month" -> <<lastMonth, thisMonth>>
                 [] period = "custom"         -> <<from, to>>
  IN  IF range[1] <= range[2] /\ range[2] - range[1] <= 366 THEN {range} ELSE {}

StationAllowed(u, station) ==
  \/ u.role \in AllRecordRoles
  \/ u.role = "SHO" /\ station # None /\ station = u.station
  \/ /\ u.role = "Zone_Officer"
     /\ u.ids # {} =>
          station # None /\ {station, Zone[station]} \cap u.ids # {}

FirstId(ids) == CHOOSE i \in ids : \A j \in ids : IdRank[i] <= IdRank[j]

\* The filters a request runs with, or {} when the user may not ask for them.
ResolveDashboardFilters(u, f) ==
  CASE u.role \in SelfViewRoles ->
         IF f.io \in {None, u.id} /\ f.station = None
         THEN {[f EXCEPT !.io = u.id]} ELSE {}
    [] u.role = "SHO" ->
         IF u.station # None /\ f.station \in {None, u.station}
         THEN {[f EXCEPT !.station = u.station]} ELSE {}
    [] u.role = "Zone_Officer" ->
         IF \/ f.zone # None /\ u.ids # {} /\ f.zone \notin u.ids
            \/ f.station # None /\ ~StationAllowed(u, f.station)
         THEN {}
         ELSE {IF f.zone = None /\ u.ids # {}
               THEN [f EXCEPT !.zone = FirstId(u.ids)] ELSE f}
    [] u.role \in AllRecordRoles -> {f}
    [] OTHER -> {}

CaseVisible(c, u, f) ==
  /\ u.role \in SelfViewRoles => u.id \in {c.io, c.creator}
  /\ u.role = "SHO" /\ u.station # None => c.station = u.station
  /\ u.role = "Zone_Officer" => StationAllowed(u, c.station)
  /\ f.station # None => c.station = f.station
  /\ f.zone # None => c.station # None /\ Zone[c.station] = f.zone
  /\ f.io # None => f.io \in {c.io, c.creator}
  /\ f.status # None => c.status = f.status

Within(t, f) == f.from <= t /\ t <= f.to

FilterCases(cases, u, f) == {c \in cases : CaseVisible(c, u, f) /\ Within(c.created, f)}

\* Mutant: rows are taken in by their own time only.
DatasetByTime(cases, d, u, f) ==
  LET In(rows) == {r \in rows : Within(r.at, f)}
  IN  [cases |-> FilterCases(cases, u, f), documents |-> In(d.documents),
       generated |-> In(d.generated), analyses |-> In(d.analyses),
       parsed |-> In(d.parsed), unlinked |-> {}]

\* The cases are read first, the other tables after them: rows of cases that
\* came in between are left out by their case.
DashboardDataset(cases, d, u, f) ==
  LET shown == FilterCases(cases, u, f)
      ids   == {c.id : c \in shown}
      In(rows) == {r \in rows : r.case \in ids /\ Within(r.at, f)}
  IN  [cases |-> shown, documents |-> In(d.documents), generated |-> In(d.generated),
       analyses |-> In(d.analyses), parsed |-> In(d.parsed),
       unlinked |-> {r \in d.parsed : Within(r.at, f) /\ r.case \notin ids}]

-----------------------------------------------------------------------------
(* Figures. *)

\* The k-th smallest value of a function, counted from 0.
Nth(f, k) ==
  CHOOSE v \in {f[x] : x \in DOMAIN f} :
    /\ Cardinality({x \in DOMAIN f : f[x] < v}) <= k
    /\ Cardinality({x \in DOMAIN f : f[x] <= v}) > k

\* Python rounds a half to the even neighbour.
RoundHalfEven(a, b) ==
  LET q == a \div b  r == 2 * (a % b)
  IN  IF r < b \/ (r = b /\ q % 2 = 0) THEN q ELSE q + 1

Percentile(f, p) ==
  IF DOMAIN f = {} THEN None
  ELSE Nth(f, RoundHalfEven(p * (Cardinality(DOMAIN f) - 1), 100))

\* Twice the median, to stay with whole numbers.
TwiceMedian(f) ==
  LET n == Cardinality(DOMAIN f)
  IN  IF n = 0 THEN None ELSE Nth(f, (n - 1) \div 2) + Nth(f, n \div 2)

Owner(c) == IF c.io # None THEN c.io ELSE IF c.creator # None THEN c.creator ELSE "unassigned"

LifecycleSummary(cases, f) ==
  [status \in {LifecycleOrder[i] : i \in DOMAIN LifecycleOrder} |->
     LET stage == {c \in cases : c.status = status}
         age   == [c \in stage |-> IF f.to > c.created THEN f.to - c.created ELSE 0]
     IN  [count |-> Cardinality(stage), median |-> TwiceMedian(age),
          p90 |-> Percentile(age, 90)]]

\* The figures every report counts in the same way.
Figures(d) ==
  [cases     |-> Cardinality(d.cases),
   firs      |-> Quantify(d.cases, LAMBDA c : c.status \in FirOrLater),
   completed |-> Quantify(d.cases, LAMBDA c : c.status \in InvestigationCompleted),
   court     |-> Quantify(d.cases, LAMBDA c : c.status \in CourtProgressed),
   documents |-> Cardinality(d.documents),
   generated |-> Cardinality(d.generated),
   drafts    |-> Quantify(d.generated, LAMBDA g : g.fir),
   analyses  |-> Cardinality(d.analyses)]

\* What of a dataset is attributed to a station: a row goes where its case is.
AtStation(d, station) ==
  LET own    == {c \in d.cases : c.station = station}
      ids    == {c.id : c \in own}
      In(rows) == {r \in rows : r.case \in ids}
  IN  [cases |-> own, documents |-> In(d.documents), generated |-> In(d.generated),
       analyses |-> In(d.analyses), parsed |-> In(d.parsed)]

\* Complaint to FIR draft: minutes from the first trace of the case to its
\* first draft, generated or parsed.
ProcessingTimes(d) ==
  LET drafts(c) == {g.at : g \in {x \in d.generated : x.fir /\ x.case = c.id}}
                   \cup {r.at : r \in {x \in d.parsed : x.fir /\ x.case = c.id}}
      intake(c) == Min({c.created} \cup {r.at : r \in {x \in d.documents \cup d.parsed :
                                                       x.case = c.id}})
      drafted   == {c \in d.cases : drafts(c) # {}}
      minutes   == [c \in {x \in drafted : Min(drafts(x)) >= intake(x)} |->
                      Min(drafts(c)) - intake(c)]
  IN  [completed |-> Cardinality(DOMAIN minutes), median |-> TwiceMedian(minutes),
       p75 |-> Percentile(minutes, 75),
       negative |-> Cardinality(drafted \ DOMAIN minutes),
       pending |-> Cardinality(d.cases \ DOMAIN minutes)]

\* Everybody who left a trace, and the share of the station's officers.
ActiveUsers(d) ==
  ({c.creator : c \in d.cases} \cup {c.io : c \in d.cases}
   \cup {r.by : r \in d.documents \cup d.generated \cup d.analyses}) \ {None}

StationMetrics(d) ==
  [s \in {c.station : c \in d.cases} |->
     [figures |-> Figures(AtStation(d, s)), median |-> ProcessingTimes(AtStation(d, s)).median,
      active |-> Cardinality(ActiveUsers(AtStation(d, s)))]]

\* A case counts for who created it, its registration for who owns it.
Maker(c) == IF c.creator # None THEN c.creator ELSE Owner(c)
By(r)    == IF r.by # None THEN r.by ELSE "unassigned"

OfficerMetrics(d) ==
  [o \in {Maker(c) : c \in d.cases} \cup {Owner(c) : c \in d.cases}
         \cup {By(r) : r \in d.documents \cup d.generated \cup d.analyses} |->
     [cases     |-> Quantify(d.cases, LAMBDA c : Maker(c) = o),
      firs      |-> Quantify(d.cases, LAMBDA c : Owner(c) = o /\ c.status \in FirOrLater),
      documents |-> Quantify(d.documents, LAMBDA r : By(r) = o),
      generated |-> Quantify(d.generated, LAMBDA r : By(r) = o),
      drafts    |-> Quantify(d.generated, LAMBDA r : By(r) = o /\ r.fir),
      analyses  |-> Quantify(d.analyses, LAMBDA r : By(r) = o)]]

Report(d, f) ==
  [overview |-> Figures(d), lifecycle |-> LifecycleSummary(d.cases, f),
   stations |-> StationMetrics(d), officers |-> OfficerMetrics(d),
   processing |-> ProcessingTimes(d), users |-> Cardinality(ActiveUsers(d))]
=============================================================================
