---------------------------- MODULE MCDashboard ----------------------------
EXTENDS DashboardJobs
CONSTANTS w1, w2, r1, NoValue

MCZone == [sA |-> "zN", sB |-> "zN", sC |-> "zS"]
MCIdRank == [zN |-> 1, zS |-> 2, sA |-> 3, sB |-> 4, sC |-> 5]

\* u1 is in charge of one station, then of another, while the case tables change;
\* u4 has no row; u5 asks for more than the workers can do at once.
User(id, role, station, ids, known) ==
  [id |-> id, role |-> role, station |-> station, ids |-> ids, known |-> known]
MCOfficers == {User("u1", "SHO", "sA", {}, TRUE),
               User("u1", "Zone_Officer", "sB", {"zN", "sC"}, TRUE),
               User("u4", "SHO", "sC", {}, FALSE), User("u5", "SHO", "sA", {}, TRUE)}
MCMaxJobs == [u1 |-> [exports |-> 1, snapshots |-> 1], u4 |-> [exports |-> 0, snapshots |-> 1],
              u5 |-> [exports |-> 2, snapshots |-> 1]]

Case(id, station, io, creator, status, created) ==
  [id |-> id, station |-> station, io |-> io, creator |-> creator,
   status |-> status, created |-> created]
Row(case, by, at) == [case |-> case, by |-> by, at |-> at]
Gen(case, by, at, fir) == [case |-> case, by |-> by, at |-> at, fir |-> fir]
Parsed(case, at, fir) == [case |-> case, by |-> None, at |-> at, fir |-> fir]

\* Before and after a day of work: a case moves on, one is registered with its
\* documents, one has no station.
Before ==
  [cases |-> {Case("c1", "sA", "u1", "u2", "FIR_Registered", 10),
              Case("c2", "sB", None, "u2", "Complaint_Received", 20),
              Case("c3", "sC", None, None, "Disposed", 21)},
   documents |-> {Row("c1", "u2", 11), Row("c2", "u2", 22)},
   generated |-> {Gen("c1", "u1", 14, TRUE), Gen("c3", None, 25, FALSE)},
   analyses |-> {Row("c1", "u3", 15)}, parsed |-> {Parsed("c2", 23, TRUE)}]
Later ==
  [Before EXCEPT
     !.cases = {Case("c1", "sA", "u1", "u2", "Court_Proceedings", 10),
                Case("c2", "sB", "u1", "u2", "FIR_Registered", 20),
                Case("c3", "sC", None, None, "Disposed", 21),
                Case("c4", "sA", None, "u2", "Charge_Sheet_Filed", 30),
                Case("c5", None, None, "u3", "Transferred", 31)},
     !.documents = @ \cup {Row("c4", "u2", 29), Row("c5", "u3", 31)},
     !.generated = @ \cup {Gen("c4", "u2", 28, TRUE)},
     !.analyses = @ \cup {Row("c4", "u2", 33)}]
MCDatasets == <<Before, Later>>

Filter(station, zone, from, to) ==
  [station |-> station, zone |-> zone, io |-> None, status |-> None, from |-> from, to |-> to]
MCRequested ==
  {Filter(None, None, r[1], r[2]) :
     r \in NormalizePeriod("last_30_days", 40, 30, 0, 0, 0)}

\* The queues of u5 are long, so the tables it asks about no longer change.
MCInit == Init /\ (officer.id = "u5" => data = 2)
MCSpec == MCInit /\ [][Next]_vars /\ Fairness
=============================================================================
