------------------------- MODULE CaseRegisterProofs -------------------------
(***************************************************************************)
(* Proofs about CaseRegister: its type invariant and everything its run    *)
(* checks, for any cases, requests, stations and forms and any number of   *)
(* requests, tries and failures.                                           *)
(***************************************************************************)
EXTENDS CaseRegister, WellFoundedInduction, TLAPS

-----------------------------------------------------------------------------
\* What the properties rest on.

\* A case being created is nobody else's business; one being changed is in the register.
Claimed ==
  \A h \in Handlers : Busy(h) =>
    IF loc[h].op = "create"
    THEN /\ cases[loc[h].case] = None
         /\ \A g \in Handlers : Busy(g) /\ loc[g].case = loc[h].case => g = h
    ELSE cases[loc[h].case] # None

\* Only new cases are numbered and checked, before CCTNS hears of them.
Untold ==
  \A h \in Handlers : Busy(h) /\ loc[h].pc \in {"number", "check"} =>
    loc[h].op = "create" /\ loc[h].case \notin cctns

\* What a request is going to write of CCTNS is so.
DraftsKnown ==
  \A h \in Handlers : 
    /\ Busy(h)
    /\ loc[h].draft.sync = "Synced" \/ loc[h].draft.known
    => loc[h].case \in cctns

\* A status past registration is going to a case with a number, and a new case has none.
DraftsNumbered ==
  \A h \in Handlers : Busy(h) =>
    /\ loc[h].op = "create" => loc[h].draft.status = "Complaint_Received"
    /\ (loc[h].op = "status" /\ loc[h].draft.status \in Registered) =>
         cases[loc[h].case].crime # None

\* A status request has nothing left but to commit, and a fresh one is going to move its
\* case along the table.
DraftsFollow ==
  \A h \in Handlers : Busy(h) /\ loc[h].op = "status" =>
    /\ loc[h].pc = "commit"
    /\ loc[h].fresh => loc[h].draft.status \in ValidTransitions(cases[loc[h].case].status)

\* Registrations in a quiet station come one after the other ...
Alone ==
  \A g, h \in Handlers :
    Busy(g) /\ Busy(h) /\ loc[g].op = "create" /\ loc[h].op = "create" =>
      g = h \/ loc[g].draft.station # loc[h].draft.station \/ loc[h].draft.station \in shaken

\* ... so that a number once found free stays free.
Checked ==
  \A h \in Handlers :
    /\ Busy(h) /\ loc[h].op = "create" /\ loc[h].pc \in {"post", "commit"}
    /\ loc[h].draft.crime # None /\ loc[h].draft.station \notin shaken
    => \A d \in CasesOf(loc[h].draft.station) : cases[d].crime # loc[h].draft.crime

IInv ==
  /\ TypeOK /\ Claimed /\ Untold /\ DraftsKnown /\ DraftsNumbered /\ DraftsFollow
  /\ Alone /\ Checked
  /\ FirHasNumber /\ SyncedIsKnown /\ NoStrayCctnsCase /\ UniqueUnlessShaken

-----------------------------------------------------------------------------
\* Numbers.

LEMMA SmallestOf ==
  ASSUME NEW S \in SUBSET Nat, S # {}
  PROVE  \E x \in S : \A y \in S : x <= y
<1>1. PICK x \in S : \A y \in S : <<y, x>> \notin OpToRel(<, Nat)
  BY NatLessThanWellFounded, WFMin
<1>2. \A y \in S : ~(y < x)
  BY <1>1 DEF OpToRel
<1> QED BY <1>2

\* The largest of some sequence numbers is one of them.
LEMMA LargestOf ==
  ASSUME NEW S \in SUBSET (0..MaxSeq), S # {}
  PROVE  Max(S) \in S
<1>1. MaxSeq \in Nat
  BY CaseConstants
<1> DEFINE T == {MaxSeq - n : n \in S}
<1>2. T \in SUBSET Nat /\ T # {}
  <2>1. \A n \in S : n \in Nat /\ MaxSeq - n \in Nat
    BY <1>1
  <2> QED BY <2>1
<1>3. PICK k \in T : \A m \in T : k <= m
  BY <1>2, SmallestOf
<1>4. PICK n \in S : k = MaxSeq - n
  BY <1>3
<1>5. \A m \in S : n >= m
  BY <1>1, <1>3, <1>4
<1> QED BY <1>5 DEF Max

\* The next number of a station is positive.
LEMMA NextNumber ==
  ASSUME TypeOK, NEW s, s # None, NEW type
  PROVE  NextStationSequence(s, type) \in Nat \ {0}
<1>1. \A c \in Committed : cases[c] \in CaseRow
  BY DEF Committed, TypeOK
<1>2. UsedSeqs(s, type) \subseteq Seqs
  BY <1>1 DEF UsedSeqs, CasesOf, CaseRow, Petitions
<1>3. {0} \cup UsedSeqs(s, type) \in SUBSET (0..MaxSeq)
  BY <1>2, CaseConstants DEF Seqs
<1>4. Max({0} \cup UsedSeqs(s, type)) \in 0..MaxSeq
  BY <1>3, LargestOf
<1> QED BY <1>4 DEF NextStationSequence

-----------------------------------------------------------------------------
\* Types.

\* A request in progress has the fields of one.
LEMMA RequestFields ==
  ASSUME TypeOK, NEW h \in Handlers, Busy(h)
  PROVE  loc[h] \in RequestType
BY DEF TypeOK, Busy, Idle

\* A new request is well typed if its draft is.
LEMMA NewRequestType ==
  ASSUME NEW op \in {"create", "retry", "move", "status"},
         NEW pc \in {"number", "check", "post", "commit"},
         NEW c \in Cases, NEW draft \in CaseRow
  PROVE  Request(op, pc, c, draft) \in RequestType
<1>1. 0 \in 0..(SyncTries - 1)
  BY CaseConstants
<1> QED BY <1>1 DEF Request, RequestType

LEMMA BlankType == Blank \in CaseRow
BY DEF Blank, NewCase, CaseRow, Types, Places, Statuses

LEMMA DemoType == NewCase("Petition", None, [code |-> None, seq |-> 1], None) \in CaseRow
BY CaseConstants DEF NewCase, CaseRow, Types, Places, Statuses, Petitions, Seqs

\* A request moves to a well-typed place.
LEMMA GotoTypes ==
  ASSUME TypeOK, NEW h \in Handlers, NEW l \in RequestType \cup {Idle}, Goto(h, l)
  PROVE  loc' \in [Handlers -> RequestType \cup {Idle}]
BY DEF TypeOK, Goto

LEMMA BeginTypes ==
  ASSUME TypeOK, NEW h \in Handlers, Begin(h)
  PROVE  begun' \in 0..MaxRequests
BY CaseConstants DEF TypeOK, Begin

\* The requests that only read begin well typed.
LEMMA BeginsTypes ==
  ASSUME TypeOK, NEW h \in Handlers, NEW c \in Cases, Begins(h, c)
  PROVE  TypeOK'
<1>1. begun' \in 0..MaxRequests
  BY BeginTypes DEF Begins, BeginCreate, SeedDemo, BeginRetry, BeginMove, BeginTransition
<1>2. CASE BeginCreate(h, c)
  <2>1. PICK form \in Forms :
          LET draft == NewCase(form.type, form.crime, form.petition, form.station)
              number == IF form.type = "Petition" THEN form.petition ELSE form.crime
          IN /\ Goto(h, Request("create", IF number = None THEN "number" ELSE "check", c, draft))
             /\ shaken' = IF Numbering(h, form.station) THEN shaken \cup {form.station} ELSE shaken
             /\ UNCHANGED <<cases, cctns, aborts>>
    BY <1>2 DEF BeginCreate
  <2>2. form \in Form
    BY FormsAssumption
  <2>3. NewCase(form.type, form.crime, form.petition, form.station) \in CaseRow
    BY <2>2 DEF NewCase, CaseRow, Form, Statuses
  <2>4. loc' \in [Handlers -> RequestType \cup {Idle}]
    BY <2>1, <2>3, NewRequestType, GotoTypes
  <2>5. shaken' \subseteq Places
    BY <2>1, <2>2 DEF TypeOK, Form
  <2> QED BY <1>1, <2>1, <2>4, <2>5 DEF TypeOK
<1>3. CASE SeedDemo(h, c)
  BY <1>1, <1>3, DemoType DEF SeedDemo, TypeOK
<1>4. CASE BeginRetry(h, c)
  <2>1. loc' \in [Handlers -> RequestType \cup {Idle}]
    BY <1>4, BlankType, NewRequestType, GotoTypes DEF BeginRetry, AfterCheck
  <2> QED BY <1>1, <1>4, <2>1 DEF BeginRetry, TypeOK
<1>5. CASE BeginMove(h, c)
  <2>1. PICK s \in Stations : Goto(h, Request("move", "commit", c, [Blank EXCEPT !.station = s]))
    BY <1>5 DEF BeginMove
  <2>2. [Blank EXCEPT !.station = s] \in CaseRow
    BY BlankType DEF CaseRow, Places
  <2>3. loc' \in [Handlers -> RequestType \cup {Idle}]
    BY <2>1, <2>2, NewRequestType, GotoTypes
  <2> QED BY <1>1, <1>5, <2>3 DEF BeginMove, TypeOK
<1>6. CASE BeginTransition(h, c)
  <2>1. PICK status \in Asked :
          /\ c \in Committed
          /\ MayBecome(c, status)
          /\ Goto(h, Request("status", "commit", c, [Blank EXCEPT !.status = status]))
          /\ UNCHANGED <<cases, cctns, shaken, aborts>>
    BY <1>6 DEF BeginTransition
  <2>2. status \in Statuses
    BY <2>1 DEF MayBecome, ValidTransitions, Statuses
  <2>3. [Blank EXCEPT !.status = status] \in CaseRow
    BY <2>2, BlankType DEF CaseRow
  <2>4. loc' \in [Handlers -> RequestType \cup {Idle}]
    BY <2>1, <2>3, NewRequestType, GotoTypes
  <2> QED BY <1>1, <2>1, <2>4 DEF TypeOK
<1> QED BY <1>2, <1>3, <1>4, <1>5, <1>6 DEF Begins

\* A request keeps its types on its way.
LEMMA ContinuesTypes ==
  ASSUME TypeOK, Claimed, NEW h \in Handlers, Continues(h)
  PROVE  TypeOK'
<1>1. Busy(h) /\ loc[h] \in RequestType
  BY RequestFields DEF Continues, GenerateNumber, EnsureUniqueCrimeNo, PostAnswered, PostFailed,
     CommitCreate, CommitRetry, CommitMove, CommitTransition, Doing
<1> DEFINE c == loc[h].case
           draft == loc[h].draft
<1>2. c \in Cases /\ draft \in CaseRow /\ loc[h].tries \in 0..(SyncTries - 1)
  BY <1>1 DEF RequestType
<1>3. Idle \in RequestType \cup {Idle}
  OBVIOUS
<1>4. CASE GenerateNumber(h)
  <2> DEFINE s == draft.station
             seq == NextStationSequence(s, draft.type)
             numbered == IF draft.type = "Petition"
                         THEN [draft EXCEPT !.petition = [code |-> s, seq |-> seq]]
                         ELSE [draft EXCEPT !.crime = seq]
  <2>1. loc' \in [Handlers -> RequestType \cup {Idle}]
    <3>1. CASE Goto(h, Idle)
      BY <3>1, <1>3, GotoTypes
    <3>2. CASE s # None /\ seq <= MaxSeq
               /\ Goto(h, [loc[h] EXCEPT !.pc = "check", !.draft = numbered])
      <4>1. seq \in Seqs
        BY <3>2, NextNumber, CaseConstants DEF Seqs
      <4>2. s \in Places
        BY <1>2 DEF CaseRow
      <4>3. [code |-> s, seq |-> seq] \in Petitions
        BY <4>1, <4>2 DEF Petitions
      <4> HIDE DEF s, seq
      <4>4. numbered \in CaseRow
        BY <1>2, <4>1, <4>3 DEF CaseRow
      <4> HIDE DEF numbered
      <4>5. [loc[h] EXCEPT !.pc = "check", !.draft = numbered] \in RequestType
        BY <1>1, <4>4 DEF RequestType
      <4> QED BY <3>2, <4>5, GotoTypes
    <3> QED BY <1>4, <3>1, <3>2 DEF GenerateNumber
  <2> QED BY <1>4, <2>1 DEF GenerateNumber, TypeOK
<1>5. CASE EnsureUniqueCrimeNo(h)
  <2>1. [loc[h] EXCEPT !.pc = AfterCheck] \in RequestType
    BY <1>1 DEF AfterCheck, RequestType
  <2>2. loc' \in [Handlers -> RequestType \cup {Idle}]
    BY <1>5, <1>3, <2>1, GotoTypes DEF EnsureUniqueCrimeNo
  <2> QED BY <1>5, <2>2 DEF EnsureUniqueCrimeNo, TypeOK
<1>6. CASE PostAnswered(h)
  <2>1. PICK id \in BOOLEAN :
          Goto(h, [loc[h] EXCEPT !.pc = "commit", !.draft.sync = "Synced", !.draft.known = (@ \/ id)])
    BY <1>6 DEF PostAnswered
  <2>2. (draft.known \/ id) \in BOOLEAN
    OBVIOUS
  <2>3. [[draft EXCEPT !.sync = "Synced"] EXCEPT !.known = (draft.known \/ id)] \in CaseRow
    BY <1>2, <2>2 DEF CaseRow
  <2>4. [loc[h] EXCEPT !.pc = "commit", !.draft.sync = "Synced", !.draft.known = (@ \/ id)] \in RequestType
    BY <1>1, <2>3 DEF RequestType, CaseRow
  <2>5. loc' \in [Handlers -> RequestType \cup {Idle}]
    BY <2>1, <2>4, GotoTypes
  <2>6. cctns' \subseteq Cases
    BY <1>2, <1>6 DEF PostAnswered, TypeOK
  <2> QED BY <1>6, <2>5, <2>6 DEF PostAnswered, TypeOK
<1>7. CASE PostFailed(h)
  <2>1. [loc[h] EXCEPT !.pc = "commit", !.draft.sync = "Failed"] \in RequestType
    BY <1>1 DEF RequestType, CaseRow
  <2>2. loc[h].tries + 1 # SyncTries => [loc[h] EXCEPT !.tries = @ + 1] \in RequestType
    BY <1>1, CaseConstants DEF RequestType
  <2>3. loc' \in [Handlers -> RequestType \cup {Idle}]
    BY <1>7, <2>1, <2>2, GotoTypes DEF PostFailed
  <2>4. cctns' \subseteq Cases
    BY <1>2, <1>7 DEF PostFailed, TypeOK
  <2> QED BY <1>7, <2>3, <2>4 DEF PostFailed, TypeOK
<1>8. CASE CommitCreate(h)
  <2>1. loc' \in [Handlers -> RequestType \cup {Idle}]
    BY <1>8, <1>3, GotoTypes DEF CommitCreate
  <2> QED BY <1>2, <1>8, <2>1 DEF CommitCreate, TypeOK
<1>9. loc[h].op # "create" => cases[c] \in CaseRow
  BY <1>1, <1>2 DEF Claimed, TypeOK
<1>10. CASE CommitRetry(h)
  <2>1. loc' \in [Handlers -> RequestType \cup {Idle}]
    BY <1>10, <1>3, GotoTypes DEF CommitRetry
  <2>2. cases[c] \in CaseRow
    BY <1>9, <1>10 DEF CommitRetry, Doing
  <2>3. (cases[c].known \/ draft.known) \in BOOLEAN
    OBVIOUS
  <2>4. [[cases[c] EXCEPT !.sync = draft.sync] EXCEPT !.known = (cases[c].known \/ draft.known)] \in CaseRow
    BY <1>2, <2>2, <2>3 DEF CaseRow
  <2> QED BY <1>2, <1>10, <2>1, <2>2, <2>4 DEF CommitRetry, TypeOK, CaseRow
<1>11. CASE CommitMove(h)
  <2>1. loc' \in [Handlers -> RequestType \cup {Idle}]
    BY <1>11, <1>3, GotoTypes DEF CommitMove
  <2>2. [cases[c] EXCEPT !.station = draft.station] \in CaseRow
    BY <1>2, <1>9, <1>11 DEF CommitMove, Doing, CaseRow
  <2>3. cases' = [cases EXCEPT ![c] = [cases[c] EXCEPT !.station = draft.station]]
    BY <1>11 DEF CommitMove
  <2>4. cases' \in [Cases -> CaseRow \cup {None}]
    BY <1>2, <2>2, <2>3 DEF TypeOK
  <2>5. cases[c].station \in Places /\ cases'[c].station \in Places
    BY <1>2, <1>9, <1>11, <2>2, <2>3 DEF CommitMove, Doing, CaseRow, TypeOK
  <2>6. shaken' \subseteq Places
    BY <1>11, <2>5 DEF CommitMove, TypeOK
  <2> QED BY <1>11, <2>1, <2>4, <2>6 DEF CommitMove, TypeOK
<1>12. CASE CommitTransition(h)
  <2>1. [cases[c] EXCEPT !.status = draft.status] \in CaseRow
    BY <1>2, <1>9, <1>12 DEF CommitTransition, Doing, CaseRow
  <2>2. cases' = [cases EXCEPT ![c] = [cases[c] EXCEPT !.status = draft.status]]
    BY <1>12 DEF CommitTransition
  <2>3. cases' \in [Cases -> CaseRow \cup {None}]
    BY <1>2, <2>1, <2>2 DEF TypeOK
  <2>4. \A g \in Handlers : Busy(g) => [loc[g] EXCEPT !.fresh = FALSE] \in RequestType
    BY RequestFields DEF RequestType
  <2>5. loc' \in [Handlers -> RequestType \cup {Idle}]
    BY <1>12, <2>4 DEF CommitTransition, Doing, TypeOK
  <2> QED BY <1>12, <2>3, <2>5 DEF CommitTransition, TypeOK
<1> QED BY <1>4, <1>5, <1>6, <1>7, <1>8, <1>10, <1>11, <1>12 DEF Continues
-----------------------------------------------------------------------------
\* The parts of the invariant.

LEMMA InitInv == Init => IInv
<1> SUFFICES ASSUME Init PROVE IInv
  OBVIOUS
<1>1. TypeOK
  BY CaseConstants DEF Init, TypeOK
<1>2. \A h \in Handlers : ~Busy(h)
  BY DEF Init, Busy, Idle
<1>3. Committed = {}
  BY DEF Init, Committed
<1>4. cctns = {}
  BY DEF Init
<1>5. Claimed /\ Untold /\ DraftsKnown /\ DraftsNumbered /\ DraftsFollow /\ Alone /\ Checked
  BY <1>2 DEF Claimed, Untold, DraftsKnown, DraftsNumbered, DraftsFollow, Alone, Checked
<1>6. FirHasNumber /\ SyncedIsKnown /\ NoStrayCctnsCase /\ UniqueUnlessShaken
  BY <1>3, <1>4 DEF FirHasNumber, SyncedIsKnown, NoStrayCctnsCase, UniqueUnlessShaken
<1> QED BY <1>1, <1>5, <1>6 DEF IInv

\* What the requests have in hand, and what is said of CCTNS.
InHand == Claimed /\ Untold /\ DraftsKnown /\ DraftsNumbered /\ DraftsFollow /\ Alone /\ Checked

\* The rows of the register.
InRegister == FirHasNumber /\ SyncedIsKnown /\ UniqueUnlessShaken

\* Requests that write nothing do not disturb the register.
LEMMA RegisterKept ==
  ASSUME InRegister, cases' = cases, cctns \subseteq cctns', shaken \subseteq shaken'
  PROVE  InRegister'
<1>1. Committed' = Committed
  BY DEF Committed
<1>2. \A c, d : SameCrime(c, d)' = SameCrime(c, d)
  BY DEF SameCrime
<1> QED BY <1>1, <1>2 DEF InRegister, FirHasNumber, SyncedIsKnown, UniqueUnlessShaken

\* A request that ends without a trace.
LEMMA LeavingKeeps ==
  ASSUME TypeOK, InHand, NoStrayCctnsCase, NEW h \in Handlers, Busy(h), Goto(h, Idle),
         UNCHANGED <<cases, cctns, shaken>>,
         aborts' # 0 \/ (aborts' = aborts /\ loc[h].case \notin cctns)
  PROVE  InHand' /\ NoStrayCctnsCase'
<1>1. ~Busy(h)' /\ \A g \in Handlers \ {h} : loc'[g] = loc[g] /\ Busy(g)' = Busy(g)
  BY DEF Goto, TypeOK, Busy, Idle
<1>2. Claimed' /\ Untold' /\ DraftsKnown' /\ DraftsNumbered' /\ DraftsFollow' /\ Alone'
  BY <1>1 DEF InHand, Claimed, Untold, DraftsKnown, DraftsNumbered, DraftsFollow, Alone
<1>3. \A s : CasesOf(s)' = CasesOf(s)
  BY DEF CasesOf, Committed
<1>4. Checked'
  BY <1>1, <1>3 DEF InHand, Checked
<1>5. NoStrayCctnsCase'
  BY <1>1 DEF NoStrayCctnsCase, Committed
<1> QED BY <1>2, <1>4, <1>5 DEF InHand

\* A request that begins with a case of the register.
LEMMA TakingKeeps ==
  ASSUME TypeOK, InHand, NoStrayCctnsCase, NEW h \in Handlers, ~Busy(h),
         NEW c \in Committed, NEW op \in {"retry", "move", "status"},
         NEW pc \in {"post", "commit"}, NEW draft \in CaseRow,
         draft.sync = "Pending" /\ ~draft.known,
         op = "status" => /\ pc = "commit"
                          /\ draft.status \in Registered => cases[c].crime # None
                          /\ draft.status \in ValidTransitions(cases[c].status),
         Goto(h, Request(op, pc, c, draft)),
         UNCHANGED <<cases, cctns, shaken, aborts>>
  PROVE  InHand' /\ NoStrayCctnsCase'
<1> DEFINE l == Request(op, pc, c, draft)
<1>1. /\ loc'[h] = l /\ Busy(h)'
      /\ \A g \in Handlers \ {h} : loc'[g] = loc[g] /\ Busy(g)' = Busy(g)
  BY DEF Goto, TypeOK, Busy, Request
<1>2. l.pc = pc /\ l.op = op /\ l.case = c /\ l.draft = draft
  BY DEF Request
<1>3. cases[c] # None
  BY DEF Committed
<1> HIDE DEF l
<1>4. Claimed'
  BY <1>1, <1>2, <1>3 DEF InHand, Claimed
<1>5. Untold' /\ DraftsKnown' /\ DraftsNumbered' /\ DraftsFollow' /\ Alone'
  BY <1>1, <1>2 DEF InHand, Untold, DraftsKnown, DraftsNumbered, DraftsFollow, Alone
<1>6. \A s : CasesOf(s)' = CasesOf(s)
  BY DEF CasesOf, Committed
<1>7. Checked'
  BY <1>1, <1>2, <1>6 DEF InHand, Checked
<1>8. NoStrayCctnsCase'
  BY <1>1 DEF NoStrayCctnsCase, Committed
<1> QED BY <1>4, <1>5, <1>7, <1>8 DEF InHand

LEMMA BeginsKeep ==
  ASSUME IInv, NEW h \in Handlers, NEW c \in Cases, Begins(h, c)
  PROVE  InHand' /\ InRegister' /\ NoStrayCctnsCase'
<1>1. TypeOK /\ InHand /\ InRegister /\ NoStrayCctnsCase
  BY DEF IInv, InHand, InRegister
<1>2. ~Busy(h)
  BY DEF Begins, BeginCreate, SeedDemo, BeginRetry, BeginMove, BeginTransition, Begin
<1>3. Blank \in CaseRow /\ Blank.sync = "Pending" /\ ~Blank.known
  BY BlankType DEF Blank, NewCase
<1>4. CASE BeginCreate(h, c)
  <2>1. PICK form \in Forms :
          LET draft == NewCase(form.type, form.crime, form.petition, form.station)
              number == IF form.type = "Petition" THEN form.petition ELSE form.crime
          IN /\ Goto(h, Request("create", IF number = None THEN "number" ELSE "check", c, draft))
             /\ shaken' = IF Numbering(h, form.station) THEN shaken \cup {form.station} ELSE shaken
             /\ UNCHANGED <<cases, cctns, aborts>>
    BY <1>4 DEF BeginCreate
  <2>2. Unused(c)
    BY <1>4 DEF BeginCreate
  <2>3. /\ loc'[h].pc \in {"number", "check"} /\ loc'[h].op = "create" /\ loc'[h].case = c
        /\ loc'[h].draft = NewCase(form.type, form.crime, form.petition, form.station)
        /\ Busy(h)' /\ \A g \in Handlers \ {h} : loc'[g] = loc[g] /\ Busy(g)' = Busy(g)
    BY <1>1, <2>1 DEF Goto, TypeOK, Busy, Request
  <2>4. /\ loc'[h].draft.sync = "Pending" /\ ~loc'[h].draft.known
        /\ loc'[h].draft.status = "Complaint_Received" /\ loc'[h].draft.station = form.station
    BY <2>3 DEF NewCase
  <2>5. UNCHANGED <<cases, cctns, aborts>> /\ shaken \subseteq shaken'
    BY <2>1
  <2>6. Claimed'
    BY <1>1, <2>2, <2>3, <2>5 DEF InHand, Claimed, Unused
  <2>7. Untold' /\ DraftsKnown' /\ DraftsNumbered' /\ DraftsFollow'
    BY <1>1, <2>2, <2>3, <2>4, <2>5
       DEF InHand, Untold, DraftsKnown, DraftsNumbered, DraftsFollow, Unused
  <2>8. \A g \in Handlers \ {h} :
          Busy(g) /\ loc[g].op = "create" /\ loc[g].draft.station = form.station
          => form.station \in shaken'
    BY <2>1 DEF Numbering
  <2>9. Alone'
    BY <1>1, <2>3, <2>4, <2>5, <2>8 DEF InHand, Alone
  <2>10. \A s : CasesOf(s)' = CasesOf(s)
    BY <2>5 DEF CasesOf, Committed
  <2>11. Checked'
    BY <1>1, <2>3, <2>5, <2>10 DEF InHand, Checked
  <2>12. NoStrayCctnsCase'
    BY <1>1, <1>2, <2>3, <2>5 DEF NoStrayCctnsCase, Committed
  <2>13. InRegister'
    BY <1>1, <2>5, RegisterKept
  <2> QED BY <2>6, <2>7, <2>9, <2>11, <2>12, <2>13 DEF InHand
<1>5. CASE SeedDemo(h, c)
  <2> DEFINE new == NewCase("Petition", None, [code |-> None, seq |-> 1], None)
  <2>1. Unused(c) /\ cases' = [cases EXCEPT ![c] = new] /\ UNCHANGED <<loc, cctns, shaken, aborts>>
    BY <1>5 DEF SeedDemo
  <2>2. /\ new.crime = None /\ new.sync = "Pending" /\ ~new.known
        /\ new.status = "Complaint_Received" /\ new # None
    <3>1. new # None
      BY DemoType, NoneIsNothing
    <3> QED BY <3>1 DEF NewCase
  <2>3. cases[c] = None /\ cases'[c] = new /\ \A d \in Cases \ {c} : cases'[d] = cases[d]
    BY <1>1, <2>1 DEF TypeOK, Unused
  <2>4. \A g \in Handlers : Busy(g)' = Busy(g) /\ loc'[g] = loc[g] /\ (Busy(g) => loc[g].case # c)
    BY <2>1 DEF Busy, Unused
  <2> HIDE DEF new
  <2>5. Committed' = Committed \cup {c} /\ c \notin Committed
    BY <2>2, <2>3 DEF Committed
  <2>6. \A g \in Handlers : Busy(g) => loc[g].case \in Cases
    BY <1>1, RequestFields DEF RequestType
  <2>7. \A g \in Handlers : Busy(g) => cases'[loc[g].case] = cases[loc[g].case]
    BY <2>3, <2>4, <2>6
  <2>8. Claimed' /\ Untold' /\ DraftsKnown' /\ DraftsNumbered' /\ DraftsFollow' /\ Alone'
    BY <1>1, <2>1, <2>4, <2>7
       DEF InHand, Claimed, Untold, DraftsKnown, DraftsNumbered, DraftsFollow, Alone
  <2>9. \A s : \A d \in CasesOf(s)' : d = c \/ (d \in CasesOf(s) /\ cases'[d] = cases[d])
    BY <2>3, <2>5 DEF CasesOf, Committed
  <2>10. Checked'
    BY <1>1, <2>1, <2>2, <2>3, <2>4, <2>9 DEF InHand, Checked
  <2>11. \A d \in Committed : d # c /\ cases'[d] = cases[d]
    BY <2>3, <2>5 DEF Committed
  <2>12. InRegister'
    BY <1>1, <2>1, <2>2, <2>3, <2>5, <2>11
       DEF InRegister, FirHasNumber, SyncedIsKnown, UniqueUnlessShaken, SameCrime, Registered
  <2>13. NoStrayCctnsCase'
    BY <1>1, <2>1, <2>4, <2>5 DEF NoStrayCctnsCase
  <2> QED BY <2>8, <2>10, <2>12, <2>13 DEF InHand
<1>6. CASE BeginRetry(h, c)
  <2>1. InHand' /\ NoStrayCctnsCase'
    BY <1>1, <1>2, <1>3, <1>6, TakingKeeps DEF BeginRetry, AfterCheck
  <2>2. InRegister'
    BY <1>1, <1>6, RegisterKept DEF BeginRetry
  <2> QED BY <2>1, <2>2
<1>7. CASE BeginMove(h, c)
  <2>1. PICK s \in Stations : Goto(h, Request("move", "commit", c, [Blank EXCEPT !.station = s]))
    BY <1>7 DEF BeginMove
  <2>2. /\ [Blank EXCEPT !.station = s] \in CaseRow
        /\ [Blank EXCEPT !.station = s].sync = "Pending" /\ ~[Blank EXCEPT !.station = s].known
    BY <1>3 DEF CaseRow, Places
  <2>3. InHand' /\ NoStrayCctnsCase'
    BY <1>1, <1>2, <1>7, <2>1, <2>2, TakingKeeps DEF BeginMove
  <2>4. InRegister'
    BY <1>1, <1>7, RegisterKept DEF BeginMove
  <2> QED BY <2>3, <2>4
<1>8. CASE BeginTransition(h, c)
  <2>1. PICK status \in Asked :
          /\ c \in Committed
          /\ MayBecome(c, status)
          /\ Goto(h, Request("status", "commit", c, [Blank EXCEPT !.status = status]))
          /\ UNCHANGED <<cases, cctns, shaken, aborts>>
    BY <1>8 DEF BeginTransition
  <2> DEFINE draft == [Blank EXCEPT !.status = status]
  <2>2. status \in Statuses
    BY <2>1 DEF MayBecome, ValidTransitions, Statuses
  <2>3. draft \in CaseRow /\ draft.sync = "Pending" /\ ~draft.known /\ draft.status = status
    BY <1>3, <2>2 DEF CaseRow
  <2>4. status \in Registered => cases[c].crime # None
    <3>1. cases[c] \in CaseRow
      BY <1>1, <2>1 DEF TypeOK, Committed
    <3>2. status \in Registered => status = "FIR_Registered" \/ cases[c].status \in Registered
      BY <2>1, <3>1 DEF MayBecome, ValidTransitions, Registered, Statuses, CaseRow
    <3> QED BY <1>1, <2>1, <3>2 DEF MayBecome, InRegister, FirHasNumber
  <2> HIDE DEF draft
  <2>5. InHand' /\ NoStrayCctnsCase'
    BY <1>1, <1>2, <2>1, <2>3, <2>4, TakingKeeps DEF MayBecome, draft
  <2>6. InRegister'
    BY <1>1, <2>1, RegisterKept
  <2> QED BY <2>5, <2>6
<1> QED BY <1>4, <1>5, <1>6, <1>7, <1>8 DEF Begins

\* A request that goes on, with the same case and station, while the register stays as it is.
LEMMA AdvancingKeeps ==
  ASSUME TypeOK, InHand, NoStrayCctnsCase, NEW h \in Handlers, Busy(h), NEW l, Goto(h, l),
         /\ l.pc \in {"check", "post", "commit"}
         /\ l.op = loc[h].op /\ l.case = loc[h].case /\ l.fresh = loc[h].fresh
         /\ l.draft.station = loc[h].draft.station /\ l.draft.status = loc[h].draft.status,
         loc[h].pc # "commit",
         l.pc = "check" => loc[h].pc \in {"number", "check"} /\ cctns' = cctns,
         l.draft.sync = "Synced" \/ l.draft.known => loc[h].case \in cctns',
         cctns \subseteq cctns' /\ cctns' \subseteq cctns \cup {loc[h].case},
         cctns' # cctns => loc[h].pc = "post",
         l.op = "create" /\ l.pc # "check" /\ l.draft.crime # None /\ l.draft.station \notin shaken
           => \A d \in CasesOf(l.draft.station) : cases[d].crime # l.draft.crime,
         UNCHANGED <<cases, shaken, aborts>>
  PROVE  InHand' /\ NoStrayCctnsCase'
<1>1. /\ loc'[h] = l /\ Busy(h)'
      /\ \A g \in Handlers \ {h} : loc'[g] = loc[g] /\ Busy(g)' = Busy(g)
  BY DEF Goto, TypeOK, Busy
<1>2. Claimed'
  BY <1>1 DEF InHand, Claimed
<1>3. Untold'
  <2>1. ASSUME NEW g \in Handlers, Busy(g), loc[g].pc \in {"number", "check"},
               loc[h].pc = "post"
        PROVE  loc[g].case # loc[h].case
    BY <2>1 DEF InHand, Claimed, Untold
  <2> QED BY <1>1, <2>1 DEF InHand, Untold
<1>4. DraftsKnown' /\ DraftsNumbered' /\ DraftsFollow' /\ Alone'
  BY <1>1 DEF InHand, DraftsKnown, DraftsNumbered, DraftsFollow, Alone
<1>5. \A s : CasesOf(s)' = CasesOf(s)
  BY DEF CasesOf, Committed
<1>6. Checked'
  BY <1>1, <1>5 DEF InHand, Checked
<1>7. NoStrayCctnsCase'
  BY <1>1 DEF NoStrayCctnsCase, Committed
<1> QED BY <1>2, <1>3, <1>4, <1>6, <1>7 DEF InHand

\* A commit ends a request and changes no row but that of its case, which then is in the
\* register: with a number it had or the request found free.
LEMMA CommitKeeps ==
  ASSUME TypeOK, InHand, InRegister, NoStrayCctnsCase, NEW h \in Handlers, Busy(h),
         NEW c \in Cases, c = loc[h].case, NEW row \in CaseRow,
         cases' = [cases EXCEPT ![c] = row],
         ~Busy(h)',
         \A g \in Handlers \ {h} :
           /\ Busy(g)' = Busy(g)
           /\ loc'[g] = loc[g] \/ loc'[g] = [loc[g] EXCEPT !.fresh = FALSE],
         UNCHANGED <<cctns, aborts>>,
         shaken \subseteq shaken',
         cases[c] = None => loc[h].op = "create" /\ row = loc[h].draft /\ loc[h].pc = "commit",
         cases[c] # None => loc[h].op # "create" /\ row.crime = cases[c].crime,
         row.status \in Registered => row.crime # None,
         row.sync = "Synced" \/ row.known => c \in cctns,
         cases[c] # None /\ row.station # cases[c].station => row.station \in shaken',
         cases[c] # None /\ row.status # cases[c].status =>
           \A g \in Handlers \ {h} :
             Busy(g) /\ loc[g].op = "status" /\ loc[g].case = c => ~loc'[g].fresh
  PROVE  InHand' /\ InRegister' /\ NoStrayCctnsCase'
<1>1. \A g \in Handlers : Busy(g) => loc[g] \in RequestType
  BY RequestFields
<1>2. \A g \in Handlers \ {h} : Busy(g) =>
        /\ Busy(g)' /\ loc'[g].op = loc[g].op /\ loc'[g].pc = loc[g].pc
        /\ loc'[g].case = loc[g].case /\ loc'[g].draft = loc[g].draft
        /\ loc'[g].fresh => loc[g].fresh
  BY <1>1 DEF RequestType
<1>3. cases'[c] = row /\ row # None /\ \A d \in Cases \ {c} : cases'[d] = cases[d]
  BY NoneIsNothing DEF TypeOK
<1>4. Committed' = Committed \cup {c} /\ \A d \in Committed : d # c => cases'[d] = cases[d]
  BY <1>3 DEF Committed
<1>5. \A g \in Handlers \ {h} : Busy(g)' => Busy(g) /\ loc[g].case \in Cases
  BY <1>1 DEF RequestType
<1>6. \A g \in Handlers \ {h} : Busy(g) /\ loc[g].op = "create" => loc[g].case # c
  BY DEF InHand, Claimed
<1>7. Claimed'
  <2>1. ASSUME NEW g \in Handlers \ {h}, Busy(g)
        PROVE  IF loc[g].op = "create"
               THEN /\ cases'[loc[g].case] = None
                    /\ \A f \in Handlers \ {h} : Busy(f) /\ loc[f].case = loc[g].case => f = g
               ELSE cases'[loc[g].case] # None
    BY <1>3, <1>5, <1>6, <2>1 DEF InHand, Claimed
  <2> QED BY <1>2, <1>5, <2>1 DEF Claimed
<1>8. Untold' /\ DraftsKnown' /\ Alone'
  BY <1>2, <1>5 DEF InHand, Untold, DraftsKnown, Alone
<1>9. \A g \in Handlers \ {h} : Busy(g) /\ loc[g].op # "create" =>
        /\ cases[loc[g].case] # None /\ cases[loc[g].case].crime = cases'[loc[g].case].crime
        /\ \/ cases[loc[g].case].status = cases'[loc[g].case].status
           \/ loc[g].op = "status" => ~loc'[g].fresh
  <2> SUFFICES ASSUME NEW g \in Handlers \ {h}, Busy(g), loc[g].op # "create"
               PROVE  /\ cases[loc[g].case] # None
                      /\ cases[loc[g].case].crime = cases'[loc[g].case].crime
                      /\ \/ cases[loc[g].case].status = cases'[loc[g].case].status
                         \/ loc[g].op = "status" => ~loc'[g].fresh
    OBVIOUS
  <2>1. cases[loc[g].case] # None /\ loc[g].case \in Cases
    BY <1>5 DEF InHand, Claimed
  <2>2. CASE loc[g].case # c
    BY <1>3, <2>1, <2>2
  <2>3. CASE loc[g].case = c
    BY <1>3, <2>1, <2>3
  <2> QED BY <2>2, <2>3
<1>10. DraftsNumbered' /\ DraftsFollow'
  BY <1>2, <1>5, <1>9 DEF InHand, DraftsNumbered, DraftsFollow
\* The number of the row is new in its station, or the station is shaken.
<1>11. \A d \in Committed : d # c /\ cases[d].station = row.station /\ cases[d].crime = row.crime
         => row.crime = None \/ row.station \in shaken'
  <2>1. CASE cases[c] = None
    BY <2>1 DEF InHand, Checked, CasesOf
  <2>2. CASE cases[c] # None
    BY <2>2 DEF InRegister, UniqueUnlessShaken, SameCrime, Committed
  <2> QED BY <2>1, <2>2
<1>12. InRegister'
  <2>1. FirHasNumber' /\ SyncedIsKnown'
    BY <1>3, <1>4 DEF InRegister, FirHasNumber, SyncedIsKnown
  <2>2. UniqueUnlessShaken'
    BY <1>3, <1>4, <1>11 DEF InRegister, UniqueUnlessShaken, SameCrime
  <2> QED BY <2>1, <2>2 DEF InRegister
\* Another request that found a number free still does.
<1>13. Checked'
  <2> SUFFICES ASSUME NEW g \in Handlers \ {h}, Busy(g), loc[g].op = "create",
                      loc[g].pc \in {"post", "commit"}, loc[g].draft.crime # None,
                      loc[g].draft.station \notin shaken',
                      NEW d \in CasesOf(loc[g].draft.station)'
               PROVE  cases'[d].crime # loc[g].draft.crime
    BY <1>2, <1>5 DEF Checked
  <2>1. d \in Committed' /\ cases'[d].station = loc[g].draft.station
    BY <1>2 DEF CasesOf
  <2>2. \A e \in Committed : cases[e].station = loc[g].draft.station
                              => cases[e].crime # loc[g].draft.crime
    BY DEF InHand, Checked, CasesOf
  <2>3. CASE d # c
    BY <1>4, <2>1, <2>2, <2>3
  <2>4. CASE d = c /\ cases[c] = None
    BY <1>3, <2>1, <2>4 DEF InHand, Alone
  <2>5. CASE d = c /\ cases[c] # None
    <3>1. c \in Committed /\ cases[c].station = loc[g].draft.station
      BY <1>3, <2>1, <2>5 DEF Committed
    <3> QED BY <1>3, <2>2, <2>5, <3>1
  <2> QED BY <2>3, <2>4, <2>5
<1>14. NoStrayCctnsCase'
  BY <1>2, <1>4 DEF NoStrayCctnsCase
<1> QED BY <1>7, <1>8, <1>10, <1>12, <1>13, <1>14 DEF InHand

LEMMA ContinuesKeep ==
  ASSUME IInv, NEW h \in Handlers, Continues(h)
  PROVE  InHand' /\ InRegister' /\ NoStrayCctnsCase'
<1>1. TypeOK /\ InHand /\ InRegister /\ NoStrayCctnsCase
  BY DEF IInv, InHand, InRegister
<1>2. Busy(h) /\ loc[h] \in RequestType
  BY <1>1, RequestFields DEF Continues, GenerateNumber, EnsureUniqueCrimeNo, PostAnswered,
     PostFailed, CommitCreate, CommitRetry, CommitMove, CommitTransition, Doing
<1> DEFINE c == loc[h].case
           draft == loc[h].draft
<1>3. c \in Cases /\ draft \in CaseRow
  BY <1>2 DEF RequestType
<1>4. ASSUME Goto(h, Idle)
      PROVE  /\ ~Busy(h)'
             /\ \A g \in Handlers \ {h} :
                  /\ Busy(g)' = Busy(g)
                  /\ loc'[g] = loc[g] \/ loc'[g] = [loc[g] EXCEPT !.fresh = FALSE]
  BY <1>1, <1>4 DEF Goto, TypeOK, Busy, Idle
<1>5. CASE GenerateNumber(h)
  <2> DEFINE s == draft.station
             seq == NextStationSequence(s, draft.type)
             numbered == IF draft.type = "Petition"
                         THEN [draft EXCEPT !.petition = [code |-> s, seq |-> seq]]
                         ELSE [draft EXCEPT !.crime = seq]
             l == [loc[h] EXCEPT !.pc = "check", !.draft = numbered]
  <2>1. UNCHANGED <<cases, cctns, shaken, aborts>> /\ (Goto(h, Idle) \/ Goto(h, l))
    BY <1>5 DEF GenerateNumber
  <2>2. loc[h].pc = "number" /\ c \notin cctns
    BY <1>1, <1>5 DEF GenerateNumber, Doing, InHand, Untold
  <2>3. InRegister'
    BY <1>1, <2>1, RegisterKept
  <2>4. CASE Goto(h, Idle)
    BY <1>1, <1>2, <2>1, <2>2, <2>3, <2>4, LeavingKeeps
  <2>5. CASE Goto(h, l)
    <3> HIDE DEF seq
    <3>1. /\ numbered.station = draft.station /\ numbered.status = draft.status
          /\ numbered.sync = draft.sync /\ numbered.known = draft.known
      BY <1>3 DEF CaseRow
    <3> HIDE DEF numbered
    <3>2. /\ l.pc = "check" /\ l.op = loc[h].op /\ l.case = c /\ l.fresh = loc[h].fresh
          /\ l.draft = numbered
      BY <1>2 DEF RequestType
    <3> HIDE DEF l
    <3>3. draft.sync = "Synced" \/ draft.known => c \in cctns
      BY <1>1, <1>2 DEF InHand, DraftsKnown
    <3>4. InHand' /\ NoStrayCctnsCase'
      BY <1>1, <1>2, <2>1, <2>2, <2>5, <3>1, <3>2, <3>3, AdvancingKeeps
    <3> QED BY <2>3, <3>4
  <2> QED BY <2>1, <2>4, <2>5
<1>6. CASE EnsureUniqueCrimeNo(h)
  <2> DEFINE taken == /\ draft.crime # None
                      /\ \E d \in CasesOf(draft.station) : cases[d].crime = draft.crime
             l == [loc[h] EXCEPT !.pc = AfterCheck]
  <2>1. /\ UNCHANGED <<cases, cctns, shaken, aborts>>
        /\ (taken /\ Goto(h, Idle)) \/ (~taken /\ Goto(h, l))
    BY <1>6 DEF EnsureUniqueCrimeNo
  <2>2. loc[h].pc = "check" /\ c \notin cctns
    BY <1>1, <1>6 DEF EnsureUniqueCrimeNo, Doing, InHand, Untold
  <2>3. InRegister'
    BY <1>1, <2>1, RegisterKept
  <2>4. CASE Goto(h, Idle)
    BY <1>1, <1>2, <2>1, <2>2, <2>3, <2>4, LeavingKeeps
  <2>5. CASE ~taken /\ Goto(h, l)
    <3>1. /\ l.pc \in {"post", "commit"} /\ l.op = loc[h].op /\ l.case = c
          /\ l.fresh = loc[h].fresh /\ l.draft = draft
      BY <1>2 DEF RequestType, AfterCheck
    <3> HIDE DEF l
    <3>2. draft.sync = "Synced" \/ draft.known => c \in cctns
      BY <1>1, <1>2 DEF InHand, DraftsKnown
    <3>3. InHand' /\ NoStrayCctnsCase'
      BY <1>1, <1>2, <2>1, <2>2, <2>5, <3>1, <3>2, AdvancingKeeps
    <3> QED BY <2>3, <3>3
  <2> QED BY <2>1, <2>4, <2>5
\* What a request that talks to CCTNS found free is free as long as it is alone.
<1>7. ASSUME loc[h].pc = "post", loc[h].op = "create", draft.crime # None,
             draft.station \notin shaken
      PROVE  \A d \in CasesOf(draft.station) : cases[d].crime # draft.crime
  BY <1>1, <1>2, <1>7 DEF InHand, Checked
<1>8. CASE PostAnswered(h)
  <2>1. PICK id \in BOOLEAN :
          Goto(h, [loc[h] EXCEPT !.pc = "commit", !.draft.sync = "Synced", !.draft.known = (@ \/ id)])
    BY <1>8 DEF PostAnswered
  <2> DEFINE l == [loc[h] EXCEPT !.pc = "commit", !.draft.sync = "Synced", !.draft.known = (@ \/ id)]
  <2>2. /\ l.pc = "commit" /\ l.op = loc[h].op /\ l.case = c /\ l.fresh = loc[h].fresh
        /\ l.draft.station = draft.station /\ l.draft.status = draft.status
        /\ l.draft.crime = draft.crime
    BY <1>2, <1>3 DEF RequestType, CaseRow
  <2>3. /\ cctns' = cctns \cup {c} /\ loc[h].pc = "post"
        /\ UNCHANGED <<cases, shaken, aborts>>
    BY <1>8 DEF PostAnswered
  <2>4. InRegister'
    BY <1>1, <2>3, RegisterKept
  <2>5. Goto(h, l)
    BY <2>1
  <2> HIDE DEF l
  <2>6. InHand' /\ NoStrayCctnsCase'
    BY <1>1, <1>2, <1>7, <2>2, <2>3, <2>5, AdvancingKeeps
  <2> QED BY <2>4, <2>6
<1>9. CASE PostFailed(h)
  <2>1. PICK l \in {[loc[h] EXCEPT !.pc = "commit", !.draft.sync = "Failed"],
                    [loc[h] EXCEPT !.tries = @ + 1]} : Goto(h, l)
    BY <1>9 DEF PostFailed
  <2>2. loc[h].pc = "post" /\ cctns' \in {cctns, cctns \cup {c}} /\ UNCHANGED <<cases, shaken, aborts>>
    BY <1>9 DEF PostFailed
  <2>3. /\ l.pc \in {"commit", "post"} /\ l.op = loc[h].op /\ l.case = c /\ l.fresh = loc[h].fresh
        /\ l.draft.station = draft.station /\ l.draft.status = draft.status
        /\ l.draft.crime = draft.crime
        /\ l.draft.sync = "Synced" => draft.sync = "Synced"
        /\ l.draft.known = draft.known
    <3>1. CASE l = [loc[h] EXCEPT !.pc = "commit", !.draft.sync = "Failed"]
      BY <1>2, <1>3, <3>1 DEF RequestType, CaseRow
    <3>2. CASE l = [loc[h] EXCEPT !.tries = @ + 1]
      BY <1>2, <1>3, <2>2, <3>2 DEF RequestType, CaseRow
    <3> QED BY <2>1, <3>1, <3>2
  <2>4. draft.sync = "Synced" \/ draft.known => c \in cctns
    BY <1>1, <1>2 DEF InHand, DraftsKnown
  <2>5. InRegister'
    BY <1>1, <2>2, RegisterKept
  <2>6. InHand' /\ NoStrayCctnsCase'
    BY <1>1, <1>2, <1>7, <2>1, <2>2, <2>3, <2>4, AdvancingKeeps
  <2> QED BY <2>5, <2>6
<1>10. CASE CommitCreate(h)
  <2>1. /\ cases' = [cases EXCEPT ![c] = draft] /\ Goto(h, Idle) /\ UNCHANGED <<cctns, shaken, aborts>>
        /\ loc[h].op = "create" /\ loc[h].pc = "commit"
    BY <1>10 DEF CommitCreate, Doing
  <2>2. cases[c] = None /\ draft.status = "Complaint_Received"
    BY <1>1, <1>2, <2>1 DEF InHand, Claimed, DraftsNumbered
  <2>3. draft.status \notin Registered
    BY <2>2 DEF Registered
  <2>4. draft.sync = "Synced" \/ draft.known => c \in cctns
    BY <1>1, <1>2 DEF InHand, DraftsKnown
  <2> QED BY <1>1, <1>2, <1>3, <1>4, <2>1, <2>2, <2>3, <2>4, CommitKeeps
<1>11. ASSUME loc[h].op # "create"
       PROVE  /\ cases[c] # None /\ cases[c] \in CaseRow
              /\ cases[c].status \in Registered => cases[c].crime # None
              /\ cases[c].sync = "Synced" \/ cases[c].known => c \in cctns
  BY <1>1, <1>2, <1>3, <1>11
     DEF InHand, Claimed, TypeOK, InRegister, FirHasNumber, SyncedIsKnown, Committed
<1>12. CASE CommitRetry(h)
  <2> DEFINE row == [cases[c] EXCEPT !.sync = draft.sync, !.known = (@ \/ draft.known)]
  <2>1. /\ cases' = [cases EXCEPT ![c] = row] /\ Goto(h, Idle) /\ UNCHANGED <<cctns, shaken, aborts>>
        /\ loc[h].op = "retry"
    BY <1>12 DEF CommitRetry, Doing
  <2>2. (cases[c].known \/ draft.known) \in BOOLEAN
    OBVIOUS
  <2>3. /\ row \in CaseRow /\ row.crime = cases[c].crime /\ row.status = cases[c].status
        /\ row.station = cases[c].station /\ row.sync = draft.sync
        /\ row.known => cases[c].known \/ draft.known
    BY <1>3, <1>11, <2>1, <2>2 DEF CaseRow
  <2>4. draft.sync = "Synced" \/ draft.known => c \in cctns
    BY <1>1, <1>2 DEF InHand, DraftsKnown
  <2> HIDE DEF row
  <2> QED BY <1>1, <1>2, <1>3, <1>4, <1>11, <2>1, <2>3, <2>4, CommitKeeps
<1>13. CASE CommitMove(h)
  <2> DEFINE row == [cases[c] EXCEPT !.station = draft.station]
  <2>1. /\ cases' = [cases EXCEPT ![c] = row] /\ Goto(h, Idle) /\ UNCHANGED <<cctns, aborts>>
        /\ loc[h].op = "move"
        /\ shaken' = IF cases'[c].station # cases[c].station
                     THEN shaken \cup {cases[c].station, cases'[c].station} ELSE shaken
    BY <1>13 DEF CommitMove, Doing
  <2>2. /\ row \in CaseRow /\ row.crime = cases[c].crime /\ row.status = cases[c].status
        /\ row.sync = cases[c].sync /\ row.known = cases[c].known
    BY <1>3, <1>11, <2>1 DEF CaseRow
  <2> HIDE DEF row
  <2>3. cases'[c] = row
    BY <1>1, <1>3, <2>1 DEF TypeOK
  <2>4. shaken \subseteq shaken' /\ (row.station # cases[c].station => row.station \in shaken')
    BY <2>1, <2>3
  <2> QED BY <1>1, <1>2, <1>3, <1>4, <1>11, <2>1, <2>2, <2>4, CommitKeeps
<1>14. CASE CommitTransition(h)
  <2> DEFINE row == [cases[c] EXCEPT !.status = draft.status]
  <2>1. /\ cases' = [cases EXCEPT ![c] = row] /\ UNCHANGED <<cctns, shaken, aborts>>
        /\ loc[h].op = "status"
        /\ loc' = [g \in Handlers |->
               IF g = h THEN Idle
               ELSE IF Doing(g, "status", "commit") /\ loc[g].case = c
                    THEN [loc[g] EXCEPT !.fresh = FALSE] ELSE loc[g]]
    BY <1>14 DEF CommitTransition, Doing
  <2>2. /\ row \in CaseRow /\ row.crime = cases[c].crime /\ row.status = draft.status
        /\ row.sync = cases[c].sync /\ row.known = cases[c].known
        /\ row.station = cases[c].station
    BY <1>3, <1>11, <2>1 DEF CaseRow
  <2> HIDE DEF row
  <2>3. draft.status \in Registered => cases[c].crime # None
    BY <1>1, <1>2, <2>1 DEF InHand, DraftsNumbered
  <2>4. ~Busy(h)'
    BY <2>1 DEF Busy, Idle
  <2>5. ASSUME NEW g \in Handlers \ {h}, Busy(g)
        PROVE  /\ Busy(g)'
               /\ loc'[g] = loc[g] \/ loc'[g] = [loc[g] EXCEPT !.fresh = FALSE]
               /\ loc[g].op = "status" /\ loc[g].pc = "commit" /\ loc[g].case = c => ~loc'[g].fresh
    <3>1. loc[g] \in RequestType
      BY <1>1, <2>5, RequestFields
    <3>2. [loc[g] EXCEPT !.fresh = FALSE].fresh = FALSE /\ [loc[g] EXCEPT !.fresh = FALSE].pc = loc[g].pc
      BY <3>1 DEF RequestType
    <3> QED BY <2>1, <2>5, <3>1, <3>2 DEF Busy, Doing
  <2>6. ASSUME NEW g \in Handlers \ {h}, Busy(g)' PROVE Busy(g)
    BY <2>1, <2>6 DEF Busy, Doing
  <2>7. \A g \in Handlers \ {h} : Busy(g)' = Busy(g)
    BY <2>5, <2>6 DEF Busy
  <2>8. \A g \in Handlers \ {h} :
          loc'[g] = loc[g] \/ loc'[g] = [loc[g] EXCEPT !.fresh = FALSE]
    BY <2>1
  <2>9. \A g \in Handlers \ {h} :
          Busy(g) /\ loc[g].op = "status" /\ loc[g].case = c => ~loc'[g].fresh
    BY <1>1, <2>5 DEF InHand, DraftsFollow
  <2> QED BY <1>1, <1>2, <1>3, <1>11, <2>1, <2>2, <2>3, <2>4, <2>7, <2>8, <2>9, CommitKeeps
<1> QED BY <1>5, <1>6, <1>8, <1>9, <1>10, <1>12, <1>13, <1>14 DEF Continues

\* A failed request leaves its mark in aborts.
LEMMA AbortKeeps ==
  ASSUME IInv, NEW h \in Handlers, Abort(h)
  PROVE  TypeOK' /\ InHand' /\ InRegister' /\ NoStrayCctnsCase'
<1>1. TypeOK /\ InHand /\ InRegister /\ NoStrayCctnsCase
  BY DEF IInv, InHand, InRegister
<1>2. /\ Busy(h) /\ Goto(h, Idle) /\ UNCHANGED <<cases, cctns, shaken, begun>>
      /\ aborts' = aborts + 1 /\ aborts < MaxAborts
  BY DEF Abort
<1>3. aborts' \in 0..MaxAborts /\ aborts' # 0
  BY <1>1, <1>2, CaseConstants DEF TypeOK
<1>4. loc' \in [Handlers -> RequestType \cup {Idle}]
  BY <1>1, <1>2, GotoTypes
<1>5. TypeOK'
  BY <1>1, <1>2, <1>3, <1>4 DEF TypeOK
<1>6. InHand' /\ NoStrayCctnsCase'
  BY <1>1, <1>2, <1>3, LeavingKeeps
<1>7. InRegister'
  BY <1>1, <1>2, RegisterKept
<1> QED BY <1>5, <1>6, <1>7

LEMMA StutterKeeps ==
  ASSUME IInv, UNCHANGED vars
  PROVE  IInv'
<1>1. \A h : Busy(h)' = Busy(h)
  BY DEF Busy, vars
<1>2. Committed' = Committed
  BY DEF Committed, vars
<1>3. \A s : CasesOf(s)' = CasesOf(s)
  BY <1>2 DEF CasesOf, vars
<1>4. \A c, d : SameCrime(c, d)' = SameCrime(c, d)
  BY DEF SameCrime, vars
<1>5. TypeOK' /\ Claimed' /\ Untold' /\ DraftsKnown'
  BY <1>1 DEF vars, IInv, TypeOK, Claimed, Untold, DraftsKnown
<1>6. DraftsNumbered' /\ DraftsFollow' /\ Alone' /\ Checked'
  BY <1>1, <1>3 DEF vars, IInv, DraftsNumbered, DraftsFollow, Alone, Checked
<1>7. FirHasNumber' /\ SyncedIsKnown' /\ NoStrayCctnsCase' /\ UniqueUnlessShaken'
  BY <1>1, <1>2, <1>4
     DEF vars, IInv, FirHasNumber, SyncedIsKnown, NoStrayCctnsCase, UniqueUnlessShaken
<1> QED BY <1>5, <1>6, <1>7 DEF IInv

LEMMA NextInv == IInv /\ [Next]_vars => IInv'
<1> SUFFICES ASSUME IInv, [Next]_vars PROVE IInv'
  OBVIOUS
<1>1. TypeOK /\ Claimed
  BY DEF IInv
<1>2. ASSUME NEW h \in Handlers, NEW c \in Cases, Begins(h, c) PROVE IInv'
  BY <1>1, <1>2, BeginsTypes, BeginsKeep DEF IInv, InHand, InRegister
<1>3. ASSUME NEW h \in Handlers, Continues(h) PROVE IInv'
  BY <1>1, <1>3, ContinuesTypes, ContinuesKeep DEF IInv, InHand, InRegister
<1>4. ASSUME NEW h \in Handlers, Abort(h) PROVE IInv'
  BY <1>4, AbortKeeps DEF IInv, InHand, InRegister
<1>5. CASE UNCHANGED vars
  BY <1>5, StutterKeeps
<1> QED BY <1>2, <1>3, <1>4, <1>5 DEF Next

LEMMA Inductive == Spec => []IInv
BY InitInv, NextInv, PTL DEF Spec

-----------------------------------------------------------------------------
\* The theorems.

\* Rows and requests have the types of the code: in particular nothing is written to a row
\* that is not in the register.
THEOREM TypeCorrect == Spec => []TypeOK
<1>1. IInv => TypeOK
  BY DEF IInv
<1> QED BY <1>1, Inductive, PTL

\* No case gets past registration without a crime number (transition_case_status),
\* whichever requests overlap.
THEOREM RegisteredHaveNumbers == Spec => []FirHasNumber
<1>1. IInv => FirHasNumber
  BY DEF IInv
<1> QED BY <1>1, Inductive, PTL

\* What the register says of CCTNS is so, and a request that is refused has told CCTNS
\* nothing (create_case, sync_case_metadata).
THEOREM RegisterAndCctnsAgree == Spec => []CctnsAgrees
<1>1. IInv => CctnsAgrees
  BY DEF IInv, CctnsAgrees
<1> QED BY <1>1, Inductive, PTL

\* In a quiet station crime numbers are unique, although the check and the insertion are
\* two steps (_ensure_unique_crime_no).
THEOREM NumbersAreUnique == Spec => []UniqueUnlessShaken
<1>1. IInv => UniqueUnlessShaken
  BY DEF IInv
<1> QED BY <1>1, Inductive, PTL

\* A request that still knows the status of its case moves it along VALID_TRANSITIONS.
THEOREM FreshMovesAreLegal == Spec => FreshMovesFollowTable
<1>1. ASSUME IInv, NEW h \in Handlers, CommitTransition(h), loc[h].fresh
      PROVE  cases'[loc[h].case].status \in ValidTransitions(cases[loc[h].case].status)
  <2>1. Busy(h) /\ loc[h].op = "status" /\ cases' = [cases EXCEPT ![loc[h].case].status = loc[h].draft.status]
    BY <1>1 DEF CommitTransition, Doing
  <2>2. loc[h].case \in Cases /\ TypeOK
    BY <1>1, <2>1, RequestFields DEF IInv, RequestType
  <2>3. cases[loc[h].case] \in CaseRow
    BY <1>1, <2>1, <2>2 DEF IInv, Claimed, TypeOK
  <2>4. cases'[loc[h].case].status = loc[h].draft.status
    BY <2>1, <2>2, <2>3 DEF TypeOK, CaseRow
  <2> QED BY <1>1, <2>1, <2>4 DEF IInv, DraftsFollow
<1>2. IInv /\ [Next]_vars =>
        [\A h \in Handlers :
           CommitTransition(h) /\ loc[h].fresh =>
             LET c == loc[h].case IN cases'[c].status \in ValidTransitions(cases[c].status)]_vars
  BY <1>1
<1> QED BY <1>2, Inductive, PTL DEF Spec, FreshMovesFollowTable
=============================================================================
