----------------------- MODULE PetitionRewriteProofs -----------------------
(***************************************************************************)
(* Proofs about PetitionRewrite, for any number of concurrent requests,    *)
(* packets, drafts and checklist questions.                                *)
(***************************************************************************)
EXTENDS PetitionRewrite, FiniteSetTheorems, WellFoundedInduction, TLAPS

-----------------------------------------------------------------------------
(* The inductive invariant. *)

PacketOps == {"edit", "approve", "export", "verify", "accept", "translate"}

\* What transaction t has read is still there, fresh or not: its packet, its
\* draft, and the text a merge started from unless something was merged.
Refers(t) ==
  /\ t.op \in PacketOps => t.d \in DOMAIN draft[t.r]
  /\ t.op = "checklist" => Created(t.r)
  /\ t.op = "create" => t.record \in 0..records
  /\ t.op = "accept" /\ t.text.words # "merged" => t.text = draft[t.r][t.d].text

TxnsRefer == \A s \in Sessions : Refers(txn[s])

\* Packets belong to parse records that exist, and before a packet is created
\* nothing is known of it.
RowsRefer ==
  \A r \in Requests :
    /\ Created(r) => request[r].record \in 1..records
    /\ ~Created(r) => verification[r] = None /\ released[r] = {} /\ accepted[r] = {}

\* A packet that may be released has its last draft approved, and what the
\* petitioner verified is that draft.
Orderly(r) ==
  LET last == Len(draft[r]) IN
  /\ \A i \in DOMAIN draft[r] : draft[r][i].version = i
  /\ Created(r) /\ request[r].status \in Releasable => last \in approved[r]
  /\ verification[r] # None =>
       /\ request[r].status \in Releasable \cup {"accepted"}
       /\ request[r].status \in Releasable => verification[r].d = last
  /\ Cardinality(batches[r]) <= 1
  /\ released[r] \subseteq approved[r]
  /\ \A a \in accepted[r] : a.from \in approved[r] /\ a.verified = a.from

OrderlyPackets == \A r \in Requests \ disturbed : Orderly(r)

\* What transaction t would still read as it did, and so would still do.
Fresh(t) ==
  LET last == Len(draft[t.r])
      is   == request[t.r].status
  IN
  /\ t.op = "edit" => is \notin Locked /\ t.version = last + 1
  /\ t.op = "approve" => t.d = last
  /\ t.op = "export" => is = t.status /\ t.d = last
  /\ t.op = "verify" => is \in Releasable /\ t.d = last
  /\ t.op = "accept" => /\ is \in Releasable /\ t.d = last
                        /\ t.version = last + 1 /\ t.verified = last
  /\ t.op = "checklist" => t.seen = batches[t.r]

\* No undisturbed active packet has the record the creation t is about.
FreshCreation(t) ==
  /\ t.record = 0 => records = 0
  /\ \A r \in Requests \ disturbed : IsActive(r) => request[r].record # t.record

Promised(t) ==
  /\ t.op \in PacketOps \cup {"checklist"} /\ ~t.stale /\ t.r \notin disturbed => Fresh(t)
  /\ t.op = "create" /\ ~t.stale => FreshCreation(t)

FreshTxns == \A s \in Sessions : Promised(txn[s])

IInv == /\ TypeOK /\ TxnsRefer /\ RowsRefer /\ LineageIsSound
        /\ OrderlyPackets /\ OneActivePacket /\ FreshTxns

-----------------------------------------------------------------------------
(* Versions of drafts. *)

LEMMA SmallestOf ==
  ASSUME NEW S \in SUBSET Nat, S # {}
  PROVE  \E x \in S : \A y \in S : x <= y
<1>1. PICK x \in S : \A y \in S : <<y, x>> \notin OpToRel(<, Nat)
  BY NatLessThanWellFounded, WFMin
<1>2. \A y \in S : ~(y < x)
  BY <1>1 DEF OpToRel
<1> QED BY <1>2

\* The versions of some drafts are bounded: the shortest part of them that were
\* not would be bounded by its last version or by the bound of the rest.
LEMMA VersionsAreBounded ==
  ASSUME NEW s \in Seq(DraftRow)
  PROVE  \E m \in Nat : \A i \in DOMAIN s : s[i].version <= m
<1> DEFINE Bounded(k) == \E m \in Nat : \A i \in 1..k : s[i].version <= m
           Loose == {k \in 0..Len(s) : ~Bounded(k)}
<1>1. Len(s) \in Nat /\ DOMAIN s = 1..Len(s) /\ \A i \in 1..Len(s) : s[i].version \in Nat
  <2>1. \A x \in DraftRow : x.version \in Nat
    BY DEF DraftRow, Version
  <2>2. Len(s) \in Nat /\ DOMAIN s = 1..Len(s) /\ \A i \in 1..Len(s) : s[i] \in DraftRow
    OBVIOUS
  <2> QED BY <2>1, <2>2
<1>2. Bounded(0)
  OBVIOUS
<1>3. ASSUME NEW k \in 1..Len(s), Bounded(k - 1) PROVE Bounded(k)
  <2>1. PICK m \in Nat : \A i \in 1..(k - 1) : s[i].version <= m
    BY <1>3
  <2> DEFINE n == IF m < s[k].version THEN s[k].version ELSE m
  <2>2. n \in Nat /\ s[k].version <= n /\ m <= n
    BY <1>1
  <2>3. ASSUME NEW i \in 1..k PROVE s[i].version <= n
    <3>1. CASE i = k
      BY <2>2, <3>1
    <3>2. CASE i # k
      <4>1. i \in 1..(k - 1) /\ i \in 1..Len(s)
        BY <1>1, <3>2
      <4> HIDE DEF n
      <4> QED BY <1>1, <2>1, <2>2, <4>1
    <3> QED BY <3>1, <3>2
  <2> QED BY <2>2, <2>3
<1> HIDE DEF Bounded
<1>4. ASSUME Loose # {} PROVE FALSE
  <2>1. Loose \in SUBSET Nat
    BY <1>1
  <2>2. PICK k \in Loose : \A j \in Loose : k <= j
    BY <1>4, <2>1, SmallestOf
  <2>3. k \in 1..Len(s) /\ k - 1 \in 0..Len(s) /\ ~(k <= k - 1)
    BY <1>1, <1>2, <2>2
  <2> QED BY <1>3, <2>2, <2>3
<1>5. Bounded(Len(s))
  BY <1>1, <1>4
<1> QED BY <1>1, <1>5 DEF Bounded

\* The highest version of a packet is the version of a draft.
LEMMA MaxVersionIsHighest ==
  ASSUME TypeOK, NEW r \in Requests, Created(r)
  PROVE  /\ MaxVersion(r) \in Version
         /\ \E i \in DOMAIN draft[r] : draft[r][i].version = MaxVersion(r)
         /\ \A i \in DOMAIN draft[r] : draft[r][i].version <= MaxVersion(r)
<1> DEFINE s == draft[r]
           S == {s[i].version : i \in DOMAIN s}
           Bounds == {m \in Nat : \A i \in DOMAIN s : s[i].version <= m}
<1>1. s \in Seq(DraftRow) /\ s # <<>>
  BY DEF TypeOK
<1>2. S \subseteq Version /\ S # {} /\ \A i \in DOMAIN s : s[i].version \in Version
  <2>1. \A x \in DraftRow : x.version \in Version
    BY DEF DraftRow
  <2>2. DOMAIN s # {} /\ \A i \in DOMAIN s : s[i] \in DraftRow
    <3>1. Len(s) \in Nat /\ DOMAIN s = 1..Len(s) /\ Len(s) # 0
      BY <1>1
    <3>2. 1 \in DOMAIN s
      BY <3>1
    <3> QED BY <1>1, <3>2
  <2>3. \A i \in DOMAIN s : s[i].version \in Version
    BY <2>1, <2>2
  <2> HIDE DEF s
  <2>4. S \subseteq Version /\ S # {}
    BY <2>2, <2>3
  <2> QED BY <2>3, <2>4
<1>3. Bounds \in SUBSET Nat /\ Bounds # {}
  BY <1>1, VersionsAreBounded
<1>4. PICK b \in Bounds : \A m \in Bounds : b <= m
  BY <1>3, SmallestOf
<1>5. b \in S
  <2>1. SUFFICES ASSUME b \notin S PROVE FALSE
    OBVIOUS
  <2>2. \A i \in DOMAIN s : s[i].version < b
    BY <1>2, <2>1 DEF Version
  <2>3. b - 1 \in Nat
    <3>1. PICK i \in DOMAIN s : TRUE
      BY <1>2
    <3> QED BY <1>2, <2>2, <3>1 DEF Version
  <2>4. b - 1 \in Bounds
    BY <1>2, <2>2, <2>3 DEF Version
  <2> QED BY <1>4, <2>3, <2>4
<1>6. \A v \in S : b >= v
  BY <1>2, <1>4 DEF Version
<1>7. Max(S) \in S /\ \A v \in S : Max(S) >= v
  BY <1>5, <1>6 DEF Max
<1>8. MaxVersion(r) = Max(S)
  BY DEF MaxVersion
<1> HIDE DEF S
<1>9. Max(S) \in Version
  BY <1>2, <1>7
<1> QED BY <1>7, <1>8, <1>9 DEF S, Version

\* Where the versions count up the latest draft is the last one.
LEMMA LatestIsLast ==
  ASSUME TypeOK, NEW r \in Requests, Created(r), Orderly(r)
  PROVE  /\ Len(draft[r]) \in Version
         /\ MaxVersion(r) = Len(draft[r])
         /\ \A d \in Latest(r) : d = Len(draft[r])
<1>1. draft[r] \in Seq(DraftRow) /\ draft[r] # <<>>
  BY DEF TypeOK
<1>2. Len(draft[r]) \in Nat /\ DOMAIN draft[r] = 1..Len(draft[r]) /\ Len(draft[r]) # 0
  BY <1>1
<1>3. \A i \in 1..Len(draft[r]) : draft[r][i].version = i
  BY <1>2 DEF Orderly
<1>4. MaxVersion(r) = Len(draft[r])
  <2>1. PICK i \in DOMAIN draft[r] : draft[r][i].version = MaxVersion(r)
    BY MaxVersionIsHighest
  <2>2. MaxVersion(r) \in 1..Len(draft[r])
    BY <1>2, <1>3, <2>1
  <2>3. Len(draft[r]) <= MaxVersion(r)
    BY <1>2, <1>3, MaxVersionIsHighest
  <2> QED BY <1>2, <2>2, <2>3
<1> QED BY <1>2, <1>3, <1>4 DEF Latest, Version

-----------------------------------------------------------------------------
(* What the packet operators return. *)

Evaluations(asked) == EvaluateChecklistQuestions(parsed, Questions, asked)

Findings(asked) == FindingsOf(parsed, asked)

\* An evaluation belongs to one question and carries its label.
LEMMA EvaluationsAreOfQuestions ==
  ASSUME NEW asked
  PROVE  \A e \in Evaluations(asked) :
           /\ e.order \in DOMAIN Questions
           /\ e = [source |-> "checklist", order |-> e.order,
                   label |-> Questions[e.order].label,
                   category |-> Questions[e.order].category,
                   severity |-> Questions[e.order].severity,
                   status |-> EvaluateQuestion(parsed, Questions[e.order])]
BY DEF Evaluations, EvaluateChecklistQuestions

\* A gap of the parser stands for the first label of its category and slug.
LEMMA NormalizedGaps ==
  ASSUME parsed \in ParsedOutputs
  PROVE  /\ IsFiniteSet(NormalizeGapFindings(parsed))
         /\ \A f \in NormalizeGapFindings(parsed) :
              /\ f.source = "parser" /\ f.order \in Nat /\ f.severity \in DOMAIN Rank
              /\ f.label \in DOMAIN CategoryFor /\ f.category \in Categories
              /\ \A g \in NormalizeGapFindings(parsed) :
                   SameGap(f, g) /\ f.order = g.order => f = g
<1> DEFINE gaps == parsed.gaps
           label(i) == gaps[i].label
           raw == {i \in DOMAIN gaps : gaps[i].status = "missing" => label(i) \notin parsed.present}
           like(i) == {j \in raw : /\ CategoryFor[label(j)] = CategoryFor[label(i)]
                                  /\ SlugOf[label(j)] = SlugOf[label(i)]}
           missing(i) == \E j \in like(i) : gaps[j].status = "missing"
           first == {j \in raw : \A k \in like(j) : j <= k}
           item(i) == [source |-> "parser", order |-> CategoryOrder[CategoryFor[label(i)]],
                       label |-> label(i), category |-> CategoryFor[label(i)],
                       severity |-> IF missing(i) THEN "mandatory" ELSE "recommended",
                       status |-> IF missing(i) THEN "missing" ELSE "uncertain"]
           finding == [i \in first |-> item(i)]
<1>1. NormalizeGapFindings(parsed) = {item(i) : i \in first}
  BY DEF NormalizeGapFindings
<1>2. /\ gaps \in Seq([label : DOMAIN CategoryFor, status : {"missing", "uncertain"}])
      /\ Len(gaps) \in Nat /\ DOMAIN gaps = 1..Len(gaps)
      /\ \A i \in DOMAIN gaps : label(i) \in DOMAIN CategoryFor
  <2>1. gaps \in Seq([label : DOMAIN CategoryFor, status : {"missing", "uncertain"}])
    BY GapsHaveLabels
  <2>2. Len(gaps) \in Nat /\ DOMAIN gaps = 1..Len(gaps)
    BY <2>1
  <2>3. \A i \in DOMAIN gaps : label(i) \in DOMAIN CategoryFor
    <3> DEFINE Gaps == [label : DOMAIN CategoryFor, status : {"missing", "uncertain"}]
    <3>1. \A x \in Gaps : x.label \in DOMAIN CategoryFor
      OBVIOUS
    <3>2. gaps \in Seq(Gaps)
      BY <2>1
    <3> HIDE DEF gaps, Gaps
    <3>3. \A i \in DOMAIN gaps : gaps[i] \in Gaps
      BY <3>2
    <3> QED BY <3>1, <3>3
  <2> QED BY <2>1, <2>2, <2>3
<1>3. first \subseteq 1..Len(gaps) /\ IsFiniteSet(first)
  <2>1. first \subseteq DOMAIN gaps
    OBVIOUS
  <2>2. 0 \in Int /\ 1 \in Int /\ Len(gaps) \in Int
    BY <1>2
  <2>3. IsFiniteSet(1..Len(gaps))
    BY <2>2, FS_Interval
  <2> HIDE DEF first
  <2> QED BY <1>2, <2>1, <2>3, FS_Subset
<1>4. finding \in Surjection(first, {item(i) : i \in first})
  <2> HIDE DEF item, first
  <2> QED BY DEF Surjection
<1>5. IsFiniteSet(NormalizeGapFindings(parsed))
  BY <1>1, <1>3, <1>4, FS_Surjection
<1>6. ASSUME NEW i \in first
      PROVE  /\ item(i).source = "parser" /\ item(i).order \in Nat
             /\ item(i).severity \in DOMAIN Rank
             /\ item(i).label \in DOMAIN CategoryFor /\ item(i).category \in Categories
  <2>1. label(i) \in DOMAIN CategoryFor
    BY <1>2
  <2> HIDE DEF missing, label
  <2> QED BY <2>1, GapsHaveLabels DEF Categories, Rank
<1>7. ASSUME NEW i \in first, NEW k \in first, SameGap(item(i), item(k)),
             item(i).order = item(k).order
      PROVE  i = k
  <2>1. label(i) \in DOMAIN CategoryFor /\ label(k) \in DOMAIN CategoryFor
    BY <1>2
  <2>2. SlugOf[label(i)] = SlugOf[label(k)]
    BY <1>7 DEF SameGap
  <2>3. CategoryOrder[CategoryFor[label(i)]] = CategoryOrder[CategoryFor[label(k)]]
    BY <1>7
  <2> HIDE DEF label
  <2>4. CategoryFor[label(i)] = CategoryFor[label(k)]
    BY <2>1, <2>3, GapsHaveLabels
  <2>5. i \in raw /\ k \in raw
    OBVIOUS
  <2>6. k \in like(i) /\ i \in like(k)
    BY <2>2, <2>4, <2>5
  <2>7. i <= k /\ k <= i /\ i \in Int /\ k \in Int
    BY <1>3, <2>6
  <2> QED BY <2>7
<1> HIDE DEF item, first
<1> QED BY <1>1, <1>5, <1>6, <1>7

\* Every finding has a label, a category and a rank; two of one gap, one source
\* and one order are the same; and there are finitely many of them.
LEMMA FindingsAreTyped ==
  ASSUME parsed \in ParsedOutputs, NEW asked
  PROVE  /\ IsFiniteSet(Findings(asked))
         /\ \A f \in Findings(asked) :
              /\ f.source \in {"parser", "checklist"}
              /\ f.order \in Nat /\ f.severity \in DOMAIN Rank
              /\ f.label \in DOMAIN CategoryFor /\ f.category \in Categories
              /\ \A g \in Findings(asked) :
                   SameGap(f, g) /\ f.source = g.source /\ f.order = g.order => f = g
<1> DEFINE N == NormalizeGapFindings(parsed)
           C == ChecklistGapFindings(Evaluations(asked))
           Orders == {e.order : e \in C}
           ofOrder == [i \in Orders |-> CHOOSE e \in C : e.order = i]
<1>1. \A e \in C :
        /\ e.source = "checklist" /\ e.order \in DOMAIN Questions
        /\ e.order \in Nat /\ e.severity \in DOMAIN Rank
        /\ e.label \in DOMAIN CategoryFor /\ e.category \in Categories
        /\ \A g \in C : e.order = g.order => e = g
  BY EvaluationsAreOfQuestions, GapsHaveLabels DEF ChecklistGapFindings, Categories
<1>2. Findings(asked) = N \cup C
  BY DEF Findings, FindingsOf, Evaluations
<1> HIDE DEF N, C
<1>3. ofOrder \in Surjection(Orders, C)
  <2>1. \A i \in Orders : ofOrder[i] \in C
    OBVIOUS
  <2>2. \A e \in C : e.order \in Orders /\ ofOrder[e.order] = e
    BY <1>1
  <2> QED BY <2>1, <2>2 DEF Surjection
<1>4. IsFiniteSet(C)
  <2>1. Orders \subseteq DOMAIN Questions
    BY <1>1
  <2>2. IsFiniteSet(Orders)
    BY <2>1, GapsHaveLabels, FS_Subset
  <2> QED BY <1>3, <2>2, FS_Surjection
<1>5. /\ IsFiniteSet(N)
      /\ \A f \in N :
           /\ f.source = "parser" /\ f.order \in Nat /\ f.severity \in DOMAIN Rank
           /\ f.label \in DOMAIN CategoryFor /\ f.category \in Categories
           /\ \A g \in N : SameGap(f, g) /\ f.order = g.order => f = g
  BY NormalizedGaps DEF N
<1>6. IsFiniteSet(N \cup C)
  BY <1>4, <1>5, FS_Union
<1> QED BY <1>1, <1>2, <1>5, <1>6

NewTokens(asked) == CreatePlaceholders(GapsOf(parsed, Evaluations(asked)))

\* The tokens of a new packet.
LEMMA NewTokensAreTokens ==
  ASSUME parsed \in ParsedOutputs, NEW asked
  PROVE  NewTokens(asked) \subseteq Tokens /\ IsFiniteSet(NewTokens(asked))
<1> DEFINE G == GapsOf(parsed, Evaluations(asked))
           token == [f \in G |-> Token(f)]
<1>1. G \subseteq Findings(asked)
  BY DEF GapsOf, DedupeGapFindings, Findings, FindingsOf, Evaluations
<1>2. IsFiniteSet(G)
  BY <1>1, FindingsAreTyped, FS_Subset
<1>3. NewTokens(asked) = {Token(f) : f \in G}
  BY DEF NewTokens, CreatePlaceholders
<1>4. token \in Surjection(G, NewTokens(asked))
  BY <1>3 DEF Surjection
<1>5. \A f \in G : Token(f) \in Tokens
  BY <1>1, FindingsAreTyped DEF Token, Tokens
<1> HIDE DEF G, token
<1> QED BY <1>2, <1>3, <1>4, <1>5, FS_Surjection

\* The validation of a fresh packet, and of an edit.
LEMMA ValidationTypes ==
  ASSUME NEW tokens, IsFiniteSet(tokens)
  PROVE  /\ \A body, p : LET v == ValidatePacketBody(body, tokens, p) IN
              v.complete \in BOOLEAN /\ v.unsupported \in Nat
         /\ \A text, current : LET v == DraftValidationFromEdit(text, current, tokens) IN
              v.complete \in BOOLEAN /\ v.unsupported \in Nat
<1>1. \A T \in SUBSET tokens : Cardinality(T) \in Nat
  BY FS_Subset, FS_CardinalityType
<1>2. ASSUME NEW body, NEW p
      PROVE  LET v == ValidatePacketBody(body, tokens, p) IN
               v.complete \in BOOLEAN /\ v.unsupported \in Nat
  <2>1. {t \in tokens : ~MatchesPattern(t)} \in SUBSET tokens
    OBVIOUS
  <2> QED BY <1>1, <2>1 DEF ValidatePacketBody
<1>3. ASSUME NEW text, NEW current
      PROVE  LET v == DraftValidationFromEdit(text, current, tokens) IN
               v.complete \in BOOLEAN /\ v.unsupported \in Nat
  <2>1. tokens \ text.holes \in SUBSET tokens
    OBVIOUS
  <2> QED BY <1>1, <2>1 DEF DraftValidationFromEdit
<1> QED BY <1>2, <1>3

LEMMA MergeTypes ==
  ASSUME NEW text \in Texts, NEW v
  PROVE  LET merged == MergeFinalPetitionText(text, v).text IN
           /\ merged \in Texts
           /\ merged.words # "merged" => merged = text
BY DEF MergeFinalPetitionText, Texts, Wordings

LEMMA TranslationTypes ==
  \A text, language, translator :
    TranslationOutcomes(text, language, translator) \subseteq SemanticStatuses
BY DEF TranslationOutcomes, SemanticStatuses

-----------------------------------------------------------------------------
(* Transactions. *)

\* The fields a transaction has, by its handler.
LEMMA TxnFields ==
  ASSUME NEW t \in Txn
  PROVE  /\ t.op = "idle" <=> t = Idle
         /\ t.op = "create" => t \in CreateTxn
         /\ t.op = "edit" => t \in EditTxn
         /\ t.op = "approve" => t \in ApproveTxn
         /\ t.op = "export" => t \in ExportTxn
         /\ t.op = "verify" => t \in VerifyTxn
         /\ t.op = "accept" => t \in AcceptTxn
         /\ t.op = "translate" => t \in TranslateTxn
         /\ t.op = "checklist" => t \in ChecklistTxn
         /\ t.op \in {"idle", "create", "checklist"} \cup PacketOps
         /\ t.op \in PacketOps => t.r \in Worked /\ t.r \in Requests
         /\ t.op = "checklist" => t.r \in Requests
         /\ t.op # "idle" => t.stale \in BOOLEAN
<1>1. Idle.op = "idle"
  BY DEF Idle
<1>2. \A x \in CreateTxn : x.op = "create" /\ x.stale \in BOOLEAN
  BY DEF CreateTxn
<1>3. \A x \in EditTxn : x.op = "edit" /\ x.r \in Worked /\ x.stale \in BOOLEAN
  BY DEF EditTxn
<1>4. \A x \in ApproveTxn : x.op = "approve" /\ x.r \in Worked /\ x.stale \in BOOLEAN
  BY DEF ApproveTxn
<1>5. \A x \in ExportTxn : x.op = "export" /\ x.r \in Worked /\ x.stale \in BOOLEAN
  BY DEF ExportTxn
<1>6. \A x \in VerifyTxn : x.op = "verify" /\ x.r \in Worked /\ x.stale \in BOOLEAN
  BY DEF VerifyTxn
<1>7. \A x \in AcceptTxn : x.op = "accept" /\ x.r \in Worked /\ x.stale \in BOOLEAN
  BY DEF AcceptTxn
<1>8. \A x \in ChecklistTxn : x.op = "checklist" /\ x.r \in Evaluated /\ x.stale \in BOOLEAN
  BY DEF ChecklistTxn
<1>9. \A x \in TranslateTxn : x.op = "translate" /\ x.r \in Worked /\ x.stale \in BOOLEAN
  BY DEF TranslateTxn
<1> QED
  BY <1>1, <1>2, <1>3, <1>4, <1>5, <1>6, <1>7, <1>8, <1>9, RequestsAreNumbered DEF Txn, PacketOps

\* Transaction u is t, perhaps made stale.
Kept(t, u) ==
  /\ u.op = t.op
  /\ t.op # "idle" => u.r = t.r
  /\ t.op \in PacketOps => u.d = t.d
  /\ t.op = "create" => u.record = t.record
  /\ t.op = "accept" => u.text = t.text

LEMMA StaleIsKept ==
  ASSUME NEW t \in Txn, t.op # "idle"
  PROVE  LET u == [t EXCEPT !.stale = TRUE] IN u \in Txn /\ Kept(t, u) /\ u.stale
<1> DEFINE u == [t EXCEPT !.stale = TRUE]
<1>1. CASE t.op = "create"
  BY <1>1, TxnFields DEF Txn, CreateTxn, Kept, PacketOps
<1>2. CASE t.op = "edit"
  BY <1>2, TxnFields DEF Txn, EditTxn, Kept, PacketOps
<1>3. CASE t.op = "approve"
  BY <1>3, TxnFields DEF Txn, ApproveTxn, Kept, PacketOps
<1>4. CASE t.op = "export"
  BY <1>4, TxnFields DEF Txn, ExportTxn, Kept, PacketOps
<1>5. CASE t.op = "verify"
  BY <1>5, TxnFields DEF Txn, VerifyTxn, Kept, PacketOps
<1>6. CASE t.op = "accept"
  BY <1>6, TxnFields DEF Txn, AcceptTxn, Kept, PacketOps
<1>7. CASE t.op = "checklist"
  BY <1>7, TxnFields DEF Txn, ChecklistTxn, Kept, PacketOps
<1>8. CASE t.op = "translate"
  BY <1>8, TxnFields DEF Txn, TranslateTxn, Kept, PacketOps
<1> QED BY <1>1, <1>2, <1>3, <1>4, <1>5, <1>6, <1>7, <1>8, TxnFields DEF PacketOps

LEMMA IdleIsTxn == Idle \in Txn /\ Idle.op = "idle"
BY DEF Txn, Idle

\* A commit ends its transaction and leaves fresh only those it does not disturb.
LEMMA AfterKeeps ==
  ASSUME txn \in [Sessions -> Txn], NEW s, NEW op, NEW r, txn' = After(s, op, r)
  PROVE  /\ txn' \in [Sessions -> Txn]
         /\ \A q \in Sessions :
              /\ q = s => txn'[q] = Idle
              /\ q # s => /\ Kept(txn[q], txn'[q])
                          /\ txn[q].op # "idle" /\ ~txn'[q].stale =>
                               txn'[q] = txn[q] /\ ~Conflicts(txn[q], op, r)
<1>1. ASSUME NEW q \in Sessions
      PROVE  /\ txn'[q] \in Txn
             /\ q = s => txn'[q] = Idle
             /\ q # s => /\ Kept(txn[q], txn'[q])
                         /\ txn[q].op # "idle" /\ ~txn'[q].stale =>
                              txn'[q] = txn[q] /\ ~Conflicts(txn[q], op, r)
  <2>1. txn[q] \in Txn
    OBVIOUS
  <2>2. txn'[q] = IF q = s THEN Idle
                  ELSE IF Conflicts(txn[q], op, r)
                  THEN [txn[q] EXCEPT !.stale = TRUE] ELSE txn[q]
    BY DEF After
  <2>3. CASE q = s
    BY <2>2, <2>3, IdleIsTxn
  <2>4. CASE q # s /\ Conflicts(txn[q], op, r)
    <3>1. txn[q].op # "idle"
      BY <2>4 DEF Conflicts
    <3> QED BY <2>1, <2>2, <2>4, <3>1, StaleIsKept
  <2>5. CASE q # s /\ ~Conflicts(txn[q], op, r)
    BY <2>1, <2>2, <2>5 DEF Kept
  <2> QED BY <2>3, <2>4, <2>5
<1>2. txn' = [q \in Sessions |-> txn'[q]]
  BY DEF After
<1> QED BY <1>1, <1>2

\* A transaction that opens leaves the others alone.
LEMMA OpenKeeps ==
  ASSUME txn \in [Sessions -> Txn], NEW s \in Sessions, NEW t \in Txn, Open(s, t)
  PROVE  /\ txn' \in [Sessions -> Txn] /\ txn'[s] = t
         /\ \A q \in Sessions : q # s => txn'[q] = txn[q]
BY DEF Open

-----------------------------------------------------------------------------
(* Reads. *)

\* Session s opens a transaction on what there is.
OpensWell(s) ==
  /\ \E t \in Txn : Open(s, t) /\ Refers(t) /\ Promised(t)
  /\ UNCHANGED <<parsed, records, active, rows, history>>

LEMMA ReadCreateOpens ==
  ASSUME TypeOK, RowsRefer, NEW s \in Sessions, ReadCreate(s)
  PROVE  OpensWell(s)
<1>1. PICK rec \in 0..records :
        /\ ResolveRewriteParseRecord(rec)
        /\ \A r \in Requests : IsActive(r) => request[r].record # rec
        /\ Open(s, [op |-> "create", r |-> None, record |-> rec, active |-> active,
                    stale |-> FALSE])
  BY DEF ReadCreate
<1> DEFINE t == [op |-> "create", r |-> None, record |-> rec, active |-> active,
                 stale |-> FALSE]
<1>2. records \in Nat /\ active \in SUBSET DOMAIN Questions
  BY DEF TypeOK
<1>3. t \in Txn
  BY <1>2 DEF Txn, CreateTxn
<1>4. Refers(t)
  BY <1>2 DEF Refers, PacketOps
<1>5. rec = 0 => records = 0
  BY <1>1, <1>2 DEF ResolveRewriteParseRecord
<1>6. Promised(t)
  BY <1>1, <1>5 DEF Promised, FreshCreation, PacketOps
<1> HIDE DEF t
<1>7. Open(s, t) /\ UNCHANGED <<parsed, records, active, rows, history>>
  BY <1>1 DEF t, ReadCreate
<1> QED BY <1>3, <1>4, <1>6, <1>7 DEF OpensWell

\* The latest drafts of a packet are among its drafts, and are the last one
\* where nothing was disturbed.
LEMMA LatestFacts ==
  ASSUME TypeOK, OrderlyPackets, NEW r \in Requests, Created(r), NEW d \in Latest(r)
  PROVE  /\ d \in DOMAIN draft[r] /\ d \in Version
         /\ draft[r][d] \in DraftRow
         /\ MaxVersion(r) + 1 \in Version
         /\ r \notin disturbed => /\ d = Len(draft[r])
                                 /\ MaxVersion(r) = Len(draft[r])
<1>1. d \in DOMAIN draft[r] /\ draft[r] \in Seq(DraftRow)
  BY DEF Latest, TypeOK
<1>2. d \in Version /\ draft[r][d] \in DraftRow
  BY <1>1 DEF Version
<1>3. MaxVersion(r) + 1 \in Version
  BY MaxVersionIsHighest DEF Version
<1> QED BY <1>1, <1>2, <1>3, LatestIsLast DEF OrderlyPackets

LEMMA ReadUpdateDraftOpens ==
  ASSUME TypeOK, OrderlyPackets, NEW s \in Sessions, NEW r \in Worked, ReadUpdateDraft(s, r)
  PROVE  OpensWell(s)
<1>1. PICK i \in DOMAIN draft[r], h \in {{}, Placeholders(r)} :
      \E text \in {draft[r][i].text, [words |-> "edited", holes |-> h]} :
        Open(s, [op |-> "edit", r |-> r, d |-> i, text |-> text,
                 version |-> MaxVersion(r) + 1, stale |-> FALSE])
  BY DEF ReadUpdateDraft
<1>2. PICK text \in {draft[r][i].text, [words |-> "edited", holes |-> h]} :
        Open(s, [op |-> "edit", r |-> r, d |-> i, text |-> text,
                 version |-> MaxVersion(r) + 1, stale |-> FALSE])
  BY <1>1
<1> DEFINE t == [op |-> "edit", r |-> r, d |-> i, text |-> text,
                 version |-> MaxVersion(r) + 1, stale |-> FALSE]
<1>3. r \in Requests /\ Created(r) /\ request[r].status \notin Locked
  BY RequestsAreNumbered DEF ReadUpdateDraft
<1>4. draft[r] \in Seq(DraftRow) /\ i \in Version /\ draft[r][i] \in DraftRow
  <2>1. draft[r] \in Seq(DraftRow)
    BY <1>3 DEF TypeOK
  <2> QED BY <2>1 DEF Version
<1>5. text \in Texts
  <2>1. draft[r][i].text \in Texts
    BY <1>4 DEF DraftRow
  <2>2. h \subseteq Tokens
    BY <1>3 DEF TypeOK
  <2>3. [words |-> "edited", holes |-> h] \in Texts
    BY <2>2 DEF Texts, Wordings
  <2> QED BY <1>2, <2>1, <2>3
<1>6. MaxVersion(r) + 1 \in Version
  BY <1>3, MaxVersionIsHighest DEF Version
<1>7. t \in Txn
  BY <1>4, <1>5, <1>6 DEF Txn, EditTxn
<1>8. Refers(t)
  BY DEF Refers, PacketOps
<1>9. r \notin disturbed => MaxVersion(r) = Len(draft[r])
  BY <1>3, LatestIsLast DEF OrderlyPackets
<1>10. Promised(t)
  BY <1>3, <1>9 DEF Promised, Fresh, PacketOps
<1> HIDE DEF t
<1>11. Open(s, t) /\ UNCHANGED <<parsed, records, active, rows, history>>
  BY <1>2 DEF t, ReadUpdateDraft
<1> QED BY <1>7, <1>8, <1>10, <1>11 DEF OpensWell

LEMMA ReadApproveOpens ==
  ASSUME TypeOK, OrderlyPackets, NEW s \in Sessions, NEW r \in Worked, ReadApprove(s, r)
  PROVE  OpensWell(s)
<1>1. PICK d \in Latest(r) :
        Open(s, [op |-> "approve", r |-> r, d |-> d, stale |-> FALSE,
                 semantic |-> IF NeedsSemanticReview(r) THEN "override"
                              ELSE request[r].semantic])
  BY DEF ReadApprove
<1> DEFINE t == [op |-> "approve", r |-> r, d |-> d, stale |-> FALSE,
                 semantic |-> IF NeedsSemanticReview(r) THEN "override"
                              ELSE request[r].semantic]
<1>2. r \in Requests /\ Created(r)
  BY RequestsAreNumbered DEF ReadApprove
<1>3. request[r] \in RequestRow
  BY <1>2 DEF TypeOK, Created
<1>4. request[r].semantic \in SemanticStatuses
  BY <1>3 DEF RequestRow
<1>5. d \in DOMAIN draft[r] /\ d \in Version /\ (r \notin disturbed => d = Len(draft[r]))
  BY <1>2, LatestFacts
<1>6. t \in Txn
  BY <1>4, <1>5 DEF Txn, ApproveTxn, SemanticStatuses
<1>7. Refers(t) /\ Promised(t)
  BY <1>5 DEF Refers, Promised, Fresh, PacketOps
<1> HIDE DEF t
<1>8. Open(s, t) /\ UNCHANGED <<parsed, records, active, rows, history>>
  BY <1>1 DEF t, ReadApprove
<1> QED BY <1>6, <1>7, <1>8 DEF OpensWell

LEMMA ReadExportOpens ==
  ASSUME TypeOK, OrderlyPackets, NEW s \in Sessions, NEW r \in Worked, ReadExport(s, r)
  PROVE  OpensWell(s)
<1>1. PICK d \in Latest(r) :
        Open(s, [op |-> "export", r |-> r, d |-> d, stale |-> FALSE,
                 status |-> request[r].status])
  BY DEF ReadExport
<1> DEFINE t == [op |-> "export", r |-> r, d |-> d, stale |-> FALSE,
                 status |-> request[r].status]
<1>2. r \in Requests /\ Created(r) /\ request[r].status \in Releasable
  BY RequestsAreNumbered DEF ReadExport
<1>3. d \in DOMAIN draft[r] /\ d \in Version /\ (r \notin disturbed => d = Len(draft[r]))
  BY <1>2, LatestFacts
<1>4. t \in Txn
  BY <1>2, <1>3 DEF Txn, ExportTxn
<1>5. Refers(t) /\ Promised(t)
  BY <1>3 DEF Refers, Promised, Fresh, PacketOps
<1> HIDE DEF t
<1>6. Open(s, t) /\ UNCHANGED <<parsed, records, active, rows, history>>
  BY <1>1 DEF t, ReadExport
<1> QED BY <1>4, <1>5, <1>6 DEF OpensWell

LEMMA ReadVerificationOpens ==
  ASSUME TypeOK, OrderlyPackets, NEW s \in Sessions, NEW r \in Worked, ReadVerification(s, r)
  PROVE  OpensWell(s)
<1>1. PICK d \in Latest(r), consent \in ConsentStatuses :
        Open(s, [op |-> "verify", r |-> r, d |-> d, consent |-> consent, stale |-> FALSE])
  BY DEF ReadVerification
<1> DEFINE t == [op |-> "verify", r |-> r, d |-> d, consent |-> consent, stale |-> FALSE]
<1>2. r \in Requests /\ Created(r) /\ request[r].status \in Releasable
  BY RequestsAreNumbered DEF ReadVerification
<1>3. d \in DOMAIN draft[r] /\ d \in Version /\ (r \notin disturbed => d = Len(draft[r]))
  BY <1>2, LatestFacts
<1>4. t \in Txn
  BY <1>3 DEF Txn, VerifyTxn
<1>5. Refers(t) /\ Promised(t)
  BY <1>2, <1>3 DEF Refers, Promised, Fresh, PacketOps
<1> HIDE DEF t
<1>6. Open(s, t) /\ UNCHANGED <<parsed, records, active, rows, history>>
  BY <1>1 DEF t, ReadVerification
<1> QED BY <1>4, <1>5, <1>6 DEF OpensWell

LEMMA ReadTranslationOpens ==
  ASSUME TypeOK, OrderlyPackets, NEW s \in Sessions, NEW r \in Worked, ReadTranslation(s, r)
  PROVE  OpensWell(s)
<1>1. PICK d \in Latest(r) :
        Open(s, [op |-> "translate", r |-> r, d |-> d, stale |-> FALSE])
  BY DEF ReadTranslation
<1> DEFINE t == [op |-> "translate", r |-> r, d |-> d, stale |-> FALSE]
<1>2. r \in Requests /\ Created(r)
  BY RequestsAreNumbered DEF ReadTranslation
<1>3. d \in DOMAIN draft[r] /\ d \in Version
  BY <1>2, LatestFacts
<1>4. t \in Txn
  BY <1>3 DEF Txn, TranslateTxn
<1>5. Refers(t) /\ Promised(t)
  BY <1>3 DEF Refers, Promised, Fresh, PacketOps
<1> HIDE DEF t
<1>6. Open(s, t) /\ UNCHANGED <<parsed, records, active, rows, history>>
  BY <1>1 DEF t, ReadTranslation
<1> QED BY <1>4, <1>5, <1>6 DEF OpensWell

\* The petitioner verified the last draft of a packet that may be released.
LEMMA ReadAcceptOpens ==
  ASSUME TypeOK, OrderlyPackets, NEW s \in Sessions, NEW r \in Worked, ReadAccept(s, r)
  PROVE  OpensWell(s)
<1> DEFINE merged(d) == MergeFinalPetitionText(draft[r][d].text, values[r])
           opened(d) == [op |-> "accept", r |-> r, d |-> d, text |-> merged(d).text,
                         verified |-> verification[r].d,
                         version |-> MaxVersion(r) + 1, stale |-> FALSE]
<1>1. PICK d \in Latest(r) : Open(s, opened(d))
  BY DEF ReadAccept
<1> DEFINE t == opened(d)
<1>2. /\ r \in Requests /\ Created(r) /\ request[r].status \in Releasable
      /\ verification[r] # None
  BY RequestsAreNumbered DEF ReadAccept
<1>3. /\ d \in DOMAIN draft[r] /\ d \in Version /\ draft[r][d] \in DraftRow
      /\ MaxVersion(r) + 1 \in Version
      /\ r \notin disturbed => d = Len(draft[r]) /\ MaxVersion(r) = Len(draft[r])
  BY <1>2, LatestFacts
<1>4. draft[r][d].text \in Texts
  BY <1>3 DEF DraftRow
<1>5. merged(d).text \in Texts /\ (merged(d).text.words # "merged" => merged(d).text = draft[r][d].text)
  BY <1>4, MergeTypes
<1>6. verification[r].d \in Version
  BY <1>2 DEF TypeOK, VerificationRow
<1> HIDE DEF merged
<1>7. t \in Txn
  BY <1>3, <1>5, <1>6 DEF Txn, AcceptTxn
<1>8. Refers(t)
  BY <1>3, <1>5 DEF Refers, PacketOps
<1>9. Promised(t)
  BY <1>2, <1>3 DEF Promised, Fresh, PacketOps, OrderlyPackets, Orderly
<1> HIDE DEF t
<1>10. Open(s, t) /\ UNCHANGED <<parsed, records, active, rows, history>>
  BY <1>1 DEF t, ReadAccept
<1> QED BY <1>7, <1>8, <1>9, <1>10 DEF OpensWell

LEMMA ReadChecklistOpens ==
  ASSUME TypeOK, NEW s \in Sessions, NEW r \in Evaluated, ReadChecklist(s, r)
  PROVE  OpensWell(s)
<1> DEFINE t == [op |-> "checklist", r |-> r, seen |-> batches[r], stale |-> FALSE]
<1>1. r \in Requests /\ Created(r)
  BY RequestsAreNumbered DEF ReadChecklist
<1>2. t \in Txn
  BY <1>1 DEF Txn, ChecklistTxn, TypeOK
<1>3. Refers(t) /\ Promised(t)
  BY <1>1 DEF Refers, Promised, Fresh, PacketOps
<1> HIDE DEF t
<1>4. Open(s, t) /\ UNCHANGED <<parsed, records, active, rows, history>>
  BY DEF t, ReadChecklist
<1> QED BY <1>2, <1>3, <1>4 DEF OpensWell

\* Reading keeps the invariant.
LEMMA ReadKeeps ==
  ASSUME IInv, NEW s \in Sessions, OpensWell(s)
  PROVE  IInv'
<1>1. PICK t \in Txn : Open(s, t) /\ Refers(t) /\ Promised(t)
  BY DEF OpensWell
<1>2. /\ UNCHANGED <<parsed, records, active, request, values, draft, verification, batches>>
      /\ UNCHANGED <<approved, released, accepted, disturbed>>
  BY DEF OpensWell, rows, history
<1>3. txn' \in [Sessions -> Txn] /\ \A q \in Sessions : txn'[q] \in {txn[q], t}
  BY <1>1, OpenKeeps DEF IInv, TypeOK
<1>4. TypeOK'
  BY <1>2, <1>3 DEF IInv, TypeOK, Created, Placeholders
<1>5. RowsRefer' /\ LineageIsSound' /\ OneActivePacket'
  BY <1>2 DEF IInv, RowsRefer, LineageIsSound, OneActivePacket, Created, Placeholders, IsActive
<1>6. OrderlyPackets'
  BY <1>2 DEF IInv, OrderlyPackets, Orderly, Created
<1>7. TxnsRefer' /\ FreshTxns'
  <2>1. ASSUME NEW q \in Sessions PROVE Refers(txn[q])' /\ Promised(txn[q])'
    <3>1. Refers(txn[q]) /\ Promised(txn[q])
      BY DEF IInv, TxnsRefer, FreshTxns
    <3>2. txn'[q] \in {txn[q], t}
      BY <1>3
    <3>3. Refers(txn[q])'
      BY <1>1, <1>2, <3>1, <3>2 DEF Refers, Created
    <3>4. Promised(txn[q])'
      BY <1>1, <1>2, <3>1, <3>2 DEF Promised, Fresh, FreshCreation, Created, IsActive
    <3> QED BY <3>3, <3>4
  <2> QED BY <2>1 DEF TxnsRefer, FreshTxns
<1> QED BY <1>4, <1>5, <1>6, <1>7 DEF IInv

-----------------------------------------------------------------------------
(* Writes to one packet. *)

\* A draft x of a packet with these placeholders has its lineage honestly.
Honest(x, tokens) ==
  x.lineage => /\ x.text.words # "edited"
               /\ x.text.words = "generated" => x.text.holes = tokens

\* A handler other than a creation or an evaluation writes packet r: drafts are
\* only added, and the packet stays orderly and becomes active only if the step
\* is recorded as a disturbance.
PacketStep(op, r) ==
  /\ op \notin {"create", "checklist"} /\ Created(r)
  /\ UNCHANGED <<parsed, records, active, batches>>
  /\ \A q \in Requests : Placeholders(q)' = Placeholders(q)
  /\ \A q \in Requests \ {r} :
       /\ request'[q] = request[q] /\ draft'[q] = draft[q]
       /\ verification'[q] = verification[q] /\ approved'[q] = approved[q]
       /\ released'[q] = released[q] /\ accepted'[q] = accepted[q]
  /\ request'[r] # None /\ request'[r].record = request[r].record
  /\ \A i \in DOMAIN draft[r] : i \in DOMAIN draft'[r] /\ draft'[r][i] = draft[r][i]
  /\ \A i \in DOMAIN draft'[r] : i \in DOMAIN draft[r] \/ Honest(draft'[r][i], Placeholders(r))
  /\ disturbed \subseteq disturbed' /\ disturbed' \subseteq disturbed \cup {r}
  /\ r \notin disturbed' => Orderly(r)' /\ (IsActive(r)' => IsActive(r))

LEMMA PacketStepKeeps ==
  ASSUME IInv, TypeOK', NEW r \in Requests, NEW op, PacketStep(op, r),
         NEW s, txn' = After(s, op, r)
  PROVE  IInv'
<1>1. \A q \in Requests : Created(q)' <=> Created(q)
  BY DEF PacketStep, Created
<1>2. \A q \in Requests : Created(q) => request'[q].record = request[q].record
  BY DEF PacketStep, Created
<1>3. \A q \in Requests : \A i \in DOMAIN draft[q] :
        i \in DOMAIN draft'[q] /\ draft'[q][i] = draft[q][i]
  BY DEF PacketStep
<1>4. RowsRefer'
  BY <1>1, <1>2 DEF IInv, RowsRefer, PacketStep
<1>5. LineageIsSound'
  <2>1. ASSUME NEW q \in Requests, NEW i \in DOMAIN draft'[q]
        PROVE  Honest(draft'[q][i], Placeholders(q))
    BY DEF IInv, PacketStep, LineageIsSound, Honest
  <2> QED BY <2>1 DEF LineageIsSound, Honest, PacketStep
<1>6. OrderlyPackets'
  <2>1. ASSUME NEW q \in Requests, q \notin disturbed', q # r PROVE Orderly(q)'
    <3>1. Orderly(q)
      BY <2>1 DEF IInv, OrderlyPackets, PacketStep
    <3>2. /\ request'[q] = request[q] /\ draft'[q] = draft[q] /\ batches'[q] = batches[q]
          /\ verification'[q] = verification[q] /\ approved'[q] = approved[q]
          /\ released'[q] = released[q] /\ accepted'[q] = accepted[q]
      BY <2>1 DEF PacketStep
    <3> QED BY <3>1, <3>2 DEF Orderly, Created
  <2> QED BY <2>1 DEF OrderlyPackets, PacketStep
<1>7. \A q \in Requests \ disturbed' : q \notin disturbed /\ (IsActive(q)' => IsActive(q))
  BY DEF PacketStep, IsActive, Created
<1>8. OneActivePacket'
  BY <1>2, <1>7 DEF IInv, OneActivePacket, IsActive
<1>9. ASSUME NEW q \in Sessions PROVE Refers(txn[q])' /\ Promised(txn[q])'
  <2>1. Refers(txn[q]) /\ Promised(txn[q]) /\ txn[q] \in Txn /\ txn'[q] \in Txn
    BY DEF IInv, TxnsRefer, FreshTxns, TypeOK
  <2>2. CASE q = s
    <3>1. txn'[q].op = "idle"
      BY <2>2, AfterKeeps, IdleIsTxn DEF IInv, TypeOK
    <3> QED BY <3>1 DEF Refers, Promised, PacketOps
  <2>3. CASE q # s
    <3>1. Kept(txn[q], txn'[q])
      BY <2>3, AfterKeeps DEF IInv, TypeOK
    <3>2. txn[q].op # "idle" /\ ~txn'[q].stale =>
            txn'[q] = txn[q] /\ ~Conflicts(txn[q], op, r)
      BY <2>3, AfterKeeps DEF IInv, TypeOK
    <3>3. Refers(txn[q])'
      <4>1. txn'[q].op \in PacketOps => txn'[q].r \in Requests
        BY <2>1, TxnFields
      <4>2. txn'[q].op = "checklist" => txn'[q].r \in Requests
        BY <2>1, TxnFields
      <4>3. txn'[q].op \in PacketOps => txn'[q].d \in DOMAIN draft'[txn'[q].r]
        BY <1>3, <2>1, <3>1, <4>1 DEF Refers, Kept, PacketOps
      <4>4. txn'[q].op = "checklist" => Created(txn[q].r)'
        BY <1>1, <2>1, <3>1, <4>2 DEF Refers, Kept
      <4>5. txn'[q].op = "create" => txn'[q].record \in 0..records'
        BY <2>1, <3>1 DEF Refers, Kept, PacketStep
      <4>6. txn'[q].op = "accept" /\ txn'[q].text.words # "merged" =>
              txn'[q].text = draft'[txn'[q].r][txn'[q].d].text
        BY <1>3, <2>1, <3>1, <4>1 DEF Refers, Kept, PacketOps
      <4> QED BY <4>3, <4>4, <4>5, <4>6 DEF Refers
    <3>4. Promised(txn[q])'
      <4>1. ASSUME txn'[q].op \in PacketOps, ~txn'[q].stale, txn'[q].r \notin disturbed'
            PROVE  Fresh(txn[q])'
        <5>1. txn'[q] = txn[q] /\ ~Conflicts(txn[q], op, r)
          BY <3>1, <3>2, <4>1 DEF Kept, PacketOps
        <5>2. txn[q].r # r /\ txn[q].r \in Requests
          BY <2>1, <4>1, <5>1, TxnFields DEF Conflicts, PacketOps, PacketStep
        <5>3. Fresh(txn[q])
          BY <2>1, <4>1, <5>1 DEF Promised, PacketStep
        <5> QED BY <4>1, <5>1, <5>2, <5>3 DEF Fresh, PacketStep, PacketOps
      <4>2. ASSUME txn'[q].op = "checklist", ~txn'[q].stale, txn'[q].r \notin disturbed'
            PROVE  Fresh(txn[q])'
        <5>1. txn'[q] = txn[q]
          BY <3>1, <3>2, <4>2 DEF Kept
        <5>2. Fresh(txn[q])
          BY <2>1, <4>2, <5>1 DEF Promised, PacketStep
        <5> QED BY <4>2, <5>1, <5>2 DEF Fresh, PacketStep
      <4>3. ASSUME txn'[q].op = "create", ~txn'[q].stale PROVE FreshCreation(txn[q])'
        <5>1. txn'[q] = txn[q]
          BY <3>1, <3>2, <4>3 DEF Kept
        <5>2. FreshCreation(txn[q])
          BY <2>1, <4>3, <5>1 DEF Promised
        <5> QED BY <1>2, <1>7, <5>1, <5>2 DEF FreshCreation, PacketStep, IsActive
      <4> QED BY <4>1, <4>2, <4>3 DEF Promised
    <3> QED BY <3>3, <3>4
  <2> QED BY <2>2, <2>3
<1> QED BY <1>4, <1>5, <1>6, <1>8, <1>9 DEF IInv, TxnsRefer, FreshTxns

\* One more draft.
LEMMA AppendFacts ==
  ASSUME NEW S, NEW q \in Seq(S), NEW x \in S
  PROVE  /\ Append(q, x) \in Seq(S) /\ Append(q, x) # <<>>
         /\ Len(q) \in Nat /\ Len(Append(q, x)) = Len(q) + 1
         /\ DOMAIN q = 1..Len(q) /\ DOMAIN Append(q, x) = 1..(Len(q) + 1)
         /\ \A i \in DOMAIN q : i \in DOMAIN Append(q, x) /\ Append(q, x)[i] = q[i]
         /\ \A i \in DOMAIN Append(q, x) : i \in DOMAIN q \/ i = Len(q) + 1
         /\ Append(q, x)[Len(q) + 1] = x
OBVIOUS

\* What a handler that commits draft work finds: its packet, and the draft it read.
LEMMA OpenPacket ==
  ASSUME IInv, NEW s \in Sessions, txn[s].op \in PacketOps
  PROVE  LET t == txn[s] IN
           /\ t \in Txn /\ t.r \in Worked /\ t.r \in Requests /\ Created(t.r)
           /\ request[t.r] \in RequestRow /\ request[t.r] # None
           /\ draft[t.r] \in Seq(DraftRow) /\ draft[t.r] # <<>>
           /\ t.d \in DOMAIN draft[t.r] /\ draft[t.r][t.d] \in DraftRow
           /\ IsFiniteSet(Placeholders(t.r))
           /\ ~t.stale /\ t.r \notin disturbed => Fresh(t) /\ Orderly(t.r)
<1> DEFINE t == txn[s]
<1>1. t \in Txn /\ t.r \in Worked /\ t.r \in Requests
  BY TxnFields DEF IInv, TypeOK
<1>2. draft[t.r] \in Seq(DraftRow) /\ t.d \in DOMAIN draft[t.r]
  BY <1>1 DEF IInv, TypeOK, TxnsRefer, Refers
<1>3. draft[t.r][t.d] \in DraftRow /\ draft[t.r] # <<>>
  BY <1>2
<1>4. Created(t.r)
  BY <1>1, <1>3 DEF IInv, TypeOK
<1>5. request[t.r] \in RequestRow /\ request[t.r] # None
  BY <1>1, <1>4 DEF IInv, TypeOK, Created
<1>6. IsFiniteSet(Placeholders(t.r))
  BY <1>1 DEF IInv, TypeOK
<1>7. ~t.stale /\ t.r \notin disturbed => Fresh(t) /\ Orderly(t.r)
  BY <1>1 DEF IInv, FreshTxns, Promised, OrderlyPackets
<1> QED BY <1>1, <1>2, <1>3, <1>4, <1>5, <1>6, <1>7

\* A commit records a write on what was read before another commit.
LEMMA CommitFacts ==
  ASSUME TypeOK, NEW s \in Sessions, txn[s].op # "idle",
         NEW r \in Requests, NEW reopens \in BOOLEAN, Commit(s, r, reopens)
  PROVE  /\ txn' \in [Sessions -> Txn]
         /\ disturbed' \subseteq Requests
         /\ disturbed \subseteq disturbed' /\ disturbed' \subseteq disturbed \cup {r}
         /\ r \notin disturbed' => ~txn[s].stale /\ ~reopens /\ r \notin disturbed
BY AfterKeeps DEF Commit, TypeOK

LEMMA EditKeeps ==
  ASSUME IInv, NEW s \in Sessions, CommitUpdateDraft(s)
  PROVE  IInv'
<1> DEFINE t == txn[s]
<1>0. PICK r \in Requests : r = t.r
  BY OpenPacket DEF CommitUpdateDraft, PacketOps
<1> DEFINE valid == DraftValidationFromEdit(t.text, draft[r][t.d], Placeholders(r))
           x == [version |-> t.version, text |-> t.text, lineage |-> valid.complete,
                 unsupported |-> valid.unsupported]
           status == IF valid.complete THEN "needs_review" ELSE "source_check_required"
<1>1. /\ t.op = "edit" /\ t.op \in PacketOps
      /\ draft' = [draft EXCEPT ![r] = Append(@, x)]
      /\ request' = [request EXCEPT ![r].status = status]
      /\ Commit(s, r, FALSE)
      /\ UNCHANGED <<parsed, records, active, values, verification, batches,
                     approved, released, accepted>>
  BY <1>0 DEF CommitUpdateDraft, PacketOps
<1>2. /\ r \in Requests /\ Created(r)
      /\ request[r] \in RequestRow /\ draft[r] \in Seq(DraftRow) /\ draft[r] # <<>>
      /\ draft[r][t.d] \in DraftRow /\ t.d \in DOMAIN draft[r] /\ IsFiniteSet(Placeholders(r))
      /\ ~t.stale /\ r \notin disturbed => Fresh(t) /\ Orderly(r)
  BY <1>0, <1>1, OpenPacket
<1>3. t \in EditTxn
  BY <1>1, TxnFields DEF IInv, TypeOK
<1>4. valid.complete \in BOOLEAN /\ valid.unsupported \in Nat
  BY <1>2, ValidationTypes
<1>5. valid.complete => t.text = draft[r][t.d].text /\ draft[r][t.d].lineage
  BY DEF DraftValidationFromEdit
<1> HIDE DEF valid
<1>6. x \in DraftRow
  BY <1>3, <1>4 DEF EditTxn, DraftRow
<1>7. Honest(x, Placeholders(r))
  BY <1>2, <1>5 DEF IInv, LineageIsSound, Honest
<1>8. request'[r] = [request[r] EXCEPT !.status = status]
  BY <1>1, <1>2 DEF IInv, TypeOK
<1>9. request'[r] \in RequestRow /\ request'[r].record = request[r].record
      /\ request'[r].status = status
  BY <1>2, <1>8 DEF RequestRow, PacketStatuses
<1>10. draft'[r] = Append(draft[r], x)
  BY <1>1, <1>2 DEF IInv, TypeOK
<1> HIDE DEF x
<1>11. /\ draft'[r] \in Seq(DraftRow) /\ draft'[r] # <<>>
       /\ Len(draft'[r]) = Len(draft[r]) + 1 /\ Len(draft[r]) \in Nat
       /\ \A i \in DOMAIN draft[r] : i \in DOMAIN draft'[r] /\ draft'[r][i] = draft[r][i]
       /\ \A i \in DOMAIN draft'[r] : i \in DOMAIN draft[r] \/ i = Len(draft[r]) + 1
       /\ draft'[r][Len(draft[r]) + 1] = x
  BY <1>2, <1>6, <1>10, AppendFacts
<1>12. /\ txn' \in [Sessions -> Txn] /\ disturbed' \subseteq Requests
       /\ disturbed \subseteq disturbed' /\ disturbed' \subseteq disturbed \cup {r}
       /\ r \notin disturbed' => ~t.stale /\ r \notin disturbed
  BY <1>1, <1>2, CommitFacts DEF IInv
<1>13. None \notin RequestRow
  BY NoneIsNothing
<1>14. TypeOK'
  <2>1. request' \in [Requests -> RequestRow \cup {None}] /\ draft' \in [Requests -> Seq(DraftRow)]
    BY <1>1, <1>2, <1>8, <1>9, <1>10, <1>11 DEF IInv, TypeOK
  <2>2. \A q \in Requests : Created(q)' <=> draft'[q] # <<>>
    BY <1>1, <1>2, <1>9, <1>11, <1>13 DEF IInv, TypeOK, Created
  <2> QED BY <1>1, <1>12, <2>1, <2>2 DEF IInv, TypeOK, Placeholders
<1>15. r \notin disturbed' => Orderly(r)' /\ (IsActive(r)' => IsActive(r))
  <2> SUFFICES ASSUME r \notin disturbed' PROVE Orderly(r)' /\ (IsActive(r)' => IsActive(r))
    OBVIOUS
  <2>1. Orderly(r) /\ request[r].status \notin Locked /\ t.version = Len(draft[r]) + 1
    BY <1>0, <1>1, <1>2, <1>12 DEF Fresh
  <2>2. IsActive(r) /\ request[r].status \notin Releasable \cup {"accepted"}
    BY <1>2, <2>1 DEF IsActive, Locked, Releasable, FinalOrReplaced
  <2>3. verification[r] = None
    BY <2>1, <2>2 DEF Orderly
  <2>4. \A i \in DOMAIN draft'[r] : draft'[r][i].version = i
    BY <1>11, <2>1 DEF Orderly, x
  <2>5. request'[r].status \notin Releasable
    BY <1>9 DEF Releasable
  <2>6. /\ verification'[r] = None /\ batches'[r] = batches[r] /\ approved'[r] = approved[r]
        /\ released'[r] = released[r] /\ accepted'[r] = accepted[r]
    BY <1>1, <2>3
  <2>7. Orderly(r)'
    BY <2>1, <2>4, <2>5, <2>6 DEF Orderly
  <2> QED BY <2>2, <2>7
<1>16. PacketStep("edit", r)
  <2>1. \A q \in Requests : Placeholders(q)' = Placeholders(q)
    BY <1>1 DEF Placeholders
  <2>2. \A q \in Requests \ {r} : request'[q] = request[q] /\ draft'[q] = draft[q]
    BY <1>1 DEF IInv, TypeOK
  <2>3. \A i \in DOMAIN draft'[r] : i \in DOMAIN draft[r] \/ Honest(draft'[r][i], Placeholders(r))
    BY <1>7, <1>11
  <2> QED
    BY <1>1, <1>2, <1>9, <1>11, <1>12, <1>13, <1>15, <2>1, <2>2, <2>3 DEF PacketStep
<1>17. txn' = After(s, "edit", r)
  BY <1>0, <1>1 DEF Commit
<1> QED BY <1>2, <1>14, <1>16, <1>17, PacketStepKeeps

\* A write that leaves drafts, values and returned batches as they are, and keeps the
\* packet's record: what is left to show is that the packet stays orderly.
LEMMA RowStep ==
  ASSUME IInv, NEW r \in Requests, Created(r), NEW op, op \notin {"create", "checklist"},
         NEW x \in RequestRow, x.record = request[r].record,
         request' = [request EXCEPT ![r] = x],
         UNCHANGED <<parsed, records, active, values, draft, batches>>,
         \A q \in Requests \ {r} :
           /\ verification'[q] = verification[q] /\ approved'[q] = approved[q]
           /\ released'[q] = released[q] /\ accepted'[q] = accepted[q],
         verification' \in [Requests -> VerificationRow \cup {None}],
         approved' \in [Requests -> SUBSET Version],
         released' \in [Requests -> SUBSET Version],
         accepted' \in [Requests -> SUBSET [from : Version, verified : Version]],
         disturbed' \subseteq Requests,
         disturbed \subseteq disturbed', disturbed' \subseteq disturbed \cup {r},
         r \notin disturbed' => Orderly(r)' /\ (IsActive(r)' => IsActive(r)),
         NEW s, txn' = After(s, op, r)
  PROVE  IInv'
<1>1. request'[r] = x /\ x # None /\ \A q \in Requests \ {r} : request'[q] = request[q]
  BY NoneIsNothing DEF IInv, TypeOK
<1>2. txn' \in [Sessions -> Txn]
  BY AfterKeeps DEF IInv, TypeOK
<1>3. TypeOK'
  <2>1. request' \in [Requests -> RequestRow \cup {None}]
    BY DEF IInv, TypeOK
  <2>2. \A q \in Requests : Created(q)' <=> Created(q)
    BY <1>1 DEF Created
  <2> QED BY <1>2, <2>1, <2>2 DEF IInv, TypeOK, Placeholders
<1>4. PacketStep(op, r)
  BY <1>1 DEF PacketStep, Placeholders
<1> QED BY <1>3, <1>4, PacketStepKeeps

LEMMA ApproveKeeps ==
  ASSUME IInv, NEW s \in Sessions, CommitApprove(s)
  PROVE  IInv'
<1> DEFINE t == txn[s]
<1>0. PICK r \in Requests : r = t.r
  BY OpenPacket DEF CommitApprove, PacketOps
<1> DEFINE x == [request[r] EXCEPT !.status = "approved", !.semantic = t.semantic]
           reopens == request[r].status \in FinalOrReplaced
<1>1. /\ t.op = "approve" /\ t.op \in PacketOps
      /\ request' = [request EXCEPT ![r].status = "approved", ![r].semantic = t.semantic]
      /\ approved' = [approved EXCEPT ![r] = @ \cup {t.d}]
      /\ Commit(s, r, reopens)
      /\ UNCHANGED <<parsed, records, active, values, draft, verification, batches,
                     released, accepted>>
  BY <1>0 DEF CommitApprove, PacketOps
<1>2. /\ Created(r) /\ request[r] \in RequestRow
      /\ ~t.stale /\ r \notin disturbed => Fresh(t) /\ Orderly(r)
  BY <1>0, <1>1, OpenPacket
<1>3. t \in ApproveTxn
  BY <1>1, TxnFields DEF IInv, TypeOK
<1>4. t.d \in Version /\ t.semantic \in SemanticStatuses
  BY <1>3 DEF ApproveTxn
<1>5. x \in RequestRow /\ x.record = request[r].record /\ x.status = "approved"
  BY <1>2, <1>4 DEF RequestRow, PacketStatuses, Locked, Releasable
<1>6. request' = [request EXCEPT ![r] = x]
  BY <1>1, <1>2 DEF IInv, TypeOK
<1>7. request'[r] = x
  BY <1>6 DEF IInv, TypeOK
<1>8. /\ disturbed' \subseteq Requests
      /\ disturbed \subseteq disturbed' /\ disturbed' \subseteq disturbed \cup {r}
      /\ r \notin disturbed' => ~t.stale /\ ~reopens /\ r \notin disturbed
  <2>1. reopens \in BOOLEAN
    OBVIOUS
  <2> HIDE DEF reopens
  <2> QED BY <1>1, <2>1, CommitFacts DEF IInv
<1>9. /\ approved' \in [Requests -> SUBSET Version] /\ approved'[r] = approved[r] \cup {t.d}
      /\ \A q \in Requests \ {r} : approved'[q] = approved[q]
  BY <1>1, <1>4 DEF IInv, TypeOK
<1>10. r \notin disturbed' => Orderly(r)' /\ (IsActive(r)' => IsActive(r))
  <2> SUFFICES ASSUME r \notin disturbed' PROVE Orderly(r)' /\ (IsActive(r)' => IsActive(r))
    OBVIOUS
  <2>1. Orderly(r) /\ t.d = Len(draft[r]) /\ request[r].status \notin FinalOrReplaced
    BY <1>0, <1>1, <1>2, <1>8 DEF Fresh
  <2>2. verification[r] # None => verification[r].d = Len(draft[r])
    BY <2>1 DEF Orderly, FinalOrReplaced
  <2>3. /\ verification'[r] = verification[r] /\ batches'[r] = batches[r]
        /\ released'[r] = released[r] /\ accepted'[r] = accepted[r] /\ draft'[r] = draft[r]
    BY <1>1
  <2>4. Orderly(r)'
    BY <1>5, <1>7, <1>9, <2>1, <2>2, <2>3 DEF Orderly, Releasable
  <2>5. IsActive(r)
    BY <1>2, <2>1 DEF IsActive
  <2> QED BY <2>4, <2>5
<1>11. txn' = After(s, "approve", r)
  BY <1>0, <1>1 DEF Commit
<1> HIDE DEF x
<1>12. /\ verification' \in [Requests -> VerificationRow \cup {None}]
       /\ released' \in [Requests -> SUBSET Version]
       /\ accepted' \in [Requests -> SUBSET [from : Version, verified : Version]]
  BY <1>1 DEF IInv, TypeOK
<1> QED BY <1>1, <1>2, <1>5, <1>6, <1>8, <1>9, <1>10, <1>11, <1>12, RowStep

LEMMA ExportKeeps ==
  ASSUME IInv, NEW s \in Sessions, CommitExport(s)
  PROVE  IInv'
<1> DEFINE t == txn[s]
<1>0. PICK r \in Requests : r = t.r
  BY OpenPacket DEF CommitExport, PacketOps
<1> DEFINE x == IF t.status = "shared" THEN request[r]
                ELSE [request[r] EXCEPT !.status = "printed"]
<1>1. /\ t.op = "export" /\ t.op \in PacketOps
      /\ request' = IF t.status = "shared" THEN request
                    ELSE [request EXCEPT ![r].status = "printed"]
      /\ released' = [released EXCEPT ![r] = @ \cup {t.d}]
      /\ Commit(s, r, FALSE)
      /\ UNCHANGED <<parsed, records, active, values, draft, verification, batches,
                     approved, accepted>>
  BY <1>0 DEF CommitExport, PacketOps
<1>2. /\ Created(r) /\ request[r] \in RequestRow
      /\ ~t.stale /\ r \notin disturbed => Fresh(t) /\ Orderly(r)
  BY <1>0, <1>1, OpenPacket
<1>3. t \in ExportTxn
  BY <1>1, TxnFields DEF IInv, TypeOK
<1>4. t.d \in Version /\ t.status \in Releasable
  BY <1>3 DEF ExportTxn
<1>5. /\ x \in RequestRow /\ x.record = request[r].record
      /\ x.status = (IF t.status = "shared" THEN request[r].status ELSE "printed")
  BY <1>2 DEF RequestRow, PacketStatuses, Locked, Releasable
<1>6. request' = [request EXCEPT ![r] = x]
  BY <1>1, <1>2 DEF IInv, TypeOK
<1>7. request'[r] = x
  BY <1>6 DEF IInv, TypeOK
<1>8. /\ disturbed' \subseteq Requests
      /\ disturbed \subseteq disturbed' /\ disturbed' \subseteq disturbed \cup {r}
      /\ r \notin disturbed' => ~t.stale /\ r \notin disturbed
  BY <1>1, CommitFacts DEF IInv
<1>9. /\ released' \in [Requests -> SUBSET Version] /\ released'[r] = released[r] \cup {t.d}
      /\ \A q \in Requests \ {r} : released'[q] = released[q]
  BY <1>1, <1>4 DEF IInv, TypeOK
<1>10. r \notin disturbed' => Orderly(r)' /\ (IsActive(r)' => IsActive(r))
  <2> SUFFICES ASSUME r \notin disturbed' PROVE Orderly(r)' /\ (IsActive(r)' => IsActive(r))
    OBVIOUS
  <2>1. Orderly(r) /\ t.d = Len(draft[r]) /\ request[r].status = t.status
    BY <1>0, <1>1, <1>2, <1>8 DEF Fresh
  <2>2. /\ Len(draft[r]) \in approved[r]
        /\ verification[r] # None => verification[r].d = Len(draft[r])
    BY <1>2, <1>4, <2>1 DEF Orderly
  <2>3. /\ verification'[r] = verification[r] /\ batches'[r] = batches[r]
        /\ approved'[r] = approved[r] /\ accepted'[r] = accepted[r] /\ draft'[r] = draft[r]
    BY <1>1
  <2>4. request'[r].status \in Releasable
    BY <1>4, <1>5, <1>7, <2>1 DEF Releasable
  <2>5. Orderly(r)'
    BY <1>9, <2>1, <2>2, <2>3, <2>4 DEF Orderly
  <2>6. IsActive(r)' => IsActive(r)
    BY <1>2, <1>5, <1>7, <2>1 DEF IsActive, FinalOrReplaced
  <2> QED BY <2>5, <2>6
<1>11. txn' = After(s, "export", r)
  BY <1>0, <1>1 DEF Commit
<1> HIDE DEF x
<1>12. /\ verification' \in [Requests -> VerificationRow \cup {None}]
       /\ approved' \in [Requests -> SUBSET Version]
       /\ accepted' \in [Requests -> SUBSET [from : Version, verified : Version]]
  BY <1>1 DEF IInv, TypeOK
<1> QED BY <1>1, <1>2, <1>5, <1>6, <1>8, <1>9, <1>10, <1>11, <1>12, RowStep

LEMMA VerificationKeeps ==
  ASSUME IInv, NEW s \in Sessions, CommitVerification(s)
  PROVE  IInv'
<1> DEFINE t == txn[s]
<1>0. PICK r \in Requests : r = t.r
  BY OpenPacket DEF CommitVerification, PacketOps
<1> DEFINE x == [request[r] EXCEPT !.consent = t.consent]
           y == [d |-> t.d, consent |-> t.consent]
<1>1. /\ t.op = "verify" /\ t.op \in PacketOps
      /\ verification' = [verification EXCEPT ![r] = y]
      /\ request' = [request EXCEPT ![r].consent = t.consent]
      /\ released' = [released EXCEPT ![r] = @ \cup {t.d}]
      /\ Commit(s, r, FALSE)
      /\ UNCHANGED <<parsed, records, active, values, draft, batches, approved, accepted>>
  BY <1>0 DEF CommitVerification, PacketOps
<1>2. /\ Created(r) /\ request[r] \in RequestRow
      /\ ~t.stale /\ r \notin disturbed => Fresh(t) /\ Orderly(r)
  BY <1>0, <1>1, OpenPacket
<1>3. t \in VerifyTxn
  BY <1>1, TxnFields DEF IInv, TypeOK
<1>4. t.d \in Version /\ t.consent \in ConsentStatuses
  BY <1>3 DEF VerifyTxn
<1>5. x \in RequestRow /\ x.record = request[r].record /\ x.status = request[r].status
  BY <1>2, <1>4 DEF RequestRow
<1>6. request' = [request EXCEPT ![r] = x]
  BY <1>1, <1>2 DEF IInv, TypeOK
<1>7. request'[r] = x
  BY <1>6 DEF IInv, TypeOK
<1>8. /\ disturbed' \subseteq Requests
      /\ disturbed \subseteq disturbed' /\ disturbed' \subseteq disturbed \cup {r}
      /\ r \notin disturbed' => ~t.stale /\ r \notin disturbed
  BY <1>1, CommitFacts DEF IInv
<1>9. /\ released' \in [Requests -> SUBSET Version] /\ released'[r] = released[r] \cup {t.d}
      /\ \A q \in Requests \ {r} : released'[q] = released[q]
  BY <1>1, <1>4 DEF IInv, TypeOK
<1>10. /\ verification' \in [Requests -> VerificationRow \cup {None}] /\ verification'[r].d = t.d
       /\ \A q \in Requests \ {r} : verification'[q] = verification[q]
  <2>1. y \in VerificationRow
    BY <1>4 DEF VerificationRow
  <2> QED BY <1>1, <2>1 DEF IInv, TypeOK
<1>11. r \notin disturbed' => Orderly(r)' /\ (IsActive(r)' => IsActive(r))
  <2> SUFFICES ASSUME r \notin disturbed' PROVE Orderly(r)' /\ (IsActive(r)' => IsActive(r))
    OBVIOUS
  <2>1. Orderly(r) /\ t.d = Len(draft[r]) /\ request[r].status \in Releasable
    BY <1>0, <1>1, <1>2, <1>8 DEF Fresh
  <2>2. Len(draft[r]) \in approved[r]
    BY <1>2, <2>1 DEF Orderly
  <2>3. /\ batches'[r] = batches[r] /\ approved'[r] = approved[r]
        /\ accepted'[r] = accepted[r] /\ draft'[r] = draft[r]
    BY <1>1
  <2>4. Orderly(r)'
    BY <1>5, <1>7, <1>9, <1>10, <2>1, <2>2, <2>3 DEF Orderly
  <2>5. IsActive(r)' => IsActive(r)
    BY <1>2, <1>5, <1>7 DEF IsActive
  <2> QED BY <2>4, <2>5
<1>12. txn' = After(s, "verify", r)
  BY <1>0, <1>1 DEF Commit
<1> HIDE DEF x, y
<1>13. /\ approved' \in [Requests -> SUBSET Version]
       /\ accepted' \in [Requests -> SUBSET [from : Version, verified : Version]]
  BY <1>1 DEF IInv, TypeOK
<1> QED BY <1>1, <1>2, <1>5, <1>6, <1>8, <1>9, <1>10, <1>11, <1>12, <1>13, RowStep

\* A translation and its review change the semantic status only.
LEMMA SemanticKeeps ==
  ASSUME IInv, NEW r, NEW s,
         \/ s \in Sessions /\ r = txn[s].r /\ CommitTranslation(s)
         \/ s = None /\ r \in Worked /\ SaveSemanticValidation(r)
  PROVE  IInv'
<1>1. r \in Requests /\ Created(r)
  <2>1. CASE s \in Sessions /\ r = txn[s].r /\ CommitTranslation(s)
    <3>1. txn[s].op \in PacketOps
      BY <2>1 DEF CommitTranslation, PacketOps
    <3> QED BY <2>1, <3>1, OpenPacket
  <2>2. CASE s = None /\ r \in Worked /\ SaveSemanticValidation(r)
    BY <2>2, RequestsAreNumbered DEF SaveSemanticValidation
  <2> QED BY <2>1, <2>2
<1>2. request[r] \in RequestRow
  BY <1>1 DEF IInv, TypeOK, Created
<1>3. PICK status \in SemanticStatuses, translated \in BOOLEAN, op \in {"translate", "semantic"} :
        /\ request' = [request EXCEPT ![r] =
                        [@ EXCEPT !.semantic = status, !.translated = translated]]
        /\ txn' = After(s, op, r)
  <2>1. CASE s \in Sessions /\ r = txn[s].r /\ CommitTranslation(s)
    <3>1. PICK translator \in BOOLEAN :
          \E status \in TranslationOutcomes(draft[r][txn[s].d].text, parsed.language, translator) :
            request' = [request EXCEPT ![r].semantic = status, ![r].translated = TRUE]
      BY <2>1 DEF CommitTranslation
    <3>2. PICK status \in SemanticStatuses :
            request' = [request EXCEPT ![r].semantic = status, ![r].translated = TRUE]
      BY <3>1, TranslationTypes
    <3>3. request' = [request EXCEPT ![r] = [@ EXCEPT !.semantic = status, !.translated = TRUE]]
      BY <1>1, <1>2, <3>2 DEF IInv, TypeOK
    <3> QED BY <2>1, <3>3 DEF CommitTranslation
  <2>2. CASE s = None /\ r \in Worked /\ SaveSemanticValidation(r)
    <3>1. PICK status \in SemanticStatuses : request' = [request EXCEPT ![r].semantic = status]
      BY <2>2 DEF SaveSemanticValidation, SemanticStatuses
    <3>2. [request[r] EXCEPT !.semantic = status]
            = [request[r] EXCEPT !.semantic = status, !.translated = request[r].translated]
      BY <1>2 DEF RequestRow
    <3>3. request' = [request EXCEPT ![r] =
                       [@ EXCEPT !.semantic = status, !.translated = request[r].translated]]
      BY <1>1, <1>2, <3>1, <3>2 DEF IInv, TypeOK
    <3>4. request[r].translated \in BOOLEAN
      BY <1>2 DEF RequestRow
    <3> QED BY <2>2, <3>3, <3>4 DEF SaveSemanticValidation
  <2> QED BY <2>1, <2>2
<1> DEFINE x == [request[r] EXCEPT !.semantic = status, !.translated = translated]
<1>4. x \in RequestRow /\ x.record = request[r].record /\ x.status = request[r].status
  BY <1>2 DEF RequestRow
<1>5. request' = [request EXCEPT ![r] = x] /\ request'[r] = x
  BY <1>1, <1>3 DEF IInv, TypeOK
<1> HIDE DEF x
<1>6. UNCHANGED <<parsed, records, active, values, draft, verification, batches,
                  approved, released, accepted, disturbed>>
  BY DEF CommitTranslation, SaveSemanticValidation, history
<1>7. r \notin disturbed' => Orderly(r)' /\ (IsActive(r)' => IsActive(r))
  <2> SUFFICES ASSUME r \notin disturbed PROVE Orderly(r)' /\ (IsActive(r)' => IsActive(r))
    BY <1>6
  <2>1. Orderly(r)
    BY <1>1 DEF IInv, OrderlyPackets
  <2>2. Orderly(r)'
    BY <1>1, <1>4, <1>5, <1>6, <2>1 DEF Orderly
  <2> QED BY <1>1, <1>4, <1>5, <2>2 DEF IsActive
<1>8. /\ verification' \in [Requests -> VerificationRow \cup {None}]
      /\ approved' \in [Requests -> SUBSET Version]
      /\ released' \in [Requests -> SUBSET Version]
      /\ accepted' \in [Requests -> SUBSET [from : Version, verified : Version]]
      /\ disturbed' \subseteq Requests
  BY <1>6 DEF IInv, TypeOK
<1> QED BY <1>1, <1>3, <1>4, <1>5, <1>6, <1>7, <1>8, RowStep

\* Values are returned for placeholders that are there.
LEMMA ReturnKeeps ==
  ASSUME IInv, NEW r \in Worked, SaveReturnValues(r)
  PROVE  IInv'
<1>1. r \in Requests /\ Created(r)
  BY RequestsAreNumbered DEF SaveReturnValues
<1>2. /\ UNCHANGED <<parsed, records, active, request, draft, verification, batches,
                      approved, released, accepted, disturbed>>
      /\ txn' = After(None, "values", r)
  BY DEF SaveReturnValues, history
<1>3. PICK p \in Placeholders(r), v \in ValueStatuses : values' = [values EXCEPT ![r][p] = v]
  BY DEF SaveReturnValues
<1>4. values' = [values EXCEPT ![r] = [values[r] EXCEPT ![p] = v]]
  BY <1>3
<1>5. /\ DOMAIN values' = Requests
      /\ values'[r] = [values[r] EXCEPT ![p] = v]
      /\ \A q \in Requests \ {r} : values'[q] = values[q]
  BY <1>1, <1>4 DEF IInv, TypeOK
<1>6. values[r] \in [Placeholders(r) -> ValueStatuses]
  BY <1>1 DEF IInv, TypeOK
<1>7. values'[r] \in [Placeholders(r) -> ValueStatuses]
  BY <1>5, <1>6
<1>8. \A q \in Requests : Placeholders(q)' = Placeholders(q)
  BY <1>5, <1>7 DEF Placeholders
<1>9. TypeOK'
  <2>1. txn' \in [Sessions -> Txn]
    BY <1>2, AfterKeeps DEF IInv, TypeOK
  <2>2. \A q \in Requests :
          /\ Placeholders(q)' \subseteq Tokens /\ IsFiniteSet(Placeholders(q)')
          /\ values'[q] \in [Placeholders(q)' -> ValueStatuses]
    BY <1>5, <1>7, <1>8 DEF IInv, TypeOK
  <2> QED BY <1>2, <1>5, <2>1, <2>2 DEF IInv, TypeOK, Created
<1>10. r \notin disturbed' => Orderly(r)' /\ (IsActive(r)' => IsActive(r))
  <2>1. r \notin disturbed => Orderly(r)
    BY <1>1 DEF IInv, OrderlyPackets
  <2> QED BY <1>2, <2>1 DEF Orderly, IsActive, Created
<1>11. PacketStep("values", r)
  BY <1>1, <1>2, <1>8, <1>10 DEF PacketStep, Created
<1> QED BY <1>1, <1>2, <1>9, <1>11, PacketStepKeeps

\* The merge adds the final text: a text that nothing was merged into is the
\* draft it was read from.
LEMMA AcceptKeeps ==
  ASSUME IInv, NEW s \in Sessions, CommitAccept(s)
  PROVE  IInv'
<1> DEFINE t == txn[s]
<1>0. PICK r \in Requests : r = t.r
  BY OpenPacket DEF CommitAccept, PacketOps
<1> DEFINE x == [version |-> t.version, text |-> t.text,
                 lineage |-> draft[r][t.d].lineage, unsupported |-> 0]
           a == [from |-> t.d, verified |-> t.verified]
           y == [request[r] EXCEPT !.status = "accepted", !.consent = "verified"]
<1>1. /\ t.op = "accept" /\ t.op \in PacketOps
      /\ draft' = [draft EXCEPT ![r] = Append(@, x)]
      /\ request' = [request EXCEPT ![r].status = "accepted", ![r].consent = "verified"]
      /\ accepted' = [accepted EXCEPT ![r] = @ \cup {a}]
      /\ Commit(s, r, FALSE)
      /\ UNCHANGED <<parsed, records, active, values, verification, batches,
                     approved, released>>
  BY <1>0 DEF CommitAccept, PacketOps
<1>2. /\ r \in Requests /\ Created(r)
      /\ request[r] \in RequestRow /\ draft[r] \in Seq(DraftRow) /\ draft[r] # <<>>
      /\ draft[r][t.d] \in DraftRow /\ t.d \in DOMAIN draft[r]
      /\ ~t.stale /\ r \notin disturbed => Fresh(t) /\ Orderly(r)
  BY <1>0, <1>1, OpenPacket
<1>3. t \in AcceptTxn /\ (t.text.words # "merged" => t.text = draft[r][t.d].text)
  BY <1>0, <1>1, TxnFields DEF IInv, TypeOK, TxnsRefer, Refers
<1>4. t.d \in Version /\ t.verified \in Version /\ t.version \in Version /\ t.text \in Texts
  BY <1>3 DEF AcceptTxn
<1>5. x \in DraftRow /\ a \in [from : Version, verified : Version]
  BY <1>2, <1>4 DEF DraftRow
<1>6. Honest(x, Placeholders(r))
  BY <1>2, <1>3 DEF IInv, LineageIsSound, Honest
<1>7. y \in RequestRow /\ y.record = request[r].record /\ y.status = "accepted"
  BY <1>2 DEF RequestRow, PacketStatuses, Locked, FinalOrReplaced, ConsentStatuses
<1>8. request'[r] = y
  BY <1>1, <1>2 DEF IInv, TypeOK
<1>9. draft'[r] = Append(draft[r], x) /\ accepted'[r] = accepted[r] \cup {a}
  BY <1>1, <1>2 DEF IInv, TypeOK
<1> HIDE DEF x, y
<1>10. /\ draft'[r] \in Seq(DraftRow) /\ draft'[r] # <<>>
       /\ Len(draft'[r]) = Len(draft[r]) + 1 /\ Len(draft[r]) \in Nat
       /\ \A i \in DOMAIN draft[r] : i \in DOMAIN draft'[r] /\ draft'[r][i] = draft[r][i]
       /\ \A i \in DOMAIN draft'[r] : i \in DOMAIN draft[r] \/ i = Len(draft[r]) + 1
       /\ draft'[r][Len(draft[r]) + 1] = x
  BY <1>2, <1>5, <1>9, AppendFacts
<1>11. /\ txn' \in [Sessions -> Txn] /\ disturbed' \subseteq Requests
       /\ disturbed \subseteq disturbed' /\ disturbed' \subseteq disturbed \cup {r}
       /\ r \notin disturbed' => ~t.stale /\ r \notin disturbed
  BY <1>1, <1>2, CommitFacts DEF IInv
<1>12. None \notin RequestRow
  BY NoneIsNothing
<1>13. TypeOK'
  <2>1. request' \in [Requests -> RequestRow \cup {None}] /\ draft' \in [Requests -> Seq(DraftRow)]
    BY <1>1, <1>2, <1>7, <1>8, <1>9, <1>10 DEF IInv, TypeOK
  <2>2. \A q \in Requests : Created(q)' <=> draft'[q] # <<>>
    BY <1>1, <1>2, <1>7, <1>8, <1>10, <1>12 DEF IInv, TypeOK, Created
  <2>3. accepted' \in [Requests -> SUBSET [from : Version, verified : Version]]
    BY <1>1, <1>5 DEF IInv, TypeOK
  <2> HIDE DEF a
  <2> QED BY <1>1, <1>11, <2>1, <2>2, <2>3 DEF IInv, TypeOK, Placeholders
<1>14. r \notin disturbed' => Orderly(r)' /\ (IsActive(r)' => IsActive(r))
  <2> SUFFICES ASSUME r \notin disturbed' PROVE Orderly(r)' /\ (IsActive(r)' => IsActive(r))
    OBVIOUS
  <2>1. /\ Orderly(r) /\ request[r].status \in Releasable /\ t.d = Len(draft[r])
        /\ t.version = Len(draft[r]) + 1 /\ t.verified = Len(draft[r])
    BY <1>0, <1>1, <1>2, <1>11 DEF Fresh
  <2>2. Len(draft[r]) \in approved[r]
    BY <1>2, <2>1 DEF Orderly
  <2>3. \A i \in DOMAIN draft'[r] : draft'[r][i].version = i
    BY <1>10, <2>1 DEF Orderly, x
  <2>4. \A b \in accepted'[r] : b.from \in approved[r] /\ b.verified = b.from
    BY <1>9, <2>1, <2>2 DEF Orderly
  <2>5. /\ verification'[r] = verification[r] /\ batches'[r] = batches[r]
        /\ approved'[r] = approved[r] /\ released'[r] = released[r]
    BY <1>1
  <2>6. request'[r].status = "accepted" /\ "accepted" \notin Releasable
    BY <1>7, <1>8 DEF Releasable
  <2>7. Orderly(r)'
    BY <2>1, <2>3, <2>4, <2>5, <2>6 DEF Orderly
  <2>8. ~IsActive(r)'
    BY <2>6 DEF IsActive, FinalOrReplaced
  <2> QED BY <2>7, <2>8
<1>15. PacketStep("accept", r)
  <2>1. \A q \in Requests : Placeholders(q)' = Placeholders(q)
    BY <1>1 DEF Placeholders
  <2>2. \A q \in Requests \ {r} :
          request'[q] = request[q] /\ draft'[q] = draft[q] /\ accepted'[q] = accepted[q]
    BY <1>1 DEF IInv, TypeOK
  <2>3. \A i \in DOMAIN draft'[r] : i \in DOMAIN draft[r] \/ Honest(draft'[r][i], Placeholders(r))
    BY <1>6, <1>10
  <2> QED
    BY <1>1, <1>2, <1>7, <1>8, <1>10, <1>11, <1>12, <1>14, <2>1, <2>2, <2>3 DEF PacketStep
<1>16. txn' = After(s, "accept", r)
  BY <1>0, <1>1 DEF Commit
<1> QED BY <1>2, <1>13, <1>15, <1>16, PacketStepKeeps

\* The identifier of a new evaluation is one that nothing stored has.
LEMMA ChecklistKeeps ==
  ASSUME IInv, NEW s \in Sessions, CommitChecklist(s)
  PROVE  IInv'
<1> DEFINE t == txn[s]
<1>0. t \in ChecklistTxn /\ t \in Txn /\ t.op = "checklist" /\ t.r \in Requests
  BY TxnFields DEF IInv, TypeOK, CommitChecklist
<1>1. PICK r \in Requests : r = t.r
  BY <1>0
<1>2. PICK new \in {{}} \cup {{n} : n \in BatchIds} :
        /\ batches' = [batches EXCEPT ![r] = (@ \ t.seen) \cup new]
        /\ Commit(s, r, FALSE)
        /\ UNCHANGED <<parsed, records, active, request, values, draft, verification,
                       approved, released, accepted>>
  <2> DEFINE id == CHOOSE i \in 1..MaxBatches + 1 : i \notin batches[r] \cup t.seen
  <2>1. id \in BatchIds
    BY <1>1 DEF CommitChecklist
  <2>2. PICK new \in {{}, {id}} :
        /\ batches' = [batches EXCEPT ![r] = (@ \ t.seen) \cup new]
        /\ Commit(s, r, FALSE)
        /\ UNCHANGED <<parsed, records, active, request, values, draft, verification,
                       approved, released, accepted>>
    BY <1>1 DEF CommitChecklist
  <2> QED BY <2>1, <2>2
<1>3. /\ txn' \in [Sessions -> Txn]
      /\ disturbed' \subseteq Requests
      /\ disturbed \subseteq disturbed' /\ disturbed' \subseteq disturbed \cup {r}
      /\ r \notin disturbed' => ~t.stale /\ r \notin disturbed
  BY <1>0, <1>2, CommitFacts DEF IInv
<1>4. txn' = After(s, "checklist", r)
  BY <1>0, <1>1, <1>2 DEF Commit
<1>5. /\ batches'[r] = (batches[r] \ t.seen) \cup new
      /\ \A q \in Requests \ {r} : batches'[q] = batches[q]
      /\ batches' \in [Requests -> SUBSET BatchIds]
  BY <1>0, <1>1, <1>2 DEF IInv, TypeOK
<1>6. TypeOK'
  BY <1>2, <1>3, <1>5 DEF IInv, TypeOK, Created, Placeholders
<1>7. RowsRefer' /\ LineageIsSound'
  BY <1>2 DEF IInv, RowsRefer, LineageIsSound, Created, Placeholders
<1>8. OneActivePacket'
  BY <1>2, <1>3 DEF IInv, OneActivePacket, IsActive, Created
<1>9. r \notin disturbed' => Cardinality(batches'[r]) <= 1
  <2> SUFFICES ASSUME r \notin disturbed' PROVE Cardinality(batches'[r]) <= 1
    OBVIOUS
  <2>1. t.seen = batches[r]
    BY <1>0, <1>1, <1>3 DEF IInv, FreshTxns, Promised, Fresh
  <2>2. batches'[r] = new
    BY <1>5, <2>1
  <2>3. \A n \in BatchIds : Cardinality({n}) = 1
    BY FS_Singleton
  <2> QED BY <2>2, <2>3, FS_EmptySet
<1>10. OrderlyPackets'
  <2>1. ASSUME NEW q \in Requests, q \notin disturbed' PROVE Orderly(q)'
    <3>1. Orderly(q)
      BY <1>3, <2>1 DEF IInv, OrderlyPackets
    <3>2. Cardinality(batches'[q]) <= 1
      BY <1>5, <1>9, <2>1, <3>1 DEF Orderly
    <3> QED BY <1>2, <3>1, <3>2 DEF Orderly, Created
  <2> QED BY <2>1 DEF OrderlyPackets
<1>11. ASSUME NEW q \in Sessions PROVE Refers(txn[q])' /\ Promised(txn[q])'
  <2>1. Refers(txn[q]) /\ Promised(txn[q]) /\ txn[q] \in Txn /\ txn'[q] \in Txn
    BY <1>3 DEF IInv, TxnsRefer, FreshTxns, TypeOK
  <2>2. CASE q = s
    <3>1. txn'[q].op = "idle"
      BY <1>4, <2>2, AfterKeeps, IdleIsTxn DEF IInv, TypeOK
    <3> QED BY <3>1 DEF Refers, Promised, PacketOps
  <2>3. CASE q # s
    <3>1. Kept(txn[q], txn'[q])
      BY <1>4, <2>3, AfterKeeps DEF IInv, TypeOK
    <3>2. txn[q].op # "idle" /\ ~txn'[q].stale =>
            txn'[q] = txn[q] /\ ~Conflicts(txn[q], "checklist", r)
      BY <1>4, <2>3, AfterKeeps DEF IInv, TypeOK
    <3>3. Refers(txn[q])'
      BY <1>2, <2>1, <3>1 DEF Refers, Kept, PacketOps, Created
    <3>4. Promised(txn[q])'
      <4>1. ASSUME txn'[q].op \in PacketOps, ~txn'[q].stale, txn'[q].r \notin disturbed'
            PROVE  Fresh(txn[q])'
        <5>1. txn'[q] = txn[q] /\ txn[q].op # "checklist"
          BY <3>1, <3>2, <4>1 DEF Kept, PacketOps
        <5>2. Fresh(txn[q])
          BY <1>3, <2>1, <4>1, <5>1 DEF Promised
        <5> QED BY <1>2, <5>1, <5>2 DEF Fresh
      <4>2. ASSUME txn'[q].op = "checklist", ~txn'[q].stale, txn'[q].r \notin disturbed'
            PROVE  Fresh(txn[q])'
        <5>1. txn'[q] = txn[q] /\ txn[q].r # r /\ txn[q].r \in Requests
          BY <2>1, <3>1, <3>2, <4>2, TxnFields DEF Kept, Conflicts
        <5>2. Fresh(txn[q])
          BY <1>3, <2>1, <4>2, <5>1 DEF Promised
        <5> QED BY <1>5, <4>2, <5>1, <5>2 DEF Fresh
      <4>3. ASSUME txn'[q].op = "create", ~txn'[q].stale PROVE FreshCreation(txn[q])'
        <5>1. txn'[q] = txn[q]
          BY <3>1, <3>2, <4>3 DEF Kept
        <5>2. FreshCreation(txn[q])
          BY <2>1, <4>3, <5>1 DEF Promised
        <5> QED BY <1>2, <1>3, <5>1, <5>2 DEF FreshCreation, IsActive, Created
      <4> QED BY <4>1, <4>2, <4>3 DEF Promised
    <3> QED BY <3>3, <3>4
  <2> QED BY <2>2, <2>3
<1> QED BY <1>6, <1>7, <1>8, <1>10, <1>11 DEF IInv, TxnsRefer, FreshTxns

\* A creation writes the rows of a packet that was not there; open work on other
\* packets goes on, and every other creation has become stale.
LEMMA CreateKeeps ==
  ASSUME IInv, NEW s \in Sessions, CommitCreate(s)
  PROVE  IInv'
<1> DEFINE t      == txn[s]
           rec    == IF t.record = 0 THEN records + 1 ELSE t.record
           tokens == NewTokens(t.active)
           body   == GenerateEnglishPacket(tokens)
           valid  == ValidatePacketBody(body, tokens, parsed)
           x      == [record |-> rec,
                      status |-> IF valid.complete THEN "needs_review"
                                 ELSE "source_check_required",
                      semantic |-> IF parsed.language = "english" THEN "not_required"
                                   ELSE "pending",
                      translated |-> FALSE, consent |-> "not_presented"]
           d      == [version |-> 1, text |-> body, lineage |-> valid.complete,
                      unsupported |-> valid.unsupported]
<1>0. t \in CreateTxn /\ t \in Txn /\ t.op = "create" /\ t.r = None /\ t.record \in 0..records
  <2>1. t \in CreateTxn /\ t \in Txn /\ t.op = "create"
    BY TxnFields DEF IInv, TypeOK, CommitCreate
  <2> QED BY <2>1 DEF CreateTxn, IInv, TxnsRefer, Refers
<1>1. PICK r \in Requests, new \in {{}, {1}} :
        /\ ~Created(r)
        /\ records' = IF t.record = 0 THEN rec ELSE records
        /\ request' = [request EXCEPT ![r] = x]
        /\ values' = [values EXCEPT ![r] = [p \in tokens |-> "blank"]]
        /\ draft' = [draft EXCEPT ![r] = <<d>>]
        /\ batches' = [batches EXCEPT ![r] = new]
        /\ Commit(s, r, FALSE)
        /\ UNCHANGED <<parsed, active, verification, approved, released, accepted>>
  <2>1. PICK r \in Requests :
        /\ ~Created(r)
        /\ records' = IF t.record = 0 THEN rec ELSE records
        /\ request' = [request EXCEPT ![r] = x]
        /\ values' = [values EXCEPT ![r] = [p \in tokens |-> "blank"]]
        /\ draft' = [draft EXCEPT ![r] = <<d>>]
        /\ batches' = [batches EXCEPT ![r] = IF Evaluations(t.active) = {} THEN {} ELSE {1}]
        /\ Commit(s, r, FALSE)
    BY DEF CommitCreate, NewTokens, Evaluations
  <2> QED BY <2>1 DEF CommitCreate
<1>2. parsed \in ParsedOutputs /\ records \in Nat
  BY DEF IInv, TypeOK
<1>3. tokens \subseteq Tokens /\ IsFiniteSet(tokens)
  BY <1>2, NewTokensAreTokens
<1>4. valid.complete \in BOOLEAN /\ valid.unsupported \in Nat
  BY <1>3, ValidationTypes
<1>5. body \in Texts /\ body.words = "generated" /\ body.holes = tokens
  BY <1>3 DEF GenerateEnglishPacket, Texts, Wordings
<1>6. /\ rec \in Nat /\ records' \in Nat /\ rec \in 1..records' /\ records <= records'
      /\ t.record = 0 => rec = records + 1
      /\ t.record # 0 => rec = t.record
  BY <1>0, <1>1, <1>2
<1> HIDE DEF tokens, valid, body, rec
<1>7. x \in RequestRow /\ x.record = rec /\ x.status \notin Releasable
  BY <1>6 DEF RequestRow, PacketStatuses, SemanticStatuses, Releasable
<1>8. d \in DraftRow /\ Honest(d, tokens) /\ d.version = 1
  BY <1>4, <1>5 DEF DraftRow, Honest, Version
<1>9. /\ request'[r] = x /\ \A q \in Requests \ {r} : request'[q] = request[q]
      /\ draft'[r] = <<d>> /\ \A q \in Requests \ {r} : draft'[q] = draft[q]
      /\ batches'[r] = new /\ \A q \in Requests \ {r} : batches'[q] = batches[q]
      /\ DOMAIN values' = Requests
      /\ values'[r] = [p \in tokens |-> "blank"]
      /\ \A q \in Requests \ {r} : values'[q] = values[q]
  BY <1>1 DEF IInv, TypeOK
<1>10. /\ txn' \in [Sessions -> Txn]
       /\ disturbed' \subseteq Requests
       /\ disturbed \subseteq disturbed' /\ disturbed' \subseteq disturbed \cup {r}
       /\ r \notin disturbed' => ~t.stale /\ r \notin disturbed
  BY <1>0, <1>1, CommitFacts DEF IInv
<1>11. txn' = After(s, "create", None)
  BY <1>0, <1>1 DEF Commit
<1>12. x # None /\ None \notin Requests
  BY <1>7, NoneIsNothing, RequestsAreNumbered
<1>13. <<d>> \in Seq(DraftRow) /\ <<d>> # <<>> /\ DOMAIN <<d>> = {1} /\ <<d>>[1] = d
  <2> HIDE DEF d
  <2> QED BY <1>8
<1>14. /\ Created(r)'
       /\ \A q \in Requests \ {r} : /\ Created(q)' <=> Created(q)
                                    /\ Placeholders(q)' = Placeholders(q)
       /\ Placeholders(r)' = tokens
  BY <1>9, <1>12 DEF Created, Placeholders
<1> HIDE DEF x, d
<1>15. TypeOK'
  <2>1. request' \in [Requests -> RequestRow \cup {None}] /\ draft' \in [Requests -> Seq(DraftRow)]
    BY <1>1, <1>7, <1>13 DEF IInv, TypeOK
  <2>2. ASSUME NEW q \in Requests
        PROVE  /\ Placeholders(q)' \subseteq Tokens /\ IsFiniteSet(Placeholders(q)')
               /\ values'[q] \in [Placeholders(q)' -> ValueStatuses]
               /\ Created(q)' <=> draft'[q] # <<>>
    <3>1. CASE q = r
      BY <1>3, <1>9, <1>13, <1>14, <3>1 DEF ValueStatuses
    <3>2. CASE q # r
      BY <1>9, <1>14, <3>2 DEF IInv, TypeOK
    <3> QED BY <3>1, <3>2
  <2>3. batches' \in [Requests -> SUBSET BatchIds]
    <3>1. new \subseteq BatchIds
      BY RequestsAreNumbered DEF BatchIds
    <3> QED BY <1>1, <3>1 DEF IInv, TypeOK
  <2> QED BY <1>1, <1>6, <1>9, <1>10, <2>1, <2>2, <2>3 DEF IInv, TypeOK
<1>16. RowsRefer'
  <2>1. \A q \in Requests : Created(q)' => request'[q].record \in 1..records'
    BY <1>2, <1>6, <1>7, <1>9, <1>14 DEF IInv, RowsRefer
  <2> QED BY <1>1, <1>14, <2>1 DEF IInv, RowsRefer
<1>17. LineageIsSound'
  <2>1. ASSUME NEW q \in Requests, NEW i \in DOMAIN draft'[q]
        PROVE  Honest(draft'[q][i], Placeholders(q)')
    <3>1. CASE q = r
      BY <1>8, <1>9, <1>13, <1>14, <3>1
    <3>2. CASE q # r
      BY <1>9, <1>14, <3>2 DEF IInv, LineageIsSound, Honest
    <3> QED BY <3>1, <3>2
  <2> QED BY <2>1 DEF LineageIsSound, Honest
<1>18. OrderlyPackets'
  <2>1. ASSUME NEW q \in Requests, q \notin disturbed', q # r PROVE Orderly(q)'
    <3>1. Orderly(q)
      BY <1>10, <2>1 DEF IInv, OrderlyPackets
    <3> QED BY <1>1, <1>9, <1>14, <2>1, <3>1 DEF Orderly
  <2>2. ASSUME r \notin disturbed' PROVE Orderly(r)'
    <3>1. verification'[r] = None /\ released'[r] = {} /\ accepted'[r] = {}
      BY <1>1 DEF IInv, RowsRefer
    <3>2. Cardinality(new) <= 1
      BY FS_EmptySet, FS_Singleton
    <3> QED BY <1>7, <1>8, <1>9, <1>13, <3>1, <3>2 DEF Orderly
  <2> QED BY <2>1, <2>2 DEF OrderlyPackets
<1>19. OneActivePacket'
  <2>1. ASSUME NEW q \in Requests \ disturbed', q # r, IsActive(q)', r \notin disturbed'
        PROVE  request'[q].record # request'[r].record
    <3>1. IsActive(q) /\ request'[q] = request[q] /\ q \notin disturbed
      BY <1>9, <1>10, <1>14, <2>1 DEF IsActive
    <3>2. FreshCreation(t)
      BY <1>0, <1>10, <2>1 DEF IInv, FreshTxns, Promised
    <3>3. request[q].record # t.record /\ request[q].record \in 1..records
      BY <3>1, <3>2 DEF FreshCreation, IInv, RowsRefer, IsActive
    <3> QED BY <1>2, <1>6, <1>7, <1>9, <3>1, <3>3
  <2>2. ASSUME NEW p \in Requests \ disturbed', NEW q \in Requests \ disturbed', p # r, q # r,
               IsActive(p)', IsActive(q)', request'[p].record = request'[q].record
        PROVE  p = q
    BY <1>9, <1>10, <1>14, <2>2 DEF IInv, OneActivePacket, IsActive
  <2> QED BY <2>1, <2>2 DEF OneActivePacket
<1>20. ASSUME NEW q \in Sessions PROVE Refers(txn[q])' /\ Promised(txn[q])'
  <2>1. Refers(txn[q]) /\ Promised(txn[q]) /\ txn[q] \in Txn /\ txn'[q] \in Txn
    BY <1>10 DEF IInv, TxnsRefer, FreshTxns, TypeOK
  <2>2. CASE q = s
    <3>1. txn'[q].op = "idle"
      BY <1>11, <2>2, AfterKeeps, IdleIsTxn DEF IInv, TypeOK
    <3> QED BY <3>1 DEF Refers, Promised, PacketOps
  <2>3. CASE q # s
    <3>1. Kept(txn[q], txn'[q])
      BY <1>11, <2>3, AfterKeeps DEF IInv, TypeOK
    <3>2. txn[q].op # "idle" /\ ~txn'[q].stale =>
            txn'[q] = txn[q] /\ ~Conflicts(txn[q], "create", None)
      BY <1>11, <2>3, AfterKeeps DEF IInv, TypeOK
    <3>3. txn[q].op \in PacketOps \cup {"checklist"} =>
            txn[q].r \in Requests /\ txn[q].r # r /\ Created(txn[q].r)
      <4>1. txn[q].op \in PacketOps => Created(txn[q].r)
        BY OpenPacket
      <4>2. txn[q].op = "checklist" => Created(txn[q].r)
        BY <2>1 DEF Refers
      <4>3. txn[q].op \in PacketOps \cup {"checklist"} => txn[q].r \in Requests
        BY <2>1, TxnFields
      <4> QED BY <1>1, <4>1, <4>2, <4>3
    <3>4. Refers(txn[q])'
      <4>1. txn'[q].op \in PacketOps => txn'[q].d \in DOMAIN draft'[txn'[q].r]
        BY <1>9, <2>1, <3>1, <3>3 DEF Refers, Kept, PacketOps
      <4>2. txn'[q].op = "checklist" => Created(txn[q].r)'
        BY <1>14, <3>1, <3>3 DEF Kept
      <4>3. txn'[q].op = "create" => txn'[q].record \in 0..records'
        BY <1>2, <1>6, <2>1, <3>1 DEF Refers, Kept
      <4>4. txn'[q].op = "accept" /\ txn'[q].text.words # "merged" =>
              txn'[q].text = draft'[txn'[q].r][txn'[q].d].text
        BY <1>9, <2>1, <3>1, <3>3 DEF Refers, Kept, PacketOps
      <4> QED BY <4>1, <4>2, <4>3, <4>4 DEF Refers
    <3>5. Promised(txn[q])'
      <4>1. ASSUME txn'[q].op \in PacketOps \cup {"checklist"}, ~txn'[q].stale,
                   txn'[q].r \notin disturbed'
            PROVE  Fresh(txn[q])'
        <5>1. txn'[q] = txn[q] /\ txn[q].op \in PacketOps \cup {"checklist"}
          BY <3>1, <3>2, <4>1 DEF Kept, PacketOps
        <5>2. Fresh(txn[q])
          BY <1>10, <2>1, <4>1, <5>1 DEF Promised
        <5>3. txn[q].r \in Requests \ {r}
          BY <3>3, <5>1
        <5> QED BY <1>9, <5>1, <5>2, <5>3 DEF Fresh
      <4>2. txn'[q].op = "create" => txn'[q].stale
        <5>1. SUFFICES ASSUME txn'[q].op = "create", ~txn'[q].stale PROVE FALSE
          OBVIOUS
        <5>2. txn[q].op = "create" /\ ~Conflicts(txn[q], "create", None)
          BY <3>1, <3>2, <5>1 DEF Kept
        <5>3. txn[q].r = None
          BY <2>1, <5>2, TxnFields DEF CreateTxn
        <5> QED BY <5>2, <5>3 DEF Conflicts
      <4> QED BY <4>1, <4>2 DEF Promised
    <3> QED BY <3>4, <3>5
  <2> QED BY <2>2, <2>3
<1> QED BY <1>15, <1>16, <1>17, <1>18, <1>19, <1>20 DEF IInv, TxnsRefer, FreshTxns

\* A lost transaction, and a question switched on or off, disturb nothing.
LEMMA AbandonKeeps ==
  ASSUME IInv, NEW s \in Sessions, Abandon(s)
  PROVE  IInv'
<1>1. /\ UNCHANGED <<parsed, records, active, request, values, draft, verification, batches>>
      /\ UNCHANGED <<approved, released, accepted, disturbed>>
      /\ txn' = [txn EXCEPT ![s] = Idle]
  BY DEF Abandon, rows, history
<1>2. txn' \in [Sessions -> Txn] /\ \A q \in Sessions : txn'[q] \in {txn[q], Idle}
  BY <1>1, IdleIsTxn DEF IInv, TypeOK
<1>3. TypeOK'
  BY <1>1, <1>2 DEF IInv, TypeOK, Created, Placeholders
<1>4. RowsRefer' /\ LineageIsSound' /\ OneActivePacket'
  BY <1>1 DEF IInv, RowsRefer, LineageIsSound, OneActivePacket, Created, Placeholders, IsActive
<1>5. OrderlyPackets'
  BY <1>1 DEF IInv, OrderlyPackets, Orderly, Created
<1>6. ASSUME NEW q \in Sessions PROVE Refers(txn[q])' /\ Promised(txn[q])'
  <2>1. Refers(txn[q]) /\ Promised(txn[q]) /\ txn'[q] \in {txn[q], Idle}
    BY <1>2 DEF IInv, TxnsRefer, FreshTxns
  <2>2. CASE txn'[q] = txn[q]
    BY <1>1, <2>1, <2>2 DEF Refers, Promised, Fresh, FreshCreation, Created, IsActive
  <2>3. CASE txn'[q] = Idle
    BY <2>3, IdleIsTxn DEF Refers, Promised, PacketOps
  <2> QED BY <2>1, <2>2, <2>3
<1> QED BY <1>3, <1>4, <1>5, <1>6 DEF IInv, TxnsRefer, FreshTxns

LEMMA QuestionKeeps ==
  ASSUME IInv, UNCHANGED <<parsed, records, rows, txn, history>>,
         active' \subseteq DOMAIN Questions
  PROVE  IInv'
<1>1. /\ UNCHANGED <<parsed, records, request, values, draft, verification, batches, txn>>
      /\ UNCHANGED <<approved, released, accepted, disturbed>>
  BY DEF rows, history
<1>2. TypeOK'
  BY <1>1 DEF IInv, TypeOK, Created, Placeholders
<1>3. RowsRefer' /\ LineageIsSound' /\ OneActivePacket'
  BY <1>1 DEF IInv, RowsRefer, LineageIsSound, OneActivePacket, Created, Placeholders, IsActive
<1>4. OrderlyPackets'
  BY <1>1 DEF IInv, OrderlyPackets, Orderly, Created
<1>5. TxnsRefer'
  BY <1>1 DEF IInv, TxnsRefer, Refers, Created
<1>6. FreshTxns'
  BY <1>1 DEF IInv, FreshTxns, Promised, Fresh, FreshCreation, Created, IsActive
<1> QED BY <1>2, <1>3, <1>4, <1>5, <1>6 DEF IInv

-----------------------------------------------------------------------------
(* The invariant is inductive. *)

LEMMA InitInv == Init => IInv
<1> SUFFICES ASSUME Init PROVE IInv
  OBVIOUS
<1>1. \A r \in Requests : request[r] = None /\ draft[r] = <<>> /\ verification[r] = None
        /\ values[r] = <<>> /\ batches[r] = {} /\ released[r] = {} /\ accepted[r] = {}
  BY DEF Init
<1>2. \A r \in Requests : ~Created(r) /\ Placeholders(r) = {}
  BY <1>1 DEF Created, Placeholders
<1>3. \A s \in Sessions : txn[s] = Idle
  BY DEF Init
<1>4. TypeOK
  <2>1. \A r \in Requests : values[r] \in [Placeholders(r) -> ValueStatuses]
    <3>1. <<>> \in [{} -> ValueStatuses]
      <4>1. DOMAIN <<>> = {} /\ <<>> = [i \in {} |-> <<>>[i]]
        OBVIOUS
      <4> QED BY <4>1
    <3> QED BY <1>1, <1>2, <3>1
  <2>2. txn \in [Sessions -> Txn]
    BY IdleIsTxn DEF Init
  <2> QED BY <1>1, <1>2, <2>1, <2>2, FS_EmptySet DEF Init, TypeOK
<1>5. TxnsRefer /\ FreshTxns
  BY <1>3, IdleIsTxn DEF TxnsRefer, FreshTxns, Refers, Promised, PacketOps
<1>6. RowsRefer /\ LineageIsSound /\ OneActivePacket
  BY <1>1, <1>2 DEF RowsRefer, LineageIsSound, OneActivePacket, IsActive
<1>7. OrderlyPackets
  <2>1. ASSUME NEW r \in Requests PROVE Orderly(r)
    <3>1. DOMAIN draft[r] = {}
      BY <1>1
    <3>2. Cardinality(batches[r]) <= 1
      BY <1>1, FS_EmptySet
    <3> QED BY <1>1, <1>2, <3>1, <3>2 DEF Orderly
  <2> QED BY <2>1 DEF OrderlyPackets
<1> QED BY <1>4, <1>5, <1>6, <1>7 DEF IInv

LEMMA NextInv == IInv /\ [Next]_vars => IInv'
<1> SUFFICES ASSUME IInv, [Next]_vars PROVE IInv'
  OBVIOUS
<1>1. ASSUME NEW s \in Sessions,
             \/ ReadCreate(s)
             \/ \E r \in Worked :
                  \/ ReadUpdateDraft(s, r) \/ ReadApprove(s, r) \/ ReadExport(s, r)
                  \/ ReadVerification(s, r) \/ ReadAccept(s, r) \/ ReadTranslation(s, r)
             \/ \E r \in Evaluated : ReadChecklist(s, r)
      PROVE  IInv'
  <2>1. OpensWell(s)
    BY <1>1, ReadCreateOpens, ReadUpdateDraftOpens, ReadApproveOpens, ReadExportOpens,
       ReadVerificationOpens, ReadAcceptOpens, ReadTranslationOpens, ReadChecklistOpens
    DEF IInv
  <2> QED BY <2>1, ReadKeeps
<1>2. ASSUME NEW s \in Sessions, CommitCreate(s) PROVE IInv'
  BY <1>2, CreateKeeps
<1>3. ASSUME NEW s \in Sessions,
             \/ CommitUpdateDraft(s) \/ CommitApprove(s) \/ CommitExport(s)
             \/ CommitVerification(s) \/ CommitAccept(s) \/ CommitChecklist(s)
      PROVE  IInv'
  BY <1>3, EditKeeps, ApproveKeeps, ExportKeeps, VerificationKeeps, AcceptKeeps, ChecklistKeeps
<1>4. ASSUME NEW s \in Sessions, Abandon(s) PROVE IInv'
  BY <1>4, AbandonKeeps
<1>5. ASSUME NEW r \in Worked, SaveReturnValues(r) \/ SaveSemanticValidation(r)
      PROVE  IInv'
  BY <1>5, ReturnKeeps, SemanticKeeps
<1>8. ASSUME NEW s \in Sessions, CommitTranslation(s) PROVE IInv'
  BY <1>8, SemanticKeeps
<1>6. ASSUME NEW i \in DOMAIN Questions, UpdateChecklistQuestion(i) PROVE IInv'
  <2>1. active' \subseteq DOMAIN Questions
    BY <1>6 DEF UpdateChecklistQuestion, IInv, TypeOK
  <2> QED BY <1>6, <2>1, QuestionKeeps DEF UpdateChecklistQuestion
<1>7. CASE UNCHANGED vars
  <2>1. active' \subseteq DOMAIN Questions
    BY <1>7 DEF vars, IInv, TypeOK
  <2> QED BY <1>7, <2>1, QuestionKeeps DEF vars
<1> QED BY <1>1, <1>2, <1>3, <1>4, <1>5, <1>6, <1>7, <1>8 DEF Next

LEMMA Inductive == Spec => []IInv
<1> QED BY InitInv, NextInv, PTL DEF Spec

-----------------------------------------------------------------------------
(* Theorems. *)

\* Rows and open transactions keep their types through every handler of
\* /api/rewrite-requests.
THEOREM TypeCorrect == Spec => []TypeOK
<1>1. IInv => TypeOK
  BY DEF IInv
<1> QED BY <1>1, Inductive, PTL

\* Neither an edit nor the final merge launders a text: a draft whose lineage
\* counts as complete has no word an officer wrote over it, and shows every
\* placeholder until the merge (update and accept of /api/rewrite-requests).
THEOREM LineageSound == Spec => []LineageIsSound
<1>1. IInv => LineageIsSound
  BY DEF IInv
<1> QED BY <1>1, Inductive, PTL

\* What is exported, signed or merged is a draft an approval examined, and the
\* final text comes from the draft the petitioner verified, for every packet no
\* stale commit or second approval disturbed.
THEOREM ApprovedBeforeRelease == Spec => []OnlyApprovedIsReleased
<1>1. IInv => OnlyApprovedIsReleased
  BY DEF IInv, OrderlyPackets, Orderly, OnlyApprovedIsReleased
<1> QED BY <1>1, Inductive, PTL

\* Undisturbed packets have one latest draft, one active packet for a record
\* and one evaluation, though no index of the tables keeps them unique.
THEOREM RowsUnique == Spec => []RowsStayUnique
<1>1. IInv => RowsStayUnique
  BY DEF IInv, OrderlyPackets, Orderly, RowsStayUnique, VersionsCount, OneEvaluation
<1> QED BY <1>1, Inductive, PTL

\* A handler that commits on an accepted packet did read it before the acceptance
\* or approves it again: the commit is recorded as a disturbance.
LEMMA CommitsOnAccepted ==
  ASSUME IInv, NEW s \in Sessions, NEW r \in Requests, Created(r),
         request[r].status = "accepted",
         CommitUpdateDraft(s) \/ CommitApprove(s) \/ CommitExport(s) \/ CommitAccept(s),
         txn[s].r = r
  PROVE  r \in disturbed'
<1> DEFINE t == txn[s]
<1>1. t.op \in {"edit", "approve", "export", "accept"} /\ t.op \in PacketOps
  BY DEF CommitUpdateDraft, CommitApprove, CommitExport, CommitAccept, PacketOps
<1>2. t \in Txn
  BY DEF IInv, TypeOK
<1>3. SUFFICES ASSUME r \notin disturbed' PROVE FALSE
  OBVIOUS
<1>4. ~t.stale /\ r \notin disturbed
  BY <1>3 DEF CommitUpdateDraft, CommitApprove, CommitExport, CommitAccept, Commit
<1>5. Fresh(t)
  BY <1>1, <1>4, OpenPacket
<1>6. "accepted" \in FinalOrReplaced /\ "accepted" \in Locked /\ "accepted" \notin Releasable
  BY DEF FinalOrReplaced, Locked, Releasable
<1>7. CASE t.op \in {"edit", "accept"}
  BY <1>5, <1>6, <1>7 DEF Fresh
<1>8. CASE t.op = "export"
  <2>1. t.status \in Releasable
    BY <1>2, <1>8, TxnFields DEF ExportTxn
  <2> QED BY <1>5, <1>6, <1>8, <2>1 DEF Fresh
<1>9. CASE t.op = "approve"
  <2>1. CommitApprove(s)
    BY <1>9 DEF CommitUpdateDraft, CommitExport, CommitAccept
  <2> QED BY <1>3, <1>6, <2>1 DEF CommitApprove, Commit
<1> QED BY <1>1, <1>7, <1>8, <1>9

\* The property AcceptedIsFinal states of a step.
StaysAccepted ==
  \A r \in Requests \ disturbed' :
    Created(r) /\ request[r].status = "accepted" =>
      draft'[r] = draft[r] /\ request'[r].status = "accepted"

LEMMA StepStaysAccepted == IInv /\ [Next]_vars => StaysAccepted
<1> SUFFICES ASSUME IInv, [Next]_vars, NEW r \in Requests, r \notin disturbed',
                    Created(r), request[r].status = "accepted"
             PROVE  draft'[r] = draft[r] /\ request'[r].status = "accepted"
  BY DEF StaysAccepted
<1>0. request[r] \in RequestRow /\ request \in [Requests -> RequestRow \cup {None}]
      /\ draft \in [Requests -> Seq(DraftRow)]
  BY DEF IInv, TypeOK, Created
<1>1. ASSUME UNCHANGED <<request, draft>>
      PROVE  draft'[r] = draft[r] /\ request'[r].status = "accepted"
  BY <1>1
<1>2. ASSUME NEW s \in Sessions,
             \/ ReadCreate(s) \/ Abandon(s) \/ CommitChecklist(s)
             \/ \E q \in Worked :
                  \/ ReadUpdateDraft(s, q) \/ ReadApprove(s, q) \/ ReadExport(s, q)
                  \/ ReadVerification(s, q) \/ ReadAccept(s, q) \/ ReadTranslation(s, q)
             \/ \E q \in Evaluated : ReadChecklist(s, q)
      PROVE  UNCHANGED <<request, draft>>
  BY <1>2 DEF ReadCreate, Abandon, CommitChecklist, ReadUpdateDraft, ReadApprove, ReadExport,
              ReadVerification, ReadAccept, ReadTranslation, ReadChecklist, rows
<1>3. ASSUME NEW s \in Sessions, CommitCreate(s)
      PROVE  draft'[r] = draft[r] /\ request'[r].status = "accepted"
  <2>1. PICK q \in Requests :
          /\ ~Created(q)
          /\ \A p \in Requests \ {q} : request'[p] = request[p] /\ draft'[p] = draft[p]
    BY <1>0, <1>3 DEF CommitCreate
  <2> QED BY <2>1
<1>4. ASSUME NEW s \in Sessions,
             CommitUpdateDraft(s) \/ CommitApprove(s) \/ CommitExport(s) \/ CommitAccept(s)
      PROVE  draft'[r] = draft[r] /\ request'[r].status = "accepted"
  <2>1. txn[s].r # r
    BY <1>4, CommitsOnAccepted
  <2>2. CASE CommitUpdateDraft(s)
    BY <1>0, <2>1, <2>2 DEF CommitUpdateDraft
  <2>3. CASE CommitApprove(s)
    BY <1>0, <2>1, <2>3 DEF CommitApprove
  <2>4. CASE CommitExport(s)
    BY <1>0, <2>1, <2>4 DEF CommitExport
  <2>5. CASE CommitAccept(s)
    BY <1>0, <2>1, <2>5 DEF CommitAccept
  <2> QED BY <1>4, <2>2, <2>3, <2>4, <2>5
<1>5. ASSUME NEW s \in Sessions, CommitVerification(s)
      PROVE  draft'[r] = draft[r] /\ request'[r].status = "accepted"
  BY <1>0, <1>5 DEF CommitVerification, RequestRow
<1>6. ASSUME NEW q \in Worked, SaveReturnValues(q)
      PROVE  UNCHANGED <<request, draft>>
  BY <1>6 DEF SaveReturnValues
<1>7. ASSUME NEW q \in Worked, SaveSemanticValidation(q)
      PROVE  draft'[r] = draft[r] /\ request'[r].status = "accepted"
  <2>1. PICK status : request' = [request EXCEPT ![q].semantic = status]
    BY <1>7 DEF SaveSemanticValidation
  <2> QED BY <1>0, <1>7, <2>1 DEF RequestRow, SaveSemanticValidation
<1>10. ASSUME NEW s \in Sessions, CommitTranslation(s)
       PROVE  draft'[r] = draft[r] /\ request'[r].status = "accepted"
  <2>1. PICK status :
          request' = [request EXCEPT ![txn[s].r].semantic = status, ![txn[s].r].translated = TRUE]
    BY <1>10 DEF CommitTranslation
  <2> QED BY <1>0, <1>10, <2>1 DEF RequestRow, CommitTranslation
<1>8. ASSUME NEW i \in DOMAIN Questions, UpdateChecklistQuestion(i)
      PROVE  UNCHANGED <<request, draft>>
  BY <1>8 DEF UpdateChecklistQuestion, rows
<1>9. CASE UNCHANGED vars
  BY <1>1, <1>9 DEF vars, rows
<1> QED BY <1>1, <1>2, <1>3, <1>4, <1>5, <1>6, <1>7, <1>8, <1>9, <1>10 DEF Next

\* No step adds a draft to an accepted packet or moves its status, unless a
\* request that had read it before still wrote or it was approved again
\* (FINAL_OR_REPLACED_STATUSES).
THEOREM AcceptedStays == Spec => AcceptedIsFinal
<1>1. IInv /\ [Next]_vars => [StaysAccepted]_vars
  BY StepStaysAccepted
<1> QED BY <1>1, Inductive, PTL DEF Spec, AcceptedIsFinal, StaysAccepted

\* Of the findings of one gap exactly one stands, and none is graver.
LEMMA DedupeKeepsOne ==
  ASSUME parsed \in ParsedOutputs, NEW asked, NEW l \in Findings(asked)
  PROVE  \E f \in DedupeGapFindings(Findings(asked)) :
           /\ SameGap(l, f)
           /\ \A g \in DedupeGapFindings(Findings(asked)) : SameGap(l, g) => g = f
           /\ \A g \in Findings(asked) :
                SameGap(l, g) => Rank[f.severity] >= Rank[g.severity]
<1> DEFINE F == Findings(asked)
           About == {f \in F : SameGap(l, f)}
           OfRank(k) == {f \in About : Rank[f.severity] = k}
<1>0. \A f \in F : Rank[f.severity] \in 1..3 /\ f.order \in Nat
                  /\ f.source \in {"parser", "checklist"}
  BY FindingsAreTyped DEF Rank
<1>1. PICK k \in 1..3 : OfRank(k) # {} /\ \A j \in 1..3 : j > k => OfRank(j) = {}
  <2>1. l \in About /\ Rank[l.severity] \in 1..3
    BY <1>0 DEF SameGap
  <2>2. OfRank(1) # {} \/ OfRank(2) # {} \/ OfRank(3) # {}
    BY <2>1
  <2> HIDE DEF OfRank
  <2> QED BY <2>2
<1> DEFINE Of(source) == {f \in OfRank(k) : f.source = source}
           source == IF Of("parser") # {} THEN "parser" ELSE "checklist"
           orders == {f.order : f \in Of(source)}
<1>2. orders \in SUBSET Nat /\ orders # {}
  <2>1. Of(source) # {}
    BY <1>0, <1>1
  <2>2. \A f \in Of(source) : f.order \in Nat
    BY <1>0
  <2> HIDE DEF Of, source
  <2> QED BY <2>1, <2>2
<1>3. PICK n \in orders : \A m \in orders : n <= m
  BY <1>2, SmallestOf
<1>4. PICK f \in Of(source) : f.order = n
  BY <1>3
<1>5. f \in F /\ SameGap(l, f) /\ Rank[f.severity] = k /\ f.source = source
  BY <1>4
<1>6. ASSUME NEW g \in F \ {f}, SameGap(l, g)
      PROVE  /\ Rank[g.severity] <= Rank[f.severity]
             /\ \/ Rank[g.severity] < Rank[f.severity]
                \/ Rank[g.severity] = Rank[f.severity] /\ ComesFirst(f, g)
             /\ Rank[g.severity] = Rank[f.severity] => ~ComesFirst(g, f)
  <2>1. Rank[g.severity] \in 1..3 /\ Rank[g.severity] <= k
    <3>1. Rank[g.severity] \in 1..3 /\ g \in OfRank(Rank[g.severity])
      BY <1>0, <1>6
    <3> HIDE DEF OfRank
    <3> QED BY <1>1, <3>1
  <2>2. CASE Rank[g.severity] = k /\ g.source = source
    <3>1. g \in Of(source)
      BY <1>6, <2>2
    <3>2. g.order \in orders
      BY <3>1
    <3>3. f.order <= g.order
      BY <1>3, <1>4, <3>2
    <3>4. SameGap(f, g)
      BY <1>5, <1>6 DEF SameGap
    <3>5. f.order # g.order
      BY <1>5, <1>6, <2>2, <3>4, FindingsAreTyped
    <3>6. f.order < g.order /\ f.source = g.source /\ f.order \in Nat /\ g.order \in Nat
      BY <1>0, <1>5, <1>6, <2>2, <3>3, <3>5
    <3> QED BY <1>5, <2>2, <3>6 DEF ComesFirst
  <2>3. CASE Rank[g.severity] = k /\ g.source # source
    <3>1. g.source \in {"parser", "checklist"}
      BY <1>0, <1>6
    <3>2. g \in Of(g.source)
      BY <1>6, <2>3
    <3>3. source = "parser" /\ g.source = "checklist"
      BY <2>3, <3>1, <3>2
    <3> HIDE DEF source
    <3> QED BY <1>5, <2>3, <3>3 DEF ComesFirst
  <2> HIDE DEF source
  <2> QED BY <1>5, <2>1, <2>2, <2>3
<1>7. f \in DedupeGapFindings(F)
  <2>1. \A g \in F \ {f} : SameGap(f, g) => SameGap(l, g)
    BY <1>5 DEF SameGap
  <2> QED BY <1>5, <1>6, <2>1 DEF DedupeGapFindings
<1>8. ASSUME NEW g \in DedupeGapFindings(F), SameGap(l, g) PROVE g = f
  <2>1. SUFFICES ASSUME g # f PROVE FALSE
    OBVIOUS
  <2>2. g \in F \ {f} /\ SameGap(g, f)
    BY <1>5, <1>8, <2>1 DEF DedupeGapFindings, SameGap
  <2>3. \/ Rank[f.severity] < Rank[g.severity]
        \/ Rank[f.severity] = Rank[g.severity] /\ ComesFirst(g, f)
    BY <1>5, <2>1, <2>2 DEF DedupeGapFindings
  <2> QED BY <1>0, <1>5, <1>6, <1>8, <2>2, <2>3
<1>9. ASSUME NEW g \in F, SameGap(l, g) PROVE Rank[f.severity] >= Rank[g.severity]
  <2>1. CASE g = f
    BY <1>0, <2>1
  <2>2. CASE g # f
    BY <1>0, <1>5, <1>6, <1>9, <2>2
  <2> QED BY <2>1, <2>2
<1> HIDE DEF F
<1>10. \A g \in F : SameGap(l, g) => Rank[f.severity] >= Rank[g.severity]
  BY <1>9
<1>11. \A g \in DedupeGapFindings(F) : SameGap(l, g) => g = f
  BY <1>8
<1> QED BY <1>5, <1>7, <1>10, <1>11 DEF F

\* The property EveryGapHasOnePlaceholder states of a step.
GapsHavePlaceholders ==
  \A s \in Sessions, r \in Requests :
    txn[s].op = "create" /\ txn'[s] = Idle /\ ~Created(r) /\ Created(r)' =>
      \A f \in FindingsOf(parsed, txn[s].active) :
        LET found == {g \in FindingsOf(parsed, txn[s].active) : SameGap(f, g)} IN
        \E p \in Placeholders(r)' :
          /\ {q \in Placeholders(r)' : SameGap(f, q)} = {p}
          /\ \E g \in found : p.severity = g.severity
          /\ \A g \in found : Rank[p.severity] >= Rank[g.severity]

LEMMA StepCreatesPlaceholders == IInv /\ [Next]_vars => GapsHavePlaceholders
<1> SUFFICES ASSUME IInv, [Next]_vars, NEW s \in Sessions, NEW r \in Requests,
                    txn[s].op = "create", txn'[s] = Idle, ~Created(r), Created(r)',
                    NEW l \in Findings(txn[s].active)
             PROVE  LET found == {g \in Findings(txn[s].active) : SameGap(l, g)} IN
                    \E p \in Placeholders(r)' :
                      /\ {q \in Placeholders(r)' : SameGap(l, q)} = {p}
                      /\ \E g \in found : p.severity = g.severity
                      /\ \A g \in found : Rank[p.severity] >= Rank[g.severity]
  BY DEF GapsHavePlaceholders, Findings
<1> DEFINE asked == txn[s].active
<1>1. \E z \in Sessions : CommitCreate(z)
  <2>1. ASSUME NEW z \in Sessions, txn[z].op \in PacketOps,
               request'[r] # request[r] => txn[z].r = r
        PROVE  FALSE
    BY <2>1, OpenPacket DEF Created
  <2>2. request \in [Requests -> RequestRow \cup {None}] /\ request[r] = None
    BY DEF IInv, TypeOK, Created
  <2>3. request'[r] # request[r]
    BY DEF Created
  <2>4. ASSUME NEW z \in Sessions,
               \/ CommitUpdateDraft(z) \/ CommitApprove(z) \/ CommitExport(z)
               \/ CommitVerification(z) \/ CommitAccept(z) \/ CommitTranslation(z)
        PROVE  FALSE
    <3>2. CASE CommitUpdateDraft(z)
      BY <2>1, <2>2, <3>2 DEF CommitUpdateDraft, PacketOps
    <3>3. CASE CommitApprove(z)
      BY <2>1, <2>2, <3>3 DEF CommitApprove, PacketOps
    <3>4. CASE CommitExport(z)
      BY <2>1, <2>2, <3>4 DEF CommitExport, PacketOps
    <3>5. CASE CommitVerification(z)
      BY <2>1, <2>2, <3>5 DEF CommitVerification, PacketOps
    <3>6. CASE CommitAccept(z)
      BY <2>1, <2>2, <3>6 DEF CommitAccept, PacketOps
    <3>7. CASE CommitTranslation(z)
      BY <2>1, <2>2, <3>7 DEF CommitTranslation, PacketOps
    <3> QED BY <2>4, <3>2, <3>3, <3>4, <3>5, <3>6, <3>7
  <2>5. ASSUME NEW q \in Worked, SaveSemanticValidation(q) PROVE FALSE
    BY <2>2, <2>3, <2>5 DEF SaveSemanticValidation, Created
  <2>6. ASSUME UNCHANGED request PROVE FALSE
    BY <2>3, <2>6
  <2>7. ASSUME NEW z \in Sessions,
               \/ ReadCreate(z) \/ Abandon(z) \/ CommitChecklist(z)
               \/ \E q \in Worked :
                    \/ ReadUpdateDraft(z, q) \/ ReadApprove(z, q) \/ ReadExport(z, q)
                    \/ ReadVerification(z, q) \/ ReadAccept(z, q) \/ ReadTranslation(z, q)
               \/ \E q \in Evaluated : ReadChecklist(z, q)
        PROVE  UNCHANGED request
    BY <2>7 DEF ReadCreate, Abandon, CommitChecklist, ReadUpdateDraft, ReadApprove, ReadExport,
                ReadVerification, ReadAccept, ReadTranslation, ReadChecklist, rows
  <2>8. ASSUME NEW q \in Worked, SaveReturnValues(q) PROVE UNCHANGED request
    BY <2>8 DEF SaveReturnValues
  <2>9. ASSUME NEW i \in DOMAIN Questions, UpdateChecklistQuestion(i) PROVE UNCHANGED request
    BY <2>9 DEF UpdateChecklistQuestion, rows
  <2>10. UNCHANGED vars => UNCHANGED request
    BY DEF vars, rows
  <2> QED BY <2>4, <2>5, <2>6, <2>7, <2>8, <2>9, <2>10 DEF Next
<1>2. CommitCreate(s)
  <2>1. PICK z \in Sessions : CommitCreate(z)
    BY <1>1
  <2>2. txn' = After(z, txn[z].op, txn[z].r)
    BY <2>1 DEF CommitCreate, Commit
  <2>3. ASSUME z # s PROVE FALSE
    <3>1. Kept(txn[s], txn'[s])
      BY <2>2, <2>3, AfterKeeps DEF IInv, TypeOK
    <3> QED BY <3>1, IdleIsTxn DEF Kept
  <2> QED BY <2>1, <2>3
<1>3. Placeholders(r)' = NewTokens(asked)
  <2>1. PICK q, x :
          /\ q \in Requests
          /\ request' = [request EXCEPT ![q] = x]
          /\ values' = [values EXCEPT ![q] = [p \in NewTokens(asked) |-> "blank"]]
    BY <1>2 DEF CommitCreate, NewTokens, Evaluations
  <2>2. q = r
    BY <2>1 DEF Created, IInv, TypeOK
  <2> QED BY <2>1, <2>2 DEF Placeholders, IInv, TypeOK
<1>4. PICK f \in DedupeGapFindings(Findings(asked)) :
        /\ SameGap(l, f)
        /\ \A g \in DedupeGapFindings(Findings(asked)) : SameGap(l, g) => g = f
        /\ \A g \in Findings(asked) : SameGap(l, g) => Rank[f.severity] >= Rank[g.severity]
  BY DedupeKeepsOne DEF IInv, TypeOK
<1>5. NewTokens(asked) = {Token(g) : g \in DedupeGapFindings(Findings(asked))}
  BY DEF NewTokens, CreatePlaceholders, GapsOf, Findings, FindingsOf, Evaluations
<1>6. {q \in NewTokens(asked) : SameGap(l, q)} = {Token(f)}
  <2>1. \A g : SameGap(l, Token(g)) <=> SameGap(l, g)
    BY DEF Token, SameGap
  <2> QED BY <1>4, <1>5, <2>1
<1>7. /\ Token(f) \in NewTokens(asked) /\ Token(f).severity = f.severity
      /\ f \in Findings(asked)
  BY <1>5 DEF Token, DedupeGapFindings
<1> HIDE DEF asked
<1>8. /\ {q \in Placeholders(r)' : SameGap(l, q)} = {Token(f)}
      /\ Token(f) \in Placeholders(r)'
  BY <1>3, <1>6, <1>7
<1> QED BY <1>4, <1>7, <1>8 DEF asked

\* When a packet is created every gap that the parser and the questions the
\* request read found has exactly one placeholder, as grave as the gravest of
\* the findings that repeat it (_dedupe_gap_findings, create_placeholders).
THEOREM OnePlaceholderPerGap == Spec => EveryGapHasOnePlaceholder
<1>1. IInv /\ [Next]_vars => [GapsHavePlaceholders]_vars
  BY StepCreatesPlaceholders
<1> QED BY <1>1, Inductive, PTL DEF Spec, EveryGapHasOnePlaceholder, GapsHavePlaceholders
=============================================================================
