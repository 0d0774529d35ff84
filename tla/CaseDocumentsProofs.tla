------------------------ MODULE CaseDocumentsProofs ------------------------
(***************************************************************************)
(* Proofs about CaseDocuments, for any files, requests and bounds: types,  *)
(* the order of versions, and that versions can be read.                   *)
(***************************************************************************)
EXTENDS CaseDocuments, TLAPS

-----------------------------------------------------------------------------
\* What a transaction sees.

LEMMA SeenRows ==
  ASSUME NEW rows, NEW own, NEW superseded, IsTable(rows, Row),
         NEW seen, seen = Seen(rows, own, superseded)
  PROVE  /\ \A d : d \in DOMAIN seen <=> d \in DOMAIN rows \/ d \in DOMAIN own
         /\ \A d \in DOMAIN own : seen[d] = own[d]
         /\ \A d \in DOMAIN rows \ DOMAIN own :
              /\ seen[d] \in Row
              /\ seen[d].name = rows[d].name /\ seen[d].content = rows[d].content
              /\ seen[d].version = rows[d].version
              /\ seen[d].latest => rows[d].latest /\ d \notin superseded
              /\ rows[d].latest /\ d \notin superseded => seen[d].latest
<1>1. /\ \A d : d \in DOMAIN seen <=> d \in DOMAIN rows \/ d \in DOMAIN own
      /\ \A d \in DOMAIN own : seen[d] = own[d]
  BY DEF Seen
<1>2. ASSUME NEW d \in DOMAIN rows \ DOMAIN own
      PROVE  /\ seen[d] \in Row
             /\ seen[d].name = rows[d].name /\ seen[d].content = rows[d].content
             /\ seen[d].version = rows[d].version
             /\ seen[d].latest => rows[d].latest /\ d \notin superseded
             /\ rows[d].latest /\ d \notin superseded => seen[d].latest
  <2>1. rows[d] \in Row
    BY DEF IsTable
  <2>2. CASE d \in superseded
    <3>1. seen[d] = [rows[d] EXCEPT !.latest = FALSE]
      BY <2>2 DEF Seen
    <3> QED BY <2>1, <2>2, <3>1 DEF Row
  <2>3. CASE d \notin superseded
    <3>1. seen[d] = rows[d]
      BY <2>3 DEF Seen
    <3> QED BY <2>1, <2>3, <3>1
  <2> QED BY <2>2, <2>3
<1> QED BY <1>1, <1>2

LEMMA SeenIsTable ==
  ASSUME NEW rows, NEW own, NEW superseded, IsTable(rows, Row), IsTable(own, Row),
         NEW seen, seen = Seen(rows, own, superseded)
  PROVE  IsTable(seen, Row)
<1>1. /\ \A d : d \in DOMAIN seen <=> d \in DOMAIN rows \/ d \in DOMAIN own
      /\ \A d \in DOMAIN own : seen[d] = own[d]
      /\ \A d \in DOMAIN rows \ DOMAIN own : seen[d] \in Row
  BY SeenRows
<1>2. DOMAIN seen \subseteq Ids /\ \A d \in DOMAIN seen : seen[d] \in Row
  BY <1>1 DEF IsTable
<1>3. seen = [d \in DOMAIN seen |-> seen[d]]
  BY DEF Seen
<1> QED BY <1>2, <1>3 DEF IsTable

-----------------------------------------------------------------------------
\* Types, and ids: an id is issued once, locks are on committed rows, and what a purge
\* is to delete is superseded for good.

OwnIds(p) == IF Uploading(p) THEN DOMAIN reqs[p].own ELSE {}

Versioning(p) == reqs[p].pc \in {"put", "insert"}

IdsAreOnce ==
  /\ \A d \in DOMAIN docs : d <= issued /\ docs[d].version <= d
  /\ \A p \in Requests : \A d \in OwnIds(p) :
       d <= issued /\ d \notin DOMAIN docs /\ reqs[p].own[d].version <= d
  /\ \A p, q \in Requests : p # q => OwnIds(p) \cap OwnIds(q) = {}

LocksAreOnRows ==
  /\ \A p \in Requests : reqs[p].locks \subseteq DOMAIN docs
  /\ \A p, q \in Requests : p # q => reqs[p].locks \cap reqs[q].locks = {}

PurgesTakeOld ==
  \A p \in Requests :
    /\ reqs[p].pc = "delete" => \A d \in DOMAIN reqs[p].old :
         /\ d <= issued /\ \A q \in Requests : d \notin OwnIds(q)
         /\ d \in DOMAIN docs => ~docs[d].latest
    /\ reqs[p].pc = "deleted" => \A d \in reqs[p].locks : ~docs[d].latest

ReadsAreOld ==
  \A p \in Requests : Versioning(p) =>
    /\ reqs[p].version <= issued + 1
    /\ \A d \in reqs[p].previous : d <= issued /\ \A q \in Requests \ {p} : d \notin OwnIds(q)

IdInv == IdsAreOnce /\ LocksAreOnRows /\ PurgesTakeOld /\ ReadsAreOld

IsPlace(x) == x = Idle \/ IsUpload(x) \/ IsPurge(x)

LEMMA GotoPlace ==
  ASSUME TypeOK, NEW p \in Requests, NEW x, Goto(p, x)
  PROVE  /\ DOMAIN reqs' = Requests
         /\ reqs'[p] = x /\ \A q \in Requests \ {p} : reqs'[q] = reqs[q]
         /\ IsPlace(x) => \A q \in Requests : IsPlace(reqs[q])'
<1>1. /\ DOMAIN reqs' = Requests
      /\ reqs'[p] = x /\ \A q \in Requests \ {p} : reqs'[q] = reqs[q]
  BY DEF Goto, TypeOK
<1>2. IsPlace(x) => \A q \in Requests : IsPlace(reqs'[q])
  BY <1>1 DEF TypeOK, IsPlace
<1> QED BY <1>1, <1>2

\* The places a request can be in are told apart by their pc.
LEMMA Places ==
  ASSUME TypeOK, NEW p \in Requests
  PROVE  /\ reqs[p].pc = "idle" <=> reqs[p] = Idle
         /\ Uploading(p) <=> IsUpload(reqs[p])
         /\ reqs[p].pc \in {"delete", "deleted"} <=> IsPurge(reqs[p])
<1>1. IsPlace(reqs[p])
  BY DEF TypeOK, IsPlace
<1> QED BY <1>1 DEF IsPlace, Idle, IsUpload, IsPurge, Uploading

LEMMA IdleIsPlace == IsPlace(Idle) /\ Idle.pc = "idle" /\ Idle.locks = {}
BY DEF IsPlace, Idle

LEMMA BoundedSeqIsSeq ==
  ASSUME NEW S, NEW n \in Nat, NEW s \in BoundedSeq(S, n)
  PROVE  s \in Seq(S)
BY DEF BoundedSeq, SeqOf

LEMMA EmptyIsTable == IsTable(<<>>, Row) /\ DOMAIN <<>> = {}
BY DEF IsTable

-----------------------------------------------------------------------------
\* Where each step of a request leads.

\* Row d was inserted from place old to place x, after superseding the previous one.
Inserted(old, x, d) ==
  /\ x.pc \in {"read", "commit"}
  /\ \A e : e \in DOMAIN x.own <=> e \in DOMAIN old.own \/ e = d
  /\ x.own[d].name = old.files[1].name /\ x.own[d].content = old.files[1].content
  /\ x.own[d].version = old.version /\ x.own[d].latest
  /\ \A e \in DOMAIN old.own : e # d =>
       /\ x.own[e].name = old.own[e].name /\ x.own[e].content = old.own[e].content
       /\ x.own[e].version = old.own[e].version
       /\ x.own[e].latest => old.own[e].latest /\ e \notin old.previous
       /\ old.own[e].latest /\ e \notin old.previous => x.own[e].latest
  /\ x.locks = old.locks \cup (old.previous \ DOMAIN old.own)

LEMMA FirstFile ==
  ASSUME TypeOK, NEW p \in Requests, reqs[p].pc \in {"read", "put", "insert"}
  PROVE  /\ IsUpload(reqs[p]) /\ reqs[p].files \in Seq(Files) /\ reqs[p].files # <<>>
         /\ reqs[p].files[1] \in Files
         /\ reqs[p].files[1].name \in Names /\ reqs[p].files[1].content \in Contents
<1>1. IsUpload(reqs[p])
  BY Places DEF Uploading
<1>2. reqs[p].files \in Seq(Files) /\ reqs[p].files # <<>>
  BY <1>1 DEF IsUpload
<1>3. reqs[p].files[1] \in Files
  BY <1>2
<1> QED BY <1>1, <1>2, <1>3 DEF Files

LEMMA InsertMakes ==
  ASSUME TypeOK, ReadsAreOld, NEW p \in Requests, Insert(p),
         \A d \in OwnIds(p) : d <= issued
  PROVE  \E x : Goto(p, x) /\ IsUpload(x) /\ Inserted(reqs[p], x, issued + 1)
<1>1. reqs[p].pc = "insert" /\ issued < MaxDocuments
  BY DEF Insert
<1>2. PICK old : old = reqs[p]
  OBVIOUS
<1>3. /\ IsUpload(old) /\ old.files \in Seq(Files) /\ old.files # <<>>
      /\ old.files[1].name \in Names /\ old.files[1].content \in Contents
  BY <1>1, <1>2, FirstFile
<1>4. /\ IsTable(old.own, Row) /\ old.locks \subseteq Ids /\ old.previous \subseteq Ids
      /\ old.version \in 1..(MaxDocuments + 1)
  BY <1>1, <1>2, <1>3 DEF IsUpload
<1>5. old.version <= issued + 1
  BY <1>1, <1>2 DEF ReadsAreOld, Versioning
<1> DEFINE n == issued + 1
           row == [name |-> old.files[1].name, content |-> old.files[1].content,
                   version |-> old.version, latest |-> TRUE, cited |-> FALSE]
           own == [d \in DOMAIN old.own \cup {n} |->
                    IF d = n THEN row
                    ELSE IF d \in old.previous THEN [old.own[d] EXCEPT !.latest = FALSE]
                    ELSE old.own[d]]
           files == Tail(old.files)
           x == [pc |-> IF files = <<>> THEN "commit" ELSE "read", files |-> files,
                 own |-> own, locks |-> old.locks \cup (old.previous \ DOMAIN old.own)]
<1>6. issued' = n
  BY DEF Insert
<1>7. Goto(p, x)
  BY <1>2, <1>6 DEF Insert
<1>8. n \in Ids /\ row \in Row
  BY <1>1, <1>3, <1>4, <1>5, DocumentsAssumption DEF TypeOK, Ids, Row
<1>9. n \notin DOMAIN old.own
  <2>1. Uploading(p)
    BY <1>1 DEF Uploading
  <2>2. issued \in Int /\ \A d \in DOMAIN old.own : d <= issued
    BY <1>2, <2>1 DEF OwnIds, TypeOK
  <2> QED BY <2>2
<1>10. /\ own[n] = row
       /\ \A d \in DOMAIN old.own :
            /\ own[d] \in Row
            /\ own[d].name = old.own[d].name /\ own[d].content = old.own[d].content
            /\ own[d].version = old.own[d].version
            /\ own[d].latest => old.own[d].latest /\ d \notin old.previous
            /\ old.own[d].latest /\ d \notin old.previous => own[d].latest
  <2>1. own[n] = row
    OBVIOUS
  <2>2. ASSUME NEW d \in DOMAIN old.own
        PROVE  /\ own[d] \in Row
               /\ own[d].name = old.own[d].name /\ own[d].content = old.own[d].content
               /\ own[d].version = old.own[d].version
               /\ own[d].latest => old.own[d].latest /\ d \notin old.previous
               /\ old.own[d].latest /\ d \notin old.previous => own[d].latest
    <3>1. old.own[d] \in Row /\ d # n
      BY <1>4, <1>9 DEF IsTable
    <3>2. CASE d \in old.previous
      <4>1. own[d] = [old.own[d] EXCEPT !.latest = FALSE]
        BY <3>1, <3>2
      <4> HIDE DEF own
      <4> QED BY <3>1, <3>2, <4>1 DEF Row
    <3>3. CASE d \notin old.previous
      <4>1. own[d] = old.own[d]
        BY <3>1, <3>3
      <4> HIDE DEF own
      <4> QED BY <3>1, <3>3, <4>1
    <3> QED BY <3>2, <3>3
  <2> QED BY <2>1, <2>2
<1>11. IsTable(own, Row)
  <2>1. \A d \in DOMAIN old.own \cup {n} : own[d] \in Row
    BY <1>8, <1>10
  <2>2. DOMAIN own = DOMAIN old.own \cup {n} /\ own = [d \in DOMAIN own |-> own[d]]
    OBVIOUS
  <2> HIDE DEF own
  <2> QED BY <1>4, <1>8, <2>1, <2>2 DEF IsTable
<1>12. DOMAIN own = DOMAIN old.own \cup {n}
  OBVIOUS
<1>13. files \in Seq(Files)
  BY <1>3
<1> HIDE DEF own, files
<1>14. IsUpload(x)
  BY <1>4, <1>11, <1>13 DEF IsUpload
<1>15. Inserted(old, x, n)
  BY <1>10, <1>12 DEF Inserted
<1> HIDE DEF x
<1> QED BY <1>2, <1>7, <1>14, <1>15

\* The previous version is the one the upload sees as the latest, if any.
Reads(old, x, view) ==
  /\ x.pc = "put" /\ x.files = old.files /\ x.own = old.own /\ x.locks = old.locks
  /\ \/ x.previous = {} /\ x.version = 1 /\ LatestOf(view, old.files[1].name) = {}
     \/ \E d \in LatestOf(view, old.files[1].name) :
          x.previous = {d} /\ x.version = view[d].version + 1

LEMMA ViewIsTable ==
  ASSUME TypeOK, NEW p \in Requests, IsUpload(reqs[p])
  PROVE  IsTable(View(p), Row)
BY SeenIsTable DEF View, TypeOK, IsUpload

LEMMA ReadMakes ==
  ASSUME TypeOK, NEW p \in Requests, ReadLatest(p)
  PROVE  \E x : Goto(p, x) /\ IsUpload(x) /\ Reads(reqs[p], x, View(p))
<1>1. reqs[p].pc = "read"
  BY DEF ReadLatest
<1>2. PICK old : old = reqs[p]
  OBVIOUS
<1>3. PICK view : view = View(p)
  OBVIOUS
<1>4. IsUpload(old) /\ old.files \in Seq(Files) /\ old.files # <<>> /\ IsTable(view, Row)
  BY <1>1, <1>2, <1>3, FirstFile, ViewIsTable
<1>5. IsTable(old.own, Row) /\ old.locks \subseteq Ids
  BY <1>1, <1>4 DEF IsUpload
<1>6. ASSUME NEW previous \in SUBSET Ids, NEW version \in 1..(MaxDocuments + 1)
      PROVE  LET x == Following(p, previous, version) IN
             /\ IsUpload(x) /\ x.previous = previous /\ x.version = version
             /\ x.pc = "put" /\ x.files = old.files /\ x.own = old.own /\ x.locks = old.locks
  BY <1>2, <1>4, <1>5 DEF Following, IsUpload
<1>7. CASE LatestOf(view, old.files[1].name) = {} /\ Goto(p, Following(p, {}, 1))
  <2>1. 1 \in 1..(MaxDocuments + 1) /\ {} \in SUBSET Ids
    BY DocumentsAssumption
  <2>2. Reads(old, Following(p, {}, 1), view) /\ IsUpload(Following(p, {}, 1))
    BY <1>6, <1>7, <2>1 DEF Reads
  <2> QED BY <1>2, <1>3, <1>7, <2>2
<1>8. ASSUME NEW d \in LatestOf(view, old.files[1].name),
             Goto(p, Following(p, {d}, view[d].version + 1))
      PROVE  \E x : Goto(p, x) /\ IsUpload(x) /\ Reads(reqs[p], x, View(p))
  <2>1. d \in Ids /\ view[d] \in Row
    BY <1>4 DEF IsTable, LatestOf
  <2>2. {d} \in SUBSET Ids /\ view[d].version + 1 \in 1..(MaxDocuments + 1)
    BY <2>1, DocumentsAssumption DEF Row, Ids
  <2>3. PICK v \in 1..(MaxDocuments + 1) : v = view[d].version + 1
    BY <2>2
  <2>4. PICK x : x = Following(p, {d}, v)
    OBVIOUS
  <2>5. Reads(old, x, view) /\ IsUpload(x)
    BY <1>6, <1>8, <2>2, <2>3, <2>4 DEF Reads
  <2> QED BY <1>2, <1>3, <1>8, <2>3, <2>4, <2>5
<1>9. \/ LatestOf(view, old.files[1].name) = {} /\ Goto(p, Following(p, {}, 1))
      \/ \E d \in LatestOf(view, old.files[1].name) :
           Goto(p, Following(p, {d}, view[d].version + 1))
  BY <1>2, <1>3 DEF ReadLatest
<1> QED BY <1>7, <1>8, <1>9

LEMMA BeginMakes ==
  ASSUME TypeOK, NEW p \in Requests, BeginUpload(p)
  PROVE  \E x : /\ Goto(p, x) /\ IsUpload(x)
                /\ x.pc = "read" /\ x.own = <<>> /\ x.locks = {}
<1>1. PICK files \in BoundedSeq(Files, MaxFiles) \ {<<>>} :
        Goto(p, [pc |-> "read", files |-> files, own |-> <<>>, locks |-> {}])
  BY DEF BeginUpload
<1>2. files \in Seq(Files)
  BY BoundedSeqIsSeq, DocumentsAssumption
<1>3. PICK x : x = [pc |-> "read", files |-> files, own |-> <<>>, locks |-> {}]
  OBVIOUS
<1>4. IsUpload(x) /\ x.pc = "read" /\ x.own = <<>> /\ x.locks = {}
  BY <1>1, <1>2, <1>3, EmptyIsTable DEF IsUpload
<1> QED BY <1>1, <1>3, <1>4

LEMMA PutMakes ==
  ASSUME TypeOK, NEW p \in Requests, Put(p)
  PROVE  \E x : /\ Goto(p, x) /\ IsUpload(x)
                /\ x.pc = "insert" /\ x.files = reqs[p].files
                /\ x.own = reqs[p].own /\ x.locks = reqs[p].locks
                /\ x.previous = reqs[p].previous /\ x.version = reqs[p].version
<1>1. reqs[p].pc = "put"
  BY DEF Put
<1>2. PICK x : x = [reqs[p] EXCEPT !.pc = "insert"]
  OBVIOUS
<1>3. IsUpload(reqs[p])
  BY <1>1, FirstFile
<1>4. /\ x.pc = "insert" /\ x.files = reqs[p].files
      /\ x.own = reqs[p].own /\ x.locks = reqs[p].locks
      /\ x.previous = reqs[p].previous /\ x.version = reqs[p].version
  BY <1>1, <1>2, <1>3 DEF IsUpload
<1>5. IsUpload(x)
  BY <1>1, <1>2, <1>3, <1>4 DEF IsUpload
<1> QED BY <1>2, <1>4, <1>5 DEF Put

LEMMA PurgeMakes ==
  ASSUME TypeOK, NEW p \in Requests, BeginPurge(p) \/ DeleteBlob(p) \/ DeleteRows(p)
  PROVE  \E x : /\ Goto(p, x) /\ IsPurge(x)
                /\ \/ x.pc = "delete" /\ x.locks = {} /\ DOMAIN x.old = Superseded
                   \/ /\ x.pc = "delete" /\ x.locks = {}
                      /\ reqs[p].pc = "delete" /\ x.old = reqs[p].old
                   \/ /\ x.pc = "deleted" /\ reqs[p].pc = "delete"
                      /\ x.locks = DOMAIN reqs[p].old \cap DOMAIN docs
                      /\ x.locks \cap LockedByOthers(p) = {}
<1>1. CASE BeginPurge(p)
  <2>1. PICK old : old = [d \in Superseded |-> Key(docs[d])]
    OBVIOUS
  <2>2. PICK x : x = [pc |-> "delete", old |-> old, left |-> Superseded, locks |-> {}]
    OBVIOUS
  <2>3. \A d \in Superseded : Key(docs[d]) \in Keys /\ d \in Ids
    BY DEF Superseded, Key, Keys, TypeOK, IsTable, Row
  <2>4. IsTable(old, Keys) /\ DOMAIN old = Superseded
    BY <2>1, <2>3 DEF IsTable
  <2>5. IsPurge(x) /\ x.pc = "delete" /\ x.locks = {} /\ x.old = old
    BY <2>2, <2>4 DEF IsPurge
  <2> QED BY <1>1, <2>1, <2>2, <2>4, <2>5 DEF BeginPurge
<1>2. CASE DeleteBlob(p)
  <2>1. PICK d \in reqs[p].left : Goto(p, [reqs[p] EXCEPT !.left = @ \ {d}])
    BY <1>2 DEF DeleteBlob
  <2>2. PICK x : x = [reqs[p] EXCEPT !.left = reqs[p].left \ {d}]
    OBVIOUS
  <2>3. reqs[p].pc = "delete" /\ IsPurge(reqs[p])
    BY <1>2, Places DEF DeleteBlob
  <2>4. x.pc = "delete" /\ x.locks = {} /\ x.old = reqs[p].old /\ IsPurge(x)
    BY <2>2, <2>3 DEF IsPurge
  <2> QED BY <2>1, <2>2, <2>3, <2>4
<1>3. CASE DeleteRows(p)
  <2>1. PICK rows : rows = DOMAIN reqs[p].old \cap DOMAIN docs
    OBVIOUS
  <2>2. PICK x : x = [pc |-> "deleted", locks |-> rows]
    OBVIOUS
  <2>3. IsPurge(x) /\ x.pc = "deleted" /\ x.locks = rows
    BY <2>1, <2>2 DEF IsPurge, TypeOK, IsTable
  <2> QED BY <1>3, <2>1, <2>2, <2>3 DEF DeleteRows
<1> QED BY <1>1, <1>2, <1>3

-----------------------------------------------------------------------------
\* The commits.

LEMMA CommitUploadMakes ==
  ASSUME TypeOK, IdInv, NEW p \in Requests, CommitUpload(p)
  PROVE  /\ Goto(p, Idle) /\ IsUpload(reqs[p]) /\ Uploading(p)
         /\ IsTable(docs', Row)
         /\ \A d : d \in DOMAIN docs' <=> d \in DOMAIN docs \/ d \in DOMAIN reqs[p].own
         /\ \A d \in DOMAIN reqs[p].own : docs'[d] = reqs[p].own[d]
         /\ \A d \in DOMAIN docs :
              /\ docs'[d] \in Row
              /\ docs'[d].name = docs[d].name /\ docs'[d].content = docs[d].content
              /\ docs'[d].version = docs[d].version
              /\ docs'[d].latest => docs[d].latest /\ d \notin reqs[p].locks
              /\ docs[d].latest /\ d \notin reqs[p].locks => docs'[d].latest
<1>1. Uploading(p) /\ IsUpload(reqs[p])
  BY Places DEF CommitUpload, Uploading
<1>2. docs' = Seen(docs, reqs[p].own, reqs[p].locks) /\ IsTable(docs, Row) /\ IsTable(reqs[p].own, Row)
  BY <1>1 DEF CommitUpload, View, TypeOK, IsUpload
<1>3. \A d \in DOMAIN docs : d \notin DOMAIN reqs[p].own
  BY <1>1 DEF IdInv, IdsAreOnce, OwnIds
<1>4. IsTable(docs', Row)
  BY <1>2, SeenIsTable
<1>5. PICK rows, own, locks, seen :
        rows = docs /\ own = reqs[p].own /\ locks = reqs[p].locks /\ seen = docs'
  OBVIOUS
<1>6. /\ \A d : d \in DOMAIN seen <=> d \in DOMAIN rows \/ d \in DOMAIN own
      /\ \A d \in DOMAIN own : seen[d] = own[d]
      /\ \A d \in DOMAIN rows \ DOMAIN own :
           /\ seen[d] \in Row
           /\ seen[d].name = rows[d].name /\ seen[d].content = rows[d].content
           /\ seen[d].version = rows[d].version
           /\ seen[d].latest => rows[d].latest /\ d \notin locks
           /\ rows[d].latest /\ d \notin locks => seen[d].latest
  BY <1>2, <1>5, SeenRows
<1> QED BY <1>1, <1>3, <1>4, <1>5, <1>6 DEF CommitUpload

LEMMA CommitPurgeMakes ==
  ASSUME TypeOK, NEW p \in Requests, CommitPurge(p)
  PROVE  /\ Goto(p, Idle) /\ reqs[p].pc = "deleted"
         /\ IsTable(docs', Row)
         /\ \A d : d \in DOMAIN docs' <=> d \in DOMAIN docs /\ d \notin reqs[p].locks
         /\ \A d \in DOMAIN docs' : docs'[d] = docs[d]
<1>1. docs' = [d \in DOMAIN docs \ reqs[p].locks |-> docs[d]]
  BY DEF CommitPurge
<1>2. \A d \in DOMAIN docs' : docs'[d] = docs[d] /\ d \in DOMAIN docs /\ d \notin reqs[p].locks
  BY <1>1
<1>3. IsTable(docs', Row)
  BY <1>1 DEF TypeOK, IsTable
<1> QED BY <1>1, <1>2, <1>3 DEF CommitPurge

LEMMA CiteMakes ==
  ASSUME TypeOK, NEW c \in DOMAIN docs, Cite(c)
  PROVE  /\ IsTable(docs', Row) /\ DOMAIN docs' = DOMAIN docs
         /\ \A d \in DOMAIN docs :
              /\ docs'[d].name = docs[d].name /\ docs'[d].content = docs[d].content
              /\ docs'[d].version = docs[d].version
              /\ docs'[d].latest => docs[d].latest
              /\ docs[d].latest => docs'[d].latest
<1>1. docs' = [docs EXCEPT ![c] = [docs[c] EXCEPT !.cited = TRUE]]
  BY DEF Cite
<1>2. \A d \in DOMAIN docs : docs[d] \in Row
  BY DEF TypeOK, IsTable
<1>3. PICK row : row = [docs[c] EXCEPT !.cited = TRUE]
  OBVIOUS
<1>4. /\ row \in Row /\ row.name = docs[c].name /\ row.content = docs[c].content
      /\ row.version = docs[c].version /\ row.latest = docs[c].latest
  BY <1>2, <1>3 DEF Row
<1>5. DOMAIN docs' = DOMAIN docs /\ \A d \in DOMAIN docs : docs'[d] = IF d = c THEN row ELSE docs[d]
  BY <1>1, <1>3
<1>6. IsTable(docs', Row)
  BY <1>1, <1>2, <1>3, <1>4 DEF TypeOK, IsTable
<1> QED BY <1>4, <1>5, <1>6

-----------------------------------------------------------------------------
\* Type correctness.

LEMMA NextTypes ==
  ASSUME TypeOK, IdInv, [Next]_vars
  PROVE  TypeOK'
<1> USE DEF IsPlace
<1>1. ASSUME NEW p \in Requests, NEW x, Goto(p, x), IsPlace(x)
      PROVE  DOMAIN reqs' = Requests /\ \A q \in Requests : IsPlace(reqs'[q])
  BY <1>1, GotoPlace
<1>2. ASSUME NEW p \in Requests, BeginUpload(p) PROVE TypeOK'
  <2>1. DOMAIN reqs' = Requests /\ \A q \in Requests : IsPlace(reqs'[q])
    BY <1>1, <1>2, BeginMakes
  <2>2. begun' \in 0..MaxRequests
    BY <1>2, DocumentsAssumption DEF BeginUpload, Begin, TypeOK
  <2> QED BY <1>2, <2>1, <2>2 DEF BeginUpload, TypeOK
<1>3. ASSUME NEW p \in Requests, ReadLatest(p) PROVE TypeOK'
  <2>1. DOMAIN reqs' = Requests /\ \A q \in Requests : IsPlace(reqs'[q])
    BY <1>1, <1>3, ReadMakes
  <2>2. reqs[p].files[1].name \in Names
    BY <1>3, FirstFile DEF ReadLatest
  <2>3. shaken' \subseteq Names
    BY <1>3, <2>2 DEF ReadLatest, Shaken, TypeOK
  <2> QED BY <1>3, <2>1, <2>3 DEF ReadLatest, TypeOK
<1>4. ASSUME NEW p \in Requests, Put(p) PROVE TypeOK'
  <2>1. DOMAIN reqs' = Requests /\ \A q \in Requests : IsPlace(reqs'[q])
    BY <1>1, <1>4, PutMakes
  <2>2. Key(reqs[p].files[1]) \in Keys
    BY <1>4, FirstFile DEF Put, Key, Keys
  <2> QED BY <1>4, <2>1, <2>2 DEF Put, TypeOK
<1>5. ASSUME NEW p \in Requests, Insert(p) PROVE TypeOK'
  <2>1. \A d \in OwnIds(p) : d <= issued
    BY DEF IdInv, IdsAreOnce
  <2>2. DOMAIN reqs' = Requests /\ \A q \in Requests : IsPlace(reqs'[q])
    BY <1>1, <1>5, <2>1, InsertMakes DEF IdInv
  <2> QED BY <1>5, <2>2, DocumentsAssumption DEF Insert, TypeOK
<1>6. ASSUME NEW p \in Requests, CommitUpload(p) PROVE TypeOK'
  BY <1>1, <1>6, CommitUploadMakes DEF CommitUpload, TypeOK
<1>7. ASSUME NEW p \in Requests, BeginPurge(p) PROVE TypeOK'
  <2>1. DOMAIN reqs' = Requests /\ \A q \in Requests : IsPlace(reqs'[q])
    BY <1>1, <1>7, PurgeMakes
  <2>2. begun' \in 0..MaxRequests
    BY <1>7, DocumentsAssumption DEF BeginPurge, Begin, TypeOK
  <2> QED BY <1>7, <2>1, <2>2 DEF BeginPurge, TypeOK
<1>8. ASSUME NEW p \in Requests, DeleteBlob(p) PROVE TypeOK'
  <2>1. DOMAIN reqs' = Requests /\ \A q \in Requests : IsPlace(reqs'[q])
    BY <1>1, <1>8, PurgeMakes
  <2>2. IsPurge(reqs[p]) /\ reqs[p].pc = "delete"
    BY <1>8, Places DEF DeleteBlob
  <2>3. \A d \in reqs[p].left : reqs[p].old[d] \in Keys
    BY <2>2 DEF IsPurge, IsTable
  <2> QED BY <1>8, <2>1, <2>3 DEF DeleteBlob, TypeOK
<1>9. ASSUME NEW p \in Requests, DeleteRows(p) PROVE TypeOK'
  BY <1>1, <1>9, PurgeMakes DEF DeleteRows, TypeOK
<1>10. ASSUME NEW p \in Requests, CommitPurge(p) PROVE TypeOK'
  BY <1>1, <1>10, CommitPurgeMakes DEF CommitPurge, TypeOK
<1>11. ASSUME NEW p \in Requests, Fail(p) PROVE TypeOK'
  BY <1>1, <1>11 DEF Fail, TypeOK
<1>12. ASSUME NEW c \in DOMAIN docs, Cite(c) PROVE TypeOK'
  BY <1>12, CiteMakes DEF Cite, TypeOK
<1>13. CASE UNCHANGED vars
  BY <1>13 DEF vars, TypeOK, IsTable
<1> QED BY <1>2, <1>3, <1>4, <1>5, <1>6, <1>7, <1>8, <1>9, <1>10, <1>11, <1>12, <1>13 DEF Next

-----------------------------------------------------------------------------
\* Ids and locks.

\* What the ids of the own rows are after p moved to x.
LEMMA OwnIdsAfter ==
  ASSUME TypeOK, NEW p \in Requests, NEW x, Goto(p, x)
  PROVE  /\ x.pc \in {"read", "put", "insert", "commit"} => OwnIds(p)' = DOMAIN x.own
         /\ x.pc \notin {"read", "put", "insert", "commit"} => OwnIds(p)' = {}
         /\ \A q \in Requests \ {p} : OwnIds(q)' = OwnIds(q)
<1>1. reqs'[p] = x /\ \A q \in Requests \ {p} : reqs'[q] = reqs[q]
  BY GotoPlace
<1> QED BY <1>1 DEF OwnIds, Uploading

\* A request that moves on without committing and without inserting.
LEMMA MoveKeepsIds ==
  ASSUME TypeOK, IdInv, NEW p \in Requests, NEW x, Goto(p, x), docs' = docs, issued' = issued,
         x.pc \in {"read", "put", "insert", "commit"} =>
           DOMAIN x.own = {} \/ (Uploading(p) /\ x.own = reqs[p].own),
         x.locks \subseteq DOMAIN docs, x.locks \cap LockedByOthers(p) = {},
         x.pc = "delete" =>
           DOMAIN x.old = Superseded \/ (reqs[p].pc = "delete" /\ x.old = reqs[p].old),
         x.pc = "deleted" => reqs[p].pc = "delete" /\ x.locks \subseteq DOMAIN reqs[p].old,
         x.pc \in {"put", "insert"} =>
           /\ x.version <= issued + 1
           /\ \A d \in x.previous : d <= issued /\ \A q \in Requests \ {p} : d \notin OwnIds(q)
  PROVE  IdInv'
<1>1. reqs'[p] = x /\ \A q \in Requests \ {p} : reqs'[q] = reqs[q]
  BY GotoPlace
<1>2. OwnIds(p)' \subseteq OwnIds(p) /\ \A q \in Requests \ {p} : OwnIds(q)' = OwnIds(q)
  BY OwnIdsAfter DEF OwnIds
<1>3. IdsAreOnce'
  <2>1. \A d \in OwnIds(p)' : reqs'[p].own[d] = reqs[p].own[d]
    BY <1>1, OwnIdsAfter
  <2>2. \A q \in Requests : OwnIds(q)' \subseteq OwnIds(q) /\ \A d \in OwnIds(q)' : reqs'[q].own[d] = reqs[q].own[d]
    BY <1>1, <1>2, <2>1
  <2>3. \A d \in DOMAIN docs' : d <= issued' /\ docs'[d].version <= d
    BY DEF IdInv, IdsAreOnce
  <2>4. \A q \in Requests : \A d \in OwnIds(q)' :
          d <= issued' /\ d \notin DOMAIN docs' /\ reqs'[q].own[d].version <= d
    BY <2>2 DEF IdInv, IdsAreOnce
  <2>5. \A q, r \in Requests : q # r => OwnIds(q)' \cap OwnIds(r)' = {}
    BY <2>2 DEF IdInv, IdsAreOnce
  <2> QED BY <2>3, <2>4, <2>5 DEF IdsAreOnce
<1>4. LocksAreOnRows'
  <2>1. \A q \in Requests \ {p} : x.locks \cap reqs[q].locks = {}
    BY DEF LockedByOthers
  <2> QED BY <1>1, <2>1 DEF IdInv, LocksAreOnRows
<1>5. PurgesTakeOld'
  <2>1. ASSUME NEW q \in Requests, reqs'[q].pc = "delete", NEW d \in DOMAIN reqs'[q].old
        PROVE  /\ d <= issued' /\ \A r \in Requests : d \notin OwnIds(r)'
               /\ d \in DOMAIN docs' => ~docs'[d].latest
    <3>1. CASE q = p /\ DOMAIN x.old = Superseded
      BY <1>1, <1>2, <2>1, <3>1 DEF IdInv, IdsAreOnce, Superseded
    <3>2. CASE reqs[q].pc = "delete" /\ reqs'[q].old = reqs[q].old
      BY <1>1, <1>2, <2>1, <3>2 DEF IdInv, PurgesTakeOld
    <3> QED BY <1>1, <2>1, <3>1, <3>2
  <2>2. ASSUME NEW q \in Requests, reqs'[q].pc = "deleted", NEW d \in reqs'[q].locks
        PROVE  ~docs'[d].latest
    <3>1. CASE q = p
      BY <1>1, <2>2, <3>1 DEF IdInv, PurgesTakeOld
    <3>2. CASE q # p
      BY <1>1, <2>2, <3>2 DEF IdInv, PurgesTakeOld
    <3> QED BY <3>1, <3>2
  <2> QED BY <2>1, <2>2 DEF PurgesTakeOld
<1>6. ReadsAreOld'
  BY <1>1, <1>2 DEF IdInv, ReadsAreOld, Versioning
<1> QED BY <1>3, <1>4, <1>5, <1>6 DEF IdInv

\* An id is issued once.
LEMMA InsertKeepsIds ==
  ASSUME TypeOK, IdInv, NEW p \in Requests, Insert(p)
  PROVE  IdInv'
<1>1. /\ reqs[p].pc = "insert" /\ issued' = issued + 1 /\ docs' = docs /\ issued \in Nat
      /\ reqs[p].previous \subseteq DOMAIN View(p)
      /\ reqs[p].previous \cap LockedByOthers(p) = {}
  BY DEF Insert, TypeOK
<1>2. Uploading(p) /\ OwnIds(p) = DOMAIN reqs[p].own /\ Versioning(p)
  BY <1>1 DEF OwnIds, Uploading, Versioning
<1>3. PICK x : Goto(p, x) /\ IsUpload(x) /\ Inserted(reqs[p], x, issued + 1)
  BY InsertMakes DEF IdInv, IdsAreOnce
<1>4. reqs'[p] = x /\ \A q \in Requests \ {p} : reqs'[q] = reqs[q]
  BY <1>3, GotoPlace
<1>5. /\ x.pc \in {"read", "commit"}
      /\ \A d : d \in DOMAIN x.own <=> d \in DOMAIN reqs[p].own \/ d = issued + 1
      /\ x.own[issued + 1].version = reqs[p].version
      /\ \A d \in DOMAIN reqs[p].own : d # issued + 1 => x.own[d].version = reqs[p].own[d].version
      /\ x.locks = reqs[p].locks \cup (reqs[p].previous \ DOMAIN reqs[p].own)
  BY <1>3 DEF Inserted
<1>6. /\ \A d : d \in OwnIds(p)' <=> d \in OwnIds(p) \/ d = issued + 1
      /\ \A q \in Requests \ {p} : OwnIds(q)' = OwnIds(q)
  BY <1>2, <1>3, <1>5, OwnIdsAfter
<1>7. reqs[p].previous \ DOMAIN reqs[p].own \subseteq DOMAIN docs
  <2>1. DOMAIN View(p) = DOMAIN docs \cup DOMAIN reqs[p].own
    BY DEF View, Seen
  <2> QED BY <1>1, <2>1
<1>8. \A q \in Requests : \A d \in OwnIds(q) : d <= issued /\ d \in Int
  BY <1>2, Places DEF IdInv, IdsAreOnce, OwnIds, IsUpload, IsTable, Ids
<1>9. \A d \in DOMAIN docs : d <= issued /\ d \in Int
  BY DEF IdInv, IdsAreOnce, TypeOK, IsTable, Ids
<1>10. IdsAreOnce'
  <2>1. \A d \in DOMAIN docs' : d <= issued' /\ docs'[d].version <= d
    BY <1>1, <1>9 DEF IdInv, IdsAreOnce
  <2>2. ASSUME NEW q \in Requests, NEW d \in OwnIds(q)'
        PROVE  d <= issued' /\ d \notin DOMAIN docs' /\ reqs'[q].own[d].version <= d
    <3>1. CASE q = p /\ d = issued + 1
      BY <1>1, <1>2, <1>4, <1>5, <1>9, <3>1 DEF IdInv, ReadsAreOld
    <3>2. CASE q = p /\ d \in OwnIds(p)
      <4>1. d # issued + 1
        BY <1>1, <1>8, <3>2
      <4>2. reqs'[q].own[d].version = reqs[q].own[d].version
        BY <1>2, <1>4, <1>5, <3>2, <4>1
      <4> QED BY <1>1, <1>8, <3>2, <4>2 DEF IdInv, IdsAreOnce
    <3>3. CASE q # p
      BY <1>1, <1>4, <1>6, <1>8, <2>2, <3>3 DEF IdInv, IdsAreOnce
    <3> QED BY <1>6, <2>2, <3>1, <3>2, <3>3
  <2>3. \A q, r \in Requests : q # r => OwnIds(q)' \cap OwnIds(r)' = {}
    <3>1. \A q \in Requests : issued + 1 \notin OwnIds(q)
      BY <1>1, <1>8
    <3> QED BY <1>6, <3>1 DEF IdInv, IdsAreOnce
  <2> QED BY <2>1, <2>2, <2>3 DEF IdsAreOnce
<1>11. LocksAreOnRows'
  <2>1. \A q \in Requests \ {p} : x.locks \cap reqs[q].locks = {}
    BY <1>1, <1>5 DEF LockedByOthers, IdInv, LocksAreOnRows
  <2>2. x.locks \subseteq DOMAIN docs
    BY <1>5, <1>7 DEF IdInv, LocksAreOnRows
  <2> QED BY <1>1, <1>4, <2>1, <2>2 DEF IdInv, LocksAreOnRows
<1>12. PurgesTakeOld'
  <2>1. ASSUME NEW q \in Requests, reqs'[q].pc = "delete", NEW d \in DOMAIN reqs'[q].old
        PROVE  /\ d <= issued' /\ \A r \in Requests : d \notin OwnIds(r)'
               /\ d \in DOMAIN docs' => ~docs'[d].latest
    <3>1. q # p /\ reqs'[q] = reqs[q]
      BY <1>4, <1>5, <2>1
    <3>2. /\ d <= issued /\ \A r \in Requests : d \notin OwnIds(r)
          /\ d \in DOMAIN docs => ~docs[d].latest
      BY <2>1, <3>1 DEF IdInv, PurgesTakeOld
    <3>3. d \in Int
      BY <2>1, <3>1, Places DEF IsPurge, IsTable, Ids
    <3> QED BY <1>1, <1>6, <3>2, <3>3
  <2>2. ASSUME NEW q \in Requests, reqs'[q].pc = "deleted", NEW d \in reqs'[q].locks
        PROVE  ~docs'[d].latest
    <3>1. q # p /\ reqs'[q] = reqs[q]
      BY <1>4, <1>5, <2>2
    <3> QED BY <1>1, <2>2, <3>1 DEF IdInv, PurgesTakeOld
  <2> QED BY <2>1, <2>2 DEF PurgesTakeOld
<1>13. ReadsAreOld'
  <2> SUFFICES ASSUME NEW q \in Requests, reqs'[q].pc \in {"put", "insert"}
               PROVE  /\ reqs'[q].version <= issued' + 1
                      /\ \A d \in reqs'[q].previous :
                           d <= issued' /\ \A r \in Requests \ {q} : d \notin OwnIds(r)'
    BY DEF ReadsAreOld, Versioning
  <2>1. q # p /\ reqs'[q] = reqs[q]
    BY <1>4, <1>5
  <2>2. IsUpload(reqs[q]) /\ reqs[q].version \in Int /\ reqs[q].previous \subseteq Int
    BY <2>1, Places DEF IsUpload, Uploading, Ids
  <2>3. /\ reqs[q].version <= issued + 1
        /\ \A d \in reqs[q].previous :
             d <= issued /\ \A r \in Requests \ {q} : d \notin OwnIds(r)
    BY <2>1 DEF IdInv, ReadsAreOld, Versioning
  <2>4. \A d \in reqs[q].previous : d # issued + 1
    BY <1>1, <2>2, <2>3
  <2> QED BY <1>1, <1>6, <2>1, <2>2, <2>3, <2>4
<1> QED BY <1>10, <1>11, <1>12, <1>13 DEF IdInv

\* A commit publishes the own rows of its request and deletes only rows it has locked.
LEMMA CommitKeepsIds ==
  ASSUME TypeOK, IdInv, NEW p \in Requests, Goto(p, Idle), issued' = issued,
         \A d \in DOMAIN docs' :
           \/ /\ d \in DOMAIN docs /\ docs'[d].version = docs[d].version
              /\ docs'[d].latest => docs[d].latest
           \/ d \in OwnIds(p) /\ docs'[d].version = reqs[p].own[d].version,
         \A d \in DOMAIN docs : d \in DOMAIN docs' \/ d \in reqs[p].locks
  PROVE  IdInv'
<1>1. reqs'[p] = Idle /\ \A q \in Requests \ {p} : reqs'[q] = reqs[q]
  BY GotoPlace
<1>2. OwnIds(p)' = {} /\ \A q \in Requests \ {p} : OwnIds(q)' = OwnIds(q)
  BY OwnIdsAfter, IdleIsPlace
<1>3. IdsAreOnce'
  <2>1. \A d \in DOMAIN docs' : d <= issued' /\ docs'[d].version <= d
    BY DEF IdInv, IdsAreOnce
  <2>2. \A q \in Requests : \A d \in OwnIds(q)' :
          d <= issued' /\ d \notin DOMAIN docs' /\ reqs'[q].own[d].version <= d
    BY <1>1, <1>2 DEF IdInv, IdsAreOnce
  <2>3. \A q, r \in Requests : q # r => OwnIds(q)' \cap OwnIds(r)' = {}
    BY <1>2 DEF IdInv, IdsAreOnce
  <2> QED BY <2>1, <2>2, <2>3 DEF IdsAreOnce
<1>4. LocksAreOnRows'
  <2>1. \A q \in Requests : reqs'[q].locks \subseteq DOMAIN docs'
    BY <1>1, IdleIsPlace DEF IdInv, LocksAreOnRows
  <2>2. \A q, r \in Requests : q # r => reqs'[q].locks \cap reqs'[r].locks = {}
    BY <1>1, IdleIsPlace DEF IdInv, LocksAreOnRows
  <2> QED BY <2>1, <2>2 DEF LocksAreOnRows
<1>5. PurgesTakeOld'
  <2>1. ASSUME NEW q \in Requests, reqs'[q].pc = "delete", NEW d \in DOMAIN reqs'[q].old
        PROVE  /\ d <= issued' /\ \A r \in Requests : d \notin OwnIds(r)'
               /\ d \in DOMAIN docs' => ~docs'[d].latest
    <3>1. q # p /\ reqs'[q] = reqs[q]
      BY <1>1, <2>1, IdleIsPlace
    <3> QED BY <1>2, <2>1, <3>1 DEF IdInv, PurgesTakeOld
  <2>2. ASSUME NEW q \in Requests, reqs'[q].pc = "deleted", NEW d \in reqs'[q].locks
        PROVE  ~docs'[d].latest
    <3>1. q # p /\ reqs'[q] = reqs[q]
      BY <1>1, <2>2, IdleIsPlace
    <3>2. d \in DOMAIN docs /\ ~docs[d].latest /\ d \in DOMAIN docs'
      BY <2>2, <3>1 DEF IdInv, PurgesTakeOld, LocksAreOnRows
    <3>3. d \notin OwnIds(p)
      BY <3>2 DEF IdInv, IdsAreOnce
    <3> QED BY <3>2, <3>3
  <2> QED BY <2>1, <2>2 DEF PurgesTakeOld
<1>6. ReadsAreOld'
  BY <1>1, <1>2, IdleIsPlace DEF IdInv, ReadsAreOld, Versioning
<1> QED BY <1>3, <1>4, <1>5, <1>6 DEF IdInv

LEMMA CiteKeepsIds ==
  ASSUME TypeOK, IdInv, NEW c \in DOMAIN docs, Cite(c)
  PROVE  IdInv'
<1>1. reqs' = reqs /\ issued' = issued /\ \A p \in Requests : OwnIds(p)' = OwnIds(p)
  BY DEF Cite, OwnIds, Uploading
<1>2. /\ DOMAIN docs' = DOMAIN docs
      /\ \A d \in DOMAIN docs : /\ docs'[d].version = docs[d].version
                                /\ docs'[d].latest => docs[d].latest
  BY CiteMakes
<1>3. IdsAreOnce'
  BY <1>1, <1>2 DEF IdInv, IdsAreOnce
<1>4. LocksAreOnRows'
  BY <1>1, <1>2 DEF IdInv, LocksAreOnRows
<1>5. PurgesTakeOld'
  BY <1>1, <1>2 DEF IdInv, PurgesTakeOld, LocksAreOnRows
<1>6. ReadsAreOld'
  BY <1>1 DEF IdInv, ReadsAreOld, Versioning
<1> QED BY <1>3, <1>4, <1>5, <1>6 DEF IdInv

\* What an upload sees when it reads: its own rows and committed ones.
LEMMA ReadKeepsIds ==
  ASSUME TypeOK, IdInv, NEW p \in Requests, ReadLatest(p)
  PROVE  IdInv'
<1>1. PICK x : Goto(p, x) /\ IsUpload(x) /\ Reads(reqs[p], x, View(p))
  BY ReadMakes
<1>2. Uploading(p) /\ docs' = docs /\ issued' = issued /\ issued \in Int
  BY DEF ReadLatest, Uploading, TypeOK
<1>3. IsUpload(reqs[p]) /\ IsTable(docs, Row)
  BY <1>2, Places DEF TypeOK
<1>4. PICK rows, own, locks, seen :
        rows = docs /\ own = reqs[p].own /\ locks = reqs[p].locks /\ seen = View(p)
  OBVIOUS
<1>5. /\ \A d : d \in DOMAIN seen <=> d \in DOMAIN rows \/ d \in DOMAIN own
      /\ \A d \in DOMAIN own : seen[d] = own[d]
      /\ \A d \in DOMAIN rows \ DOMAIN own : seen[d].version = rows[d].version
  BY <1>3, <1>4, SeenRows DEF View
<1>6. ASSUME NEW d \in DOMAIN seen
      PROVE  /\ d <= issued /\ d \in Int /\ seen[d].version <= d /\ seen[d].version \in Int
             /\ \A q \in Requests \ {p} : d \notin OwnIds(q)
  <2>1. d \in Int /\ seen[d] \in Row
    BY <1>3, <1>4, ViewIsTable DEF IsTable, Ids
  <2>2. CASE d \in DOMAIN own
    <3>1. d \in OwnIds(p)
      BY <1>2, <1>4, <2>2 DEF OwnIds
    <3> QED BY <1>4, <1>5, <2>1, <2>2, <3>1 DEF IdInv, IdsAreOnce, Row, Ids
  <2>3. CASE d \in DOMAIN rows \ DOMAIN own
    BY <1>4, <1>5, <2>1, <2>3 DEF IdInv, IdsAreOnce, Row, Ids
  <2> QED BY <1>5, <2>2, <2>3
<1>7. /\ x.pc = "put" /\ x.own = reqs[p].own /\ x.locks = reqs[p].locks
      /\ \/ x.previous = {} /\ x.version = 1
         \/ \E d \in DOMAIN seen : x.previous = {d} /\ x.version = seen[d].version + 1
  BY <1>1, <1>4 DEF Reads, LatestOf
<1>8. /\ x.version <= issued + 1
      /\ \A d \in x.previous : d <= issued /\ \A q \in Requests \ {p} : d \notin OwnIds(q)
  <2>1. CASE x.previous = {} /\ x.version = 1
    BY <2>1 DEF TypeOK
  <2>2. ASSUME NEW d \in DOMAIN seen, x.previous = {d}, x.version = seen[d].version + 1
        PROVE  /\ x.version <= issued + 1
               /\ \A e \in x.previous : e <= issued /\ \A q \in Requests \ {p} : e \notin OwnIds(q)
    BY <1>2, <1>6, <2>2
  <2> QED BY <1>7, <2>1, <2>2
<1>9. x.locks \subseteq DOMAIN docs /\ x.locks \cap LockedByOthers(p) = {}
  BY <1>7 DEF IdInv, LocksAreOnRows, LockedByOthers
<1> QED BY <1>1, <1>2, <1>7, <1>8, <1>9, MoveKeepsIds

LEMMA IdsStayOnce ==
  ASSUME TypeOK, IdInv, [Next]_vars
  PROVE  IdInv'
<1>1. ASSUME NEW p \in Requests, BeginUpload(p) PROVE IdInv'
  <2>1. PICK x : Goto(p, x) /\ IsUpload(x) /\ x.pc = "read" /\ x.own = <<>> /\ x.locks = {}
    BY <1>1, BeginMakes
  <2>2. DOMAIN x.own = {}
    BY <2>1, EmptyIsTable
  <2>3. docs' = docs /\ issued' = issued
    BY <1>1 DEF BeginUpload
  <2> QED BY <2>1, <2>2, <2>3, MoveKeepsIds
<1>2. ASSUME NEW p \in Requests, Put(p) PROVE IdInv'
  <2>1. PICK x : /\ Goto(p, x) /\ IsUpload(x)
                 /\ x.pc = "insert" /\ x.files = reqs[p].files
                 /\ x.own = reqs[p].own /\ x.locks = reqs[p].locks
                 /\ x.previous = reqs[p].previous /\ x.version = reqs[p].version
    BY <1>2, PutMakes
  <2>2. docs' = docs /\ issued' = issued /\ Uploading(p) /\ Versioning(p)
    BY <1>2 DEF Put, Uploading, Versioning
  <2>3. x.locks \subseteq DOMAIN docs /\ x.locks \cap LockedByOthers(p) = {}
    BY <2>1 DEF IdInv, LocksAreOnRows, LockedByOthers
  <2>4. /\ x.version <= issued + 1
        /\ \A d \in x.previous : d <= issued /\ \A q \in Requests \ {p} : d \notin OwnIds(q)
    BY <2>1, <2>2 DEF IdInv, ReadsAreOld
  <2> QED BY <2>1, <2>2, <2>3, <2>4, MoveKeepsIds
<1>3. ASSUME NEW p \in Requests, BeginPurge(p) \/ DeleteBlob(p) \/ DeleteRows(p) PROVE IdInv'
  <2>1. docs' = docs /\ issued' = issued
    BY <1>3 DEF BeginPurge, DeleteBlob, DeleteRows
  <2>2. PICK x : /\ Goto(p, x) /\ IsPurge(x)
                 /\ \/ x.pc = "delete" /\ x.locks = {} /\ DOMAIN x.old = Superseded
                    \/ /\ x.pc = "delete" /\ x.locks = {}
                       /\ reqs[p].pc = "delete" /\ x.old = reqs[p].old
                    \/ /\ x.pc = "deleted" /\ reqs[p].pc = "delete"
                       /\ x.locks = DOMAIN reqs[p].old \cap DOMAIN docs
                       /\ x.locks \cap LockedByOthers(p) = {}
    BY <1>3, PurgeMakes
  <2>3. x.locks \subseteq DOMAIN docs /\ x.locks \cap LockedByOthers(p) = {}
    BY <2>2
  <2> QED BY <2>1, <2>2, <2>3, MoveKeepsIds
<1>4. ASSUME NEW p \in Requests, Fail(p) PROVE IdInv'
  BY <1>4, IdleIsPlace, MoveKeepsIds DEF Fail
<1>5. ASSUME NEW p \in Requests, CommitUpload(p) PROVE IdInv'
  <2>1. issued' = issued /\ \A d : d \in OwnIds(p) <=> d \in DOMAIN reqs[p].own
    BY <1>5, CommitUploadMakes DEF CommitUpload, OwnIds
  <2> QED BY <1>5, <2>1, CommitUploadMakes, CommitKeepsIds
<1>6. ASSUME NEW p \in Requests, CommitPurge(p) PROVE IdInv'
  <2>1. issued' = issued
    BY <1>6 DEF CommitPurge
  <2> QED BY <1>6, <2>1, CommitPurgeMakes, CommitKeepsIds
<1>7. CASE UNCHANGED vars
  BY <1>7 DEF vars, IdInv, IdsAreOnce, LocksAreOnRows, PurgesTakeOld, ReadsAreOld, OwnIds,
     Uploading, Versioning
<1> QED BY <1>1, <1>2, <1>3, <1>4, <1>5, <1>6, <1>7, ReadKeepsIds, InsertKeepsIds, CiteKeepsIds
        DEF Next

LEMMA IdsAreInductive == Spec => [](TypeOK /\ IdInv)
<1>1. Init => TypeOK /\ IdInv
  <2> SUFFICES ASSUME Init PROVE TypeOK /\ IdInv
    OBVIOUS
  <2>1. TypeOK
    BY DocumentsAssumption DEF Init, TypeOK, IsTable
  <2>2. \A p \in Requests : reqs[p].pc = "idle" /\ reqs[p].locks = {} /\ OwnIds(p) = {}
    BY IdleIsPlace DEF Init, OwnIds, Uploading
  <2> QED BY <2>1, <2>2, EmptyIsTable
          DEF Init, IdInv, IdsAreOnce, LocksAreOnRows, PurgesTakeOld, ReadsAreOld, Versioning
<1>2. TypeOK /\ IdInv /\ [Next]_vars => (TypeOK /\ IdInv)'
  BY NextTypes, IdsStayOnce
<1> QED BY <1>1, <1>2, PTL DEF Spec

\* Every reachable state of uploads and purges is well typed.
THEOREM TypeCorrect == Spec => []TypeOK
BY IdsAreInductive, PTL

-----------------------------------------------------------------------------
\* The order of versions, in one table of rows.

Newest(rows) ==
  \A d \in DOMAIN rows : ~rows[d].latest =>
    \E e \in DOMAIN rows :
      rows[e].latest /\ rows[e].name = rows[d].name /\ rows[e].version > rows[d].version

\* One version of the name is the latest and no two have the same number.
Quiet(rows, name) ==
  \A d, e \in DOMAIN rows :
    /\ rows[d].name = name /\ rows[e].name = name
    /\ (rows[d].latest /\ rows[e].latest) \/ rows[d].version = rows[e].version
    => d = e

LEMMA QuietInherits ==
  ASSUME NEW t, NEW u, NEW name, Quiet(t, name),
         \A d \in DOMAIN u : u[d].name = name =>
           /\ d \in DOMAIN t /\ t[d].name = name /\ t[d].version = u[d].version
           /\ u[d].latest => t[d].latest
  PROVE  Quiet(u, name)
BY DEF Quiet

\* What an upload at place x has superseded has a newer version among its own rows.
Supersedes(x, view) ==
  \A d \in DOMAIN view :
    d \in x.locks \/ (d \in DOMAIN x.own /\ ~x.own[d].latest) =>
      \E e \in DOMAIN x.own :
        x.own[e].latest /\ x.own[e].name = view[d].name /\ x.own[e].version > view[d].version

\* The next version follows the one that was read, while that one is there.
Follows(x, view) ==
  \A d \in x.previous : d \in DOMAIN view =>
    view[d].name = x.files[1].name /\ x.version = view[d].version + 1

\* The next version comes after all others, and the one that was read is the latest.
Ahead(x, view) ==
  \A d \in DOMAIN view : view[d].name = x.files[1].name =>
    view[d].version < x.version /\ (view[d].latest => d \in x.previous)

\* An upload at place x that sees the rows of view, where the names in s were shaken.
InOrder(x, view, s) ==
  /\ Supersedes(x, view)
  /\ \A n \in Names \ s : Quiet(view, n)
  /\ x.pc \in {"put", "insert"} =>
       Follows(x, view) /\ (x.files[1].name \notin s => Ahead(x, view))

Touches(x) ==
  {x.own[d].name : d \in DOMAIN x.own}
    \cup (IF x.pc \in {"put", "insert"} THEN {x.files[1].name} ELSE {})

LEMMA VersionsAreInt ==
  ASSUME NEW rows, IsTable(rows, Row)
  PROVE  \A d \in DOMAIN rows : /\ rows[d] \in Row /\ rows[d].version \in Int
                                /\ rows[d].name \in Names
BY DEF IsTable, Row, Ids

\* With what an upload did, every superseded version still has a newer latest one.
LEMMA SeenNewest ==
  ASSUME NEW rows, NEW x, NEW view, IsTable(rows, Row), IsTable(x.own, Row),
         view = Seen(rows, x.own, x.locks),
         \A d \in DOMAIN x.own : d \notin DOMAIN rows,
         Newest(rows), Supersedes(x, view)
  PROVE  Newest(view)
<1>1. /\ \A d : d \in DOMAIN view <=> d \in DOMAIN rows \/ d \in DOMAIN x.own
      /\ \A d \in DOMAIN x.own : view[d] = x.own[d]
      /\ \A d \in DOMAIN rows :
           /\ view[d].name = rows[d].name /\ view[d].version = rows[d].version
           /\ view[d].latest => rows[d].latest /\ d \notin x.locks
           /\ rows[d].latest /\ d \notin x.locks => view[d].latest
  <2>1. PICK own, locks : own = x.own /\ locks = x.locks
    OBVIOUS
  <2>2. /\ \A d : d \in DOMAIN view <=> d \in DOMAIN rows \/ d \in DOMAIN own
        /\ \A d \in DOMAIN own : view[d] = own[d]
        /\ \A d \in DOMAIN rows \ DOMAIN own :
             /\ view[d].name = rows[d].name /\ view[d].version = rows[d].version
             /\ view[d].latest => rows[d].latest /\ d \notin locks
             /\ rows[d].latest /\ d \notin locks => view[d].latest
    BY <2>1, SeenRows
  <2> QED BY <2>1, <2>2
<1>2. \A d \in DOMAIN view : view[d].version \in Int
  BY SeenIsTable, VersionsAreInt
<1>3. ASSUME NEW d \in DOMAIN view,
             d \in x.locks \/ (d \in DOMAIN x.own /\ ~x.own[d].latest)
      PROVE  \E e \in DOMAIN view :
               view[e].latest /\ view[e].name = view[d].name /\ view[e].version > view[d].version
  <2>1. PICK e \in DOMAIN x.own :
          x.own[e].latest /\ x.own[e].name = view[d].name /\ x.own[e].version > view[d].version
    BY <1>3 DEF Supersedes
  <2> QED BY <1>1, <2>1
<1> SUFFICES ASSUME NEW d \in DOMAIN view, ~view[d].latest
             PROVE  \E e \in DOMAIN view :
                      /\ view[e].latest /\ view[e].name = view[d].name
                      /\ view[e].version > view[d].version
  BY DEF Newest
<1>4. CASE d \in DOMAIN x.own \/ d \in x.locks
  BY <1>1, <1>3, <1>4
<1>5. CASE d \in DOMAIN rows /\ d \notin x.locks
  <2>1. PICK e \in DOMAIN rows :
          rows[e].latest /\ rows[e].name = rows[d].name /\ rows[e].version > rows[d].version
    BY <1>1, <1>5 DEF Newest
  <2>2. CASE e \notin x.locks
    BY <1>1, <1>5, <2>1, <2>2
  <2>3. CASE e \in x.locks
    <3>1. PICK f \in DOMAIN view :
            view[f].latest /\ view[f].name = view[e].name /\ view[f].version > view[e].version
      BY <1>1, <1>3, <2>3
    <3>2. view[e].version > view[d].version /\ view[e].name = view[d].name /\ e \in DOMAIN view
      BY <1>1, <1>5, <2>1
    <3>3. view[f].version > view[d].version
      BY <1>2, <3>1, <3>2
    <3> QED BY <3>1, <3>2, <3>3
  <2> QED BY <2>2, <2>3
<1> QED BY <1>1, <1>4, <1>5

\* An upload keeps its order when others change the committed rows: they add no rows of
\* a name it touches, unless the name is shaken.
LEMMA OthersKeepOrder ==
  ASSUME NEW rows, NEW next, NEW x, NEW view, NEW seen, NEW s,
         IsTable(rows, Row), IsTable(next, Row), IsTable(x.own, Row),
         view = Seen(rows, x.own, x.locks), seen = Seen(next, x.own, x.locks),
         \A d \in x.locks : d \in DOMAIN rows /\ d \in DOMAIN next,
         \A d \in DOMAIN x.own : d \notin DOMAIN rows /\ d \notin DOMAIN next,
         \A d \in DOMAIN rows : d \in DOMAIN next =>
           /\ next[d].name = rows[d].name /\ next[d].version = rows[d].version
           /\ next[d].latest => rows[d].latest,
         \A d \in DOMAIN next : d \notin DOMAIN rows =>
           /\ next[d].name \notin s => next[d].name \notin Touches(x)
           /\ x.pc \in {"put", "insert"} => d \notin x.previous,
         \A n \in Names \ s : Quiet(next, n),
         InOrder(x, view, s)
  PROVE  InOrder(x, seen, s)
<1>1. /\ \A d : d \in DOMAIN view <=> d \in DOMAIN rows \/ d \in DOMAIN x.own
      /\ \A d \in DOMAIN x.own : view[d] = x.own[d]
      /\ \A d \in DOMAIN rows :
           /\ view[d].name = rows[d].name /\ view[d].version = rows[d].version
           /\ rows[d].latest /\ d \notin x.locks => view[d].latest
  <2>1. PICK own, locks : own = x.own /\ locks = x.locks
    OBVIOUS
  <2>2. /\ \A d : d \in DOMAIN view <=> d \in DOMAIN rows \/ d \in DOMAIN own
        /\ \A d \in DOMAIN own : view[d] = own[d]
        /\ \A d \in DOMAIN rows \ DOMAIN own :
             /\ view[d].name = rows[d].name /\ view[d].version = rows[d].version
             /\ rows[d].latest /\ d \notin locks => view[d].latest
    BY <2>1, SeenRows
  <2> QED BY <2>1, <2>2
<1>2. /\ \A d : d \in DOMAIN seen <=> d \in DOMAIN next \/ d \in DOMAIN x.own
      /\ \A d \in DOMAIN x.own : seen[d] = x.own[d]
      /\ \A d \in DOMAIN next :
           /\ seen[d].name = next[d].name /\ seen[d].version = next[d].version
           /\ seen[d].latest => next[d].latest /\ d \notin x.locks
  <2>1. PICK own, locks : own = x.own /\ locks = x.locks
    OBVIOUS
  <2>2. /\ \A d : d \in DOMAIN seen <=> d \in DOMAIN next \/ d \in DOMAIN own
        /\ \A d \in DOMAIN own : seen[d] = own[d]
        /\ \A d \in DOMAIN next \ DOMAIN own :
             /\ seen[d].name = next[d].name /\ seen[d].version = next[d].version
             /\ seen[d].latest => next[d].latest /\ d \notin locks
    BY <2>1, SeenRows
  <2> QED BY <2>1, <2>2
<1>3. ASSUME NEW d \in DOMAIN seen, d \in DOMAIN rows \/ d \in DOMAIN x.own
      PROVE  /\ d \in DOMAIN view /\ view[d].name = seen[d].name
             /\ view[d].version = seen[d].version
             /\ seen[d].latest => view[d].latest
  BY <1>1, <1>2, <1>3
<1>4. Supersedes(x, seen)
  <2> SUFFICES ASSUME NEW d \in DOMAIN seen,
                      d \in x.locks \/ (d \in DOMAIN x.own /\ ~x.own[d].latest)
               PROVE  \E e \in DOMAIN x.own :
                        /\ x.own[e].latest /\ x.own[e].name = seen[d].name
                        /\ x.own[e].version > seen[d].version
    BY DEF Supersedes
  <2>1. /\ d \in DOMAIN view /\ view[d].name = seen[d].name
        /\ view[d].version = seen[d].version
    BY <1>3
  <2>2. Supersedes(x, view)
    BY DEF InOrder
  <2>3. PICK e \in DOMAIN x.own :
          x.own[e].latest /\ x.own[e].name = view[d].name /\ x.own[e].version > view[d].version
    BY <2>1, <2>2 DEF Supersedes
  <2> QED BY <2>1, <2>3
<1>5. ASSUME NEW d \in DOMAIN seen, seen[d].name \in Touches(x), seen[d].name \notin s
      PROVE  d \in DOMAIN rows \/ d \in DOMAIN x.own
  BY <1>2, <1>5
<1>6. ASSUME NEW n \in Names \ s PROVE Quiet(seen, n)
  <2>1. CASE n \in Touches(x)
    <3>1. Quiet(view, n)
      BY DEF InOrder
    <3>2. \A d \in DOMAIN seen : seen[d].name = n =>
            /\ d \in DOMAIN view /\ view[d].name = n /\ view[d].version = seen[d].version
            /\ seen[d].latest => view[d].latest
      BY <1>3, <1>5, <2>1
    <3> QED BY <3>1, <3>2, QuietInherits
  <2>2. CASE n \notin Touches(x)
    <3>1. \A d \in DOMAIN seen : seen[d].name = n =>
            /\ d \in DOMAIN next /\ next[d].name = n /\ next[d].version = seen[d].version
            /\ seen[d].latest => next[d].latest
      BY <1>2, <2>2 DEF Touches
    <3> QED BY <3>1, QuietInherits
  <2> QED BY <2>1, <2>2
<1>7. ASSUME x.pc \in {"put", "insert"}
      PROVE  Follows(x, seen) /\ (x.files[1].name \notin s => Ahead(x, seen))
  <2>1. Follows(x, view) /\ (x.files[1].name \notin s => Ahead(x, view))
    BY <1>7 DEF InOrder
  <2>2. ASSUME NEW d \in x.previous, d \in DOMAIN seen
        PROVE  seen[d].name = x.files[1].name /\ x.version = seen[d].version + 1
    <3>1. d \in DOMAIN rows \/ d \in DOMAIN x.own
      BY <1>2, <1>7, <2>2
    <3> QED BY <1>3, <2>1, <2>2, <3>1 DEF Follows
  <2>3. ASSUME x.files[1].name \notin s, NEW d \in DOMAIN seen, seen[d].name = x.files[1].name
        PROVE  seen[d].version < x.version /\ (seen[d].latest => d \in x.previous)
    <3>1. seen[d].name \in Touches(x)
      BY <1>7, <2>3 DEF Touches
    <3>2. d \in DOMAIN rows \/ d \in DOMAIN x.own
      BY <1>5, <2>3, <3>1
    <3> QED BY <1>3, <2>1, <2>3, <3>2 DEF Ahead
  <2> QED BY <2>2, <2>3 DEF Follows, Ahead
<1> QED BY <1>4, <1>6, <1>7 DEF InOrder

\* Reading the latest version looks ahead of all others the upload sees.
LEMMA ReadKeepsOrder ==
  ASSUME NEW old, NEW x, NEW view, NEW s, NEW t, s \subseteq t,
         IsTable(view, Row), old.files[1].name \in Names,
         InOrder(old, view, s), Newest(view), Reads(old, x, view)
  PROVE  InOrder(x, view, t)
<1>1. \A d \in DOMAIN view : view[d].version \in Int /\ view[d].name \in Names
  BY VersionsAreInt
<1>2. x.own = old.own /\ x.locks = old.locks /\ x.files = old.files
  BY DEF Reads
<1>3. Supersedes(x, view)
  BY <1>2 DEF InOrder, Supersedes
<1>4. \A n \in Names \ t : Quiet(view, n)
  BY DEF InOrder
<1>5. Follows(x, view)
  BY <1>2 DEF Reads, Follows, LatestOf
<1>6. ASSUME x.files[1].name \notin t PROVE Ahead(x, view)
  <2> DEFINE n == old.files[1].name
  <2>1. Quiet(view, n)
    BY <1>2, <1>4, <1>6
  <2> SUFFICES ASSUME NEW d \in DOMAIN view, view[d].name = n
               PROVE  view[d].version < x.version /\ (view[d].latest => d \in x.previous)
    BY <1>2 DEF Ahead
  <2>2. \E e \in LatestOf(view, n) : e = d \/ view[e].version > view[d].version
    <3>1. CASE view[d].latest
      BY <3>1 DEF LatestOf
    <3>2. CASE ~view[d].latest
      BY <3>2 DEF Newest, LatestOf
    <3> QED BY <3>1, <3>2
  <2>3. PICK e \in LatestOf(view, n) : x.previous = {e} /\ x.version = view[e].version + 1
    BY <2>2 DEF Reads
  <2>4. \A f \in LatestOf(view, n) : f = e
    BY <2>1, <2>3 DEF Quiet, LatestOf
  <2>5. view[d].latest => d = e
    BY <2>4 DEF LatestOf
  <2>6. e = d \/ view[e].version > view[d].version
    BY <2>2, <2>4
  <2>7. view[e].version \in Int
    BY <1>1, <2>3 DEF LatestOf
  <2> QED BY <1>1, <2>3, <2>5, <2>6, <2>7
<1> QED BY <1>3, <1>4, <1>5, <1>6 DEF InOrder

\* A new row comes after all rows of its name that the upload sees.
LEMMA InsertKeepsOrder ==
  ASSUME NEW rows, NEW old, NEW x, NEW view, NEW seen, NEW s, NEW new,
         IsTable(rows, Row), IsTable(old.own, Row), IsTable(x.own, Row),
         view = Seen(rows, old.own, old.locks), seen = Seen(rows, x.own, x.locks),
         \A d \in old.locks : d \in DOMAIN rows,
         \A d \in DOMAIN old.own : d \notin DOMAIN rows,
         new \notin DOMAIN rows, new \notin DOMAIN old.own,
         old.pc = "insert", old.previous \subseteq DOMAIN view,
         Inserted(old, x, new), InOrder(old, view, s)
  PROVE  InOrder(x, seen, s)
<1>1. /\ \A d : d \in DOMAIN view <=> d \in DOMAIN rows \/ d \in DOMAIN old.own
      /\ \A d \in DOMAIN old.own : view[d] = old.own[d]
      /\ \A d \in DOMAIN rows :
           /\ view[d].name = rows[d].name /\ view[d].version = rows[d].version
           /\ view[d].latest => rows[d].latest /\ d \notin old.locks
           /\ rows[d].latest /\ d \notin old.locks => view[d].latest
  <2>1. PICK own, locks : own = old.own /\ locks = old.locks
    OBVIOUS
  <2>2. /\ \A d : d \in DOMAIN view <=> d \in DOMAIN rows \/ d \in DOMAIN own
        /\ \A d \in DOMAIN own : view[d] = own[d]
        /\ \A d \in DOMAIN rows \ DOMAIN own :
             /\ view[d].name = rows[d].name /\ view[d].version = rows[d].version
             /\ view[d].latest => rows[d].latest /\ d \notin locks
             /\ rows[d].latest /\ d \notin locks => view[d].latest
    BY <2>1, SeenRows
  <2> QED BY <2>1, <2>2
<1>2. /\ \A d : d \in DOMAIN x.own <=> d \in DOMAIN old.own \/ d = new
      /\ x.own[new].name = old.files[1].name /\ x.own[new].version = old.version
      /\ x.own[new].latest
      /\ \A d \in DOMAIN old.own :
           /\ x.own[d].name = old.own[d].name /\ x.own[d].version = old.own[d].version
           /\ x.own[d].latest => old.own[d].latest /\ d \notin old.previous
           /\ old.own[d].latest /\ d \notin old.previous => x.own[d].latest
      /\ \A d : d \in x.locks <=> d \in old.locks \/ (d \in old.previous /\ d \notin DOMAIN old.own)
      /\ x.pc \in {"read", "commit"}
  BY DEF Inserted
<1>3. /\ \A d : d \in DOMAIN seen <=> d \in DOMAIN view \/ d = new
      /\ seen[new] = x.own[new]
      /\ \A d \in DOMAIN view :
           /\ seen[d].name = view[d].name /\ seen[d].version = view[d].version
           /\ seen[d].latest => view[d].latest /\ d \notin old.previous
  <2>1. PICK own, locks : own = x.own /\ locks = x.locks
    OBVIOUS
  <2>2. /\ \A d : d \in DOMAIN seen <=> d \in DOMAIN rows \/ d \in DOMAIN own
        /\ \A d \in DOMAIN own : seen[d] = own[d]
        /\ \A d \in DOMAIN rows \ DOMAIN own :
             /\ seen[d].name = rows[d].name /\ seen[d].version = rows[d].version
             /\ seen[d].latest => rows[d].latest /\ d \notin locks
    BY <2>1, SeenRows
  <2>3. \A d : d \in DOMAIN seen <=> d \in DOMAIN view \/ d = new
    BY <1>1, <1>2, <2>1, <2>2
  <2>4. ASSUME NEW d \in DOMAIN view
        PROVE  /\ seen[d].name = view[d].name /\ seen[d].version = view[d].version
               /\ seen[d].latest => view[d].latest /\ d \notin old.previous
    <3>1. CASE d \in DOMAIN old.own
      BY <1>1, <1>2, <2>1, <2>2, <3>1
    <3>2. CASE d \in DOMAIN rows
      <4>1. d \notin DOMAIN own /\ d \notin DOMAIN old.own
        BY <1>2, <2>1, <3>2
      <4> QED BY <1>1, <1>2, <2>1, <2>2, <3>2, <4>1
    <3> QED BY <1>1, <3>1, <3>2
  <2> QED BY <1>2, <2>1, <2>2, <2>3, <2>4
<1>4. /\ Supersedes(old, view) /\ Follows(old, view)
      /\ old.files[1].name \notin s => Ahead(old, view)
  BY DEF InOrder
<1>5. \A d \in DOMAIN view : view[d].version \in Int
  BY SeenIsTable, VersionsAreInt
<1>6. ASSUME NEW d \in DOMAIN seen,
             d \in x.locks \/ (d \in DOMAIN x.own /\ ~x.own[d].latest)
      PROVE  \E e \in DOMAIN x.own :
               /\ x.own[e].latest /\ x.own[e].name = seen[d].name
               /\ x.own[e].version > seen[d].version
  <2>1. d # new /\ d \in DOMAIN view
    BY <1>1, <1>2, <1>3, <1>6
  <2>2. CASE d \in old.previous
    <3>1. view[d].name = old.files[1].name /\ old.version = view[d].version + 1
      BY <1>4, <2>1, <2>2 DEF Follows
    <3>2. new \in DOMAIN x.own /\ x.own[new].name = seen[d].name /\ x.own[new].version > seen[d].version
      BY <1>2, <1>3, <1>5, <2>1, <3>1
    <3> QED BY <1>2, <3>2
  <2>3. CASE d \notin old.previous
    <3>1. d \in old.locks \/ (d \in DOMAIN old.own /\ ~old.own[d].latest)
      BY <1>2, <1>6, <2>1, <2>3
    <3>2. PICK e \in DOMAIN old.own :
            /\ old.own[e].latest /\ old.own[e].name = view[d].name
            /\ old.own[e].version > view[d].version
      BY <1>4, <2>1, <3>1 DEF Supersedes
    <3>3. CASE e \notin old.previous
      BY <1>2, <1>3, <2>1, <3>2, <3>3
    <3>4. CASE e \in old.previous
      <4>1. e \in DOMAIN view /\ view[e] = old.own[e]
        BY <1>1, <3>2
      <4>2. view[e].name = old.files[1].name /\ old.version = view[e].version + 1
        BY <1>4, <3>4, <4>1 DEF Follows
      <4>3. x.own[new].version > seen[d].version
        BY <1>2, <1>3, <1>5, <2>1, <3>2, <4>1, <4>2
      <4>4. new \in DOMAIN x.own /\ x.own[new].name = seen[d].name
        <5>1. old.own[e].name = view[d].name /\ old.own[e].name = old.files[1].name
          BY <3>2, <4>1, <4>2
        <5>2. seen[d].name = view[d].name
          BY <1>3, <2>1
        <5> QED BY <1>2, <5>1, <5>2
      <4> QED BY <1>2, <4>3, <4>4
    <3> QED BY <3>3, <3>4
  <2> QED BY <2>2, <2>3
<1>7. Supersedes(x, seen)
  BY <1>6 DEF Supersedes
<1>8. ASSUME NEW n \in Names \ s PROVE Quiet(seen, n)
  <2>1. Quiet(view, n)
    BY DEF InOrder
  <2>2. ASSUME NEW d \in DOMAIN view, seen[d].name = n, seen[new].name = n,
               (seen[d].latest /\ seen[new].latest) \/ seen[d].version = seen[new].version
        PROVE  FALSE
    <3>1. Ahead(old, view) /\ view[d].name = old.files[1].name
      BY <1>2, <1>3, <1>4, <2>2
    <3>2. view[d].version < old.version /\ (view[d].latest => d \in old.previous)
      BY <3>1 DEF Ahead
    <3>3. seen[new].version = old.version /\ seen[d].version = view[d].version
      BY <1>2, <1>3
    <3> QED BY <1>3, <1>5, <2>2, <3>2, <3>3
  <2>3. ASSUME NEW d \in DOMAIN seen, NEW e \in DOMAIN seen, seen[d].name = n, seen[e].name = n,
               (seen[d].latest /\ seen[e].latest) \/ seen[d].version = seen[e].version
        PROVE  d = e
    <3>1. CASE d \in DOMAIN view /\ e \in DOMAIN view
      BY <1>3, <2>1, <2>3, <3>1 DEF Quiet
    <3>2. CASE d = new \/ e = new
      BY <1>3, <2>2, <2>3, <3>2
    <3> QED BY <1>3, <3>1, <3>2
  <2> QED BY <2>3 DEF Quiet
<1> QED BY <1>2, <1>7, <1>8 DEF InOrder

-----------------------------------------------------------------------------
\* The order of versions, in all tables.

TouchedAlone == \A p, q \in Requests : p # q => Touched(p) \cap Touched(q) \subseteq shaken

OrderInv ==
  /\ Newest(docs)
  /\ \A n \in Names \ shaken : Quiet(docs, n)
  /\ TouchedAlone
  /\ \A p \in Requests : Uploading(p) => InOrder(reqs[p], View(p), shaken)

LEMMA TouchedTouches ==
  ASSUME NEW p
  PROVE  Touched(p) = IF Uploading(p) THEN Touches(reqs[p]) ELSE {}
BY DEF Touched, Touches

\* After p moved to x the others touch what they touched.
LEMMA TouchedAfter ==
  ASSUME TypeOK, NEW p \in Requests, NEW x, Goto(p, x)
  PROVE  /\ x.pc \in {"read", "put", "insert", "commit"} => Touched(p)' = Touches(x)
         /\ x.pc \notin {"read", "put", "insert", "commit"} => Touched(p)' = {}
         /\ \A q \in Requests \ {p} : Touched(q)' = Touched(q)
<1>1. reqs'[p] = x /\ \A q \in Requests \ {p} : reqs'[q] = reqs[q]
  BY GotoPlace
<1> QED BY <1>1 DEF Touched, Touches, Uploading

\* A request that moves on while the committed rows stay.
LEMMA MoveKeepsOrder ==
  ASSUME TypeOK, OrderInv, NEW p \in Requests, NEW x, Goto(p, x), docs' = docs,
         shaken \subseteq shaken',
         \A q \in Requests \ {p} : \A n \in Touched(p)' : n \in Touched(q) => n \in shaken',
         x.pc \in {"read", "put", "insert", "commit"} =>
           InOrder(x, Seen(docs, x.own, x.locks), shaken')
  PROVE  OrderInv'
<1>1. reqs'[p] = x /\ \A q \in Requests \ {p} : reqs'[q] = reqs[q]
  BY GotoPlace
<1>2. Newest(docs') /\ \A n \in Names \ shaken' : Quiet(docs', n)
  BY DEF OrderInv
<1>3. TouchedAlone'
  <2>1. \A q \in Requests \ {p} : Touched(q)' = Touched(q)
    BY TouchedAfter
  <2> SUFFICES ASSUME NEW q \in Requests, NEW r \in Requests, q # r,
                      NEW n, n \in Touched(q)', n \in Touched(r)'
               PROVE  n \in shaken'
    BY DEF TouchedAlone
  <2>2. CASE q = p
    BY <2>1, <2>2
  <2>3. CASE r = p
    BY <2>1, <2>3
  <2>4. CASE q # p /\ r # p
    BY <2>1, <2>4 DEF OrderInv, TouchedAlone
  <2> QED BY <2>2, <2>3, <2>4
<1>4. ASSUME NEW q \in Requests, Uploading(q)'
      PROVE  InOrder(reqs'[q], Seen(docs', reqs'[q].own, reqs'[q].locks), shaken')
  <2>1. CASE q = p
    BY <1>1, <1>4, <2>1 DEF Uploading
  <2>2. CASE q # p
    <3>1. InOrder(reqs[q], View(q), shaken) /\ reqs'[q] = reqs[q]
      BY <1>1, <1>4, <2>2 DEF OrderInv, Uploading
    <3>2. PICK y, view : y = reqs[q] /\ view = View(q)
      OBVIOUS
    <3>3. InOrder(y, view, shaken')
      BY <3>1, <3>2 DEF InOrder
    <3> QED BY <3>1, <3>2, <3>3 DEF View
  <2> QED BY <2>1, <2>2
<1>5. \A q \in Requests : Uploading(q)' => InOrder(reqs[q], View(q), shaken)'
  BY <1>4 DEF View, InOrder, Supersedes, Follows, Ahead, Quiet
<1> QED BY <1>2, <1>3, <1>5 DEF OrderInv, Newest, Quiet

LEMMA BeginKeepsOrder ==
  ASSUME TypeOK, OrderInv, NEW p \in Requests, BeginUpload(p)
  PROVE  OrderInv'
<1>1. PICK x : Goto(p, x) /\ IsUpload(x) /\ x.pc = "read" /\ x.own = <<>> /\ x.locks = {}
  BY BeginMakes
<1>2. DOMAIN x.own = {}
  BY <1>1, EmptyIsTable
<1>3. docs' = docs /\ shaken' = shaken
  BY DEF BeginUpload
<1>4. PICK view : view = Seen(docs, x.own, x.locks)
  OBVIOUS
<1>5. \A d \in DOMAIN view :
        /\ d \in DOMAIN docs /\ view[d].name = docs[d].name /\ view[d].version = docs[d].version
        /\ view[d].latest => docs[d].latest
  <2>1. PICK own, locks, rows : own = x.own /\ locks = x.locks /\ rows = docs
    OBVIOUS
  <2>2. /\ \A d : d \in DOMAIN view <=> d \in DOMAIN rows \/ d \in DOMAIN own
        /\ \A d \in DOMAIN rows \ DOMAIN own :
             /\ view[d].name = rows[d].name /\ view[d].version = rows[d].version
             /\ view[d].latest => rows[d].latest
    BY <1>4, <2>1, SeenRows DEF TypeOK
  <2> QED BY <1>2, <2>1, <2>2
<1>6. \A n \in Names \ shaken : Quiet(view, n)
  BY <1>5, QuietInherits DEF OrderInv
<1>7. InOrder(x, view, shaken')
  BY <1>1, <1>2, <1>3, <1>6 DEF InOrder, Supersedes
<1>8. Touched(p)' = {}
  BY <1>1, <1>2, TouchedAfter DEF Touches
<1> QED BY <1>1, <1>3, <1>4, <1>7, <1>8, MoveKeepsOrder

\* What an upload at place p knows of the rows it sees.
LEMMA ViewFacts ==
  ASSUME TypeOK, IdInv, OrderInv, NEW p \in Requests, Uploading(p)
  PROVE  /\ IsUpload(reqs[p]) /\ IsTable(View(p), Row) /\ Newest(View(p))
         /\ InOrder(reqs[p], View(p), shaken)
         /\ IsTable(reqs[p].own, Row)
         /\ \A d \in reqs[p].locks : d \in DOMAIN docs
         /\ \A d \in DOMAIN reqs[p].own : d \notin DOMAIN docs
<1>1. IsUpload(reqs[p]) /\ IsTable(View(p), Row) /\ IsTable(reqs[p].own, Row) /\ IsTable(docs, Row)
  BY Places, ViewIsTable DEF IsUpload, TypeOK
<1>2. /\ \A d \in reqs[p].locks : d \in DOMAIN docs
      /\ \A d \in DOMAIN reqs[p].own : d \notin DOMAIN docs
  BY DEF IdInv, IdsAreOnce, LocksAreOnRows, OwnIds
<1>3. InOrder(reqs[p], View(p), shaken) /\ Newest(docs)
  BY DEF OrderInv
<1>4. PICK x, rows, view : x = reqs[p] /\ rows = docs /\ view = View(p)
  OBVIOUS
<1>5. Newest(view)
  BY <1>1, <1>2, <1>3, <1>4, SeenNewest DEF View, InOrder
<1> QED BY <1>1, <1>2, <1>3, <1>4, <1>5

LEMMA ReadLatestKeepsOrder ==
  ASSUME TypeOK, IdInv, OrderInv, NEW p \in Requests, ReadLatest(p)
  PROVE  OrderInv'
<1>1. PICK x : Goto(p, x) /\ IsUpload(x) /\ Reads(reqs[p], x, View(p))
  BY ReadMakes
<1>2. Uploading(p) /\ docs' = docs /\ reqs[p].files[1].name \in Names
  BY FirstFile DEF ReadLatest, Uploading
<1>3. /\ x.pc = "put" /\ x.files = reqs[p].files /\ x.own = reqs[p].own
      /\ x.locks = reqs[p].locks
  BY <1>1 DEF Reads
<1>4. shaken' = Shaken(p, reqs[p].files[1].name)
  BY DEF ReadLatest
<1>5. shaken \subseteq shaken'
  BY <1>4 DEF Shaken
<1>6. PICK old, view : old = reqs[p] /\ view = View(p)
  OBVIOUS
<1>7. InOrder(x, view, shaken')
  BY <1>1, <1>2, <1>5, <1>6, ViewFacts, ReadKeepsOrder
<1>8. Seen(docs, x.own, x.locks) = view
  BY <1>3, <1>6 DEF View
<1>9. ASSUME NEW q \in Requests \ {p}, NEW n \in Touched(p)', n \in Touched(q)
      PROVE  n \in shaken'
  <2>1. n \in Touches(x)
    BY <1>1, <1>3, TouchedAfter
  <2>2. CASE n = reqs[p].files[1].name
    BY <1>4, <1>9, <2>2 DEF Shaken
  <2>3. CASE n # reqs[p].files[1].name
    <3>1. n \in Touches(reqs[p])
      BY <1>3, <2>1, <2>3 DEF Touches
    <3>2. n \in Touched(p)
      BY <1>2, <3>1, TouchedTouches
    <3> QED BY <1>5, <1>9, <3>2 DEF OrderInv, TouchedAlone
  <2> QED BY <2>2, <2>3
<1> QED BY <1>1, <1>2, <1>5, <1>7, <1>8, <1>9, MoveKeepsOrder

LEMMA PutKeepsOrder ==
  ASSUME TypeOK, IdInv, OrderInv, NEW p \in Requests, Put(p)
  PROVE  OrderInv'
<1>1. PICK x : /\ Goto(p, x) /\ IsUpload(x)
               /\ x.pc = "insert" /\ x.files = reqs[p].files
               /\ x.own = reqs[p].own /\ x.locks = reqs[p].locks
               /\ x.previous = reqs[p].previous /\ x.version = reqs[p].version
  BY PutMakes
<1>2. Uploading(p) /\ reqs[p].pc = "put" /\ docs' = docs /\ shaken' = shaken
  BY DEF Put, Uploading
<1>3. PICK view : view = View(p)
  OBVIOUS
<1>4. InOrder(reqs[p], view, shaken)
  BY <1>2, <1>3, ViewFacts
<1>5. InOrder(x, view, shaken')
  BY <1>1, <1>2, <1>4 DEF InOrder, Supersedes, Follows, Ahead
<1>6. Seen(docs, x.own, x.locks) = view
  BY <1>1, <1>3 DEF View
<1>7. Touched(p)' = Touched(p)
  <2>1. Touched(p)' = Touches(x) /\ Touched(p) = Touches(reqs[p])
    BY <1>1, <1>2, TouchedAfter, TouchedTouches
  <2> QED BY <1>1, <1>2, <2>1 DEF Touches
<1>8. \A q \in Requests \ {p} : \A n \in Touched(p)' : n \in Touched(q) => n \in shaken'
  BY <1>2, <1>7 DEF OrderInv, TouchedAlone
<1> QED BY <1>1, <1>2, <1>5, <1>6, <1>8, MoveKeepsOrder

LEMMA InsertStepKeepsOrder ==
  ASSUME TypeOK, IdInv, OrderInv, NEW p \in Requests, Insert(p)
  PROVE  OrderInv'
<1>1. /\ reqs[p].pc = "insert" /\ Uploading(p) /\ docs' = docs /\ shaken' = shaken
      /\ reqs[p].previous \subseteq DOMAIN View(p)
  BY DEF Insert, Uploading
<1>2. PICK x : Goto(p, x) /\ IsUpload(x) /\ Inserted(reqs[p], x, issued + 1)
  BY InsertMakes DEF IdInv, IdsAreOnce
<1>3. issued + 1 \notin DOMAIN docs /\ issued + 1 \notin DOMAIN reqs[p].own
  <2>1. issued \in Nat /\ OwnIds(p) = DOMAIN reqs[p].own
    BY <1>1 DEF TypeOK, OwnIds
  <2>2. ~(issued + 1 <= issued)
    BY <2>1
  <2> QED BY <2>1, <2>2 DEF IdInv, IdsAreOnce
<1>4. PICK rows, old, view, seen, new, s :
        /\ rows = docs /\ old = reqs[p] /\ view = View(p)
        /\ seen = Seen(docs, x.own, x.locks) /\ new = issued + 1 /\ s = shaken
  OBVIOUS
<1>5. IsTable(x.own, Row) /\ IsTable(rows, Row)
  BY <1>2, <1>4 DEF IsUpload, TypeOK
<1>6. /\ IsTable(old.own, Row) /\ InOrder(old, view, s)
      /\ \A d \in old.locks : d \in DOMAIN rows
      /\ \A d \in DOMAIN old.own : d \notin DOMAIN rows
  BY <1>1, <1>4, ViewFacts
<1>7. InOrder(x, seen, s)
  <2>1. /\ old.pc = "insert" /\ old.previous \subseteq DOMAIN view
        /\ new \notin DOMAIN rows /\ new \notin DOMAIN old.own
    BY <1>1, <1>3, <1>4
  <2>2. view = Seen(rows, old.own, old.locks)
    BY <1>4 DEF View
  <2>3. seen = Seen(rows, x.own, x.locks)
    BY <1>4
  <2>4. Inserted(old, x, new)
    BY <1>2, <1>4
  <2> QED BY <1>5, <1>6, <2>1, <2>2, <2>3, <2>4, InsertKeepsOrder
<1>8. Touched(p)' \subseteq Touched(p)
  <2>1. Touched(p)' = Touches(x) /\ Touched(p) = Touches(old)
    BY <1>1, <1>2, <1>4, TouchedAfter, TouchedTouches DEF Inserted
  <2>2. /\ x.pc \in {"read", "commit"} /\ x.own[new].name = old.files[1].name
        /\ \A d \in DOMAIN x.own : d \in DOMAIN old.own \/ d = new
        /\ \A d \in DOMAIN old.own : d # new => x.own[d].name = old.own[d].name
    BY <1>2, <1>4 DEF Inserted
  <2> QED BY <1>1, <1>4, <2>1, <2>2 DEF Touches
<1>9. \A q \in Requests \ {p} : \A n \in Touched(p)' : n \in Touched(q) => n \in shaken'
  BY <1>1, <1>8 DEF OrderInv, TouchedAlone
<1> QED BY <1>1, <1>2, <1>4, <1>7, <1>9, MoveKeepsOrder

\* Uploads of others keep their order when the committed rows change, as long as no row
\* of a name they touch is added, unless the name is shaken.
LEMMA ChangeKeepsOthers ==
  ASSUME TypeOK, IdInv, OrderInv, IsTable(docs', Row),
         \A n \in Names \ shaken : Quiet(docs', n),
         NEW q \in Requests, Uploading(q),
         \A d \in reqs[q].locks : d \in DOMAIN docs',
         \A d \in DOMAIN docs : d \in DOMAIN docs' =>
           /\ docs'[d].name = docs[d].name /\ docs'[d].version = docs[d].version
           /\ docs'[d].latest => docs[d].latest,
         \A d \in DOMAIN docs' : d \notin DOMAIN docs =>
           /\ d \notin OwnIds(q) /\ (Versioning(q) => d \notin reqs[q].previous)
           /\ docs'[d].name \notin shaken => docs'[d].name \notin Touched(q)
  PROVE  InOrder(reqs[q], Seen(docs', reqs[q].own, reqs[q].locks), shaken)
<1>1. PICK rows, next, x, view, seen, s :
        /\ rows = docs /\ next = docs' /\ x = reqs[q] /\ view = View(q)
        /\ seen = Seen(docs', x.own, x.locks) /\ s = shaken
  OBVIOUS
<1>2. /\ IsTable(rows, Row) /\ IsTable(next, Row) /\ IsTable(x.own, Row)
      /\ view = Seen(rows, x.own, x.locks) /\ seen = Seen(next, x.own, x.locks)
      /\ InOrder(x, view, s)
  BY <1>1, ViewFacts DEF TypeOK, View
<1>3. /\ \A d \in x.locks : d \in DOMAIN rows /\ d \in DOMAIN next
      /\ \A d \in DOMAIN x.own : d \notin DOMAIN rows /\ d \notin DOMAIN next
  BY <1>1, ViewFacts DEF OwnIds
<1>4. \A d \in DOMAIN next : d \notin DOMAIN rows =>
        /\ next[d].name \notin s => next[d].name \notin Touches(x)
        /\ x.pc \in {"put", "insert"} => d \notin x.previous
  BY <1>1, TouchedTouches DEF Versioning
<1>5. \A d \in DOMAIN rows : d \in DOMAIN next =>
        /\ next[d].name = rows[d].name /\ next[d].version = rows[d].version
        /\ next[d].latest => rows[d].latest
  BY <1>1
<1>6. \A n \in Names \ s : Quiet(next, n)
  BY <1>1
<1>7. InOrder(x, seen, s)
  BY <1>2, <1>3, <1>4, <1>5, <1>6, OthersKeepOrder
<1> QED BY <1>1, <1>7

\* The committed rows change: requests stay where they are or are over, and new rows are
\* those of requests that are over.
LEMMA ChangeKeepsOrder ==
  ASSUME TypeOK, IdInv, OrderInv, IdInv', shaken' = shaken,
         \A q \in Requests : reqs'[q] = reqs[q] \/ reqs'[q] = Idle,
         IsTable(docs', Row), Newest(docs'), \A n \in Names \ shaken : Quiet(docs', n),
         \A d \in DOMAIN docs : d \in DOMAIN docs' =>
           /\ docs'[d].name = docs[d].name /\ docs'[d].version = docs[d].version
           /\ docs'[d].latest => docs[d].latest,
         \A d \in DOMAIN docs' : d \notin DOMAIN docs =>
           \E p \in Requests :
             reqs'[p] = Idle /\ d \in OwnIds(p) /\ docs'[d].name \in Touched(p)
  PROVE  OrderInv'
<1>1. \A q \in Requests : \A n : n \in Touched(q)' => n \in Touched(q)
  BY IdleIsPlace DEF Touched, Uploading
<1>2. TouchedAlone'
  BY <1>1 DEF OrderInv, TouchedAlone
<1>3. ASSUME NEW q \in Requests, Uploading(q)'
      PROVE  InOrder(reqs'[q], Seen(docs', reqs'[q].own, reqs'[q].locks), shaken')
  <2>1. reqs'[q] = reqs[q] /\ reqs'[q] # Idle /\ Uploading(q)
    BY <1>3, IdleIsPlace DEF Uploading
  <2>2. \A d \in reqs[q].locks : d \in DOMAIN docs'
    BY <2>1 DEF IdInv, LocksAreOnRows
  <2>3. ASSUME NEW d \in DOMAIN docs', d \notin DOMAIN docs
        PROVE  /\ d \notin OwnIds(q) /\ (Versioning(q) => d \notin reqs[q].previous)
               /\ docs'[d].name \notin shaken => docs'[d].name \notin Touched(q)
    <3>1. PICK p \in Requests :
            reqs'[p] = Idle /\ d \in OwnIds(p) /\ docs'[d].name \in Touched(p)
      BY <2>3
    <3>2. p # q
      BY <2>1, <3>1
    <3>3. d \notin OwnIds(q)
      BY <3>1, <3>2 DEF IdInv, IdsAreOnce
    <3>4. Versioning(q) => d \notin reqs[q].previous
      BY <3>1, <3>2 DEF IdInv, ReadsAreOld
    <3>5. docs'[d].name \notin shaken => docs'[d].name \notin Touched(q)
      BY <3>1, <3>2 DEF OrderInv, TouchedAlone
    <3> QED BY <3>3, <3>4, <3>5
  <2>4. InOrder(reqs[q], Seen(docs', reqs[q].own, reqs[q].locks), shaken)
    BY <2>1, <2>2, <2>3, ChangeKeepsOthers
  <2> QED BY <2>1, <2>4
<1>4. \A q \in Requests : Uploading(q)' => InOrder(reqs[q], View(q), shaken)'
  BY <1>3 DEF View, InOrder, Supersedes, Follows, Ahead, Quiet
<1> QED BY <1>2, <1>4 DEF OrderInv, Newest, Quiet

LEMMA CommitUploadKeepsOrder ==
  ASSUME TypeOK, IdInv, OrderInv, IdInv', NEW p \in Requests, CommitUpload(p)
  PROVE  OrderInv'
<1>1. Uploading(p) /\ shaken' = shaken /\ docs' = View(p)
  BY DEF CommitUpload, Uploading
<1>2. \A q \in Requests : reqs'[q] = reqs[q] \/ reqs'[q] = Idle
  BY GotoPlace DEF CommitUpload
<1>3. Newest(docs') /\ \A n \in Names \ shaken : Quiet(docs', n)
  <2>1. Newest(View(p)) /\ \A n \in Names \ shaken : Quiet(View(p), n)
    BY <1>1, ViewFacts DEF InOrder
  <2> QED BY <1>1, <2>1
<1>4. ASSUME NEW d \in DOMAIN docs', d \notin DOMAIN docs
      PROVE  reqs'[p] = Idle /\ d \in OwnIds(p) /\ docs'[d].name \in Touched(p)
  <2>1. d \in DOMAIN reqs[p].own /\ docs'[d] = reqs[p].own[d] /\ Goto(p, Idle)
    BY <1>4, CommitUploadMakes
  <2> QED BY <1>1, <2>1, GotoPlace DEF OwnIds, Touched
<1> QED BY <1>1, <1>2, <1>3, <1>4, CommitUploadMakes, ChangeKeepsOrder

\* A purge takes no latest version, so what is superseded keeps its successor.
LEMMA CommitPurgeKeepsOrder ==
  ASSUME TypeOK, IdInv, OrderInv, IdInv', NEW p \in Requests, CommitPurge(p)
  PROVE  OrderInv'
<1>1. shaken' = shaken
  BY DEF CommitPurge
<1>2. \A q \in Requests : reqs'[q] = reqs[q] \/ reqs'[q] = Idle
  BY GotoPlace DEF CommitPurge
<1>3. /\ IsTable(docs', Row)
      /\ \A d : d \in DOMAIN docs' <=> d \in DOMAIN docs /\ d \notin reqs[p].locks
      /\ \A d \in DOMAIN docs' : docs'[d] = docs[d]
      /\ \A d \in reqs[p].locks : ~docs[d].latest
  BY CommitPurgeMakes DEF IdInv, PurgesTakeOld
<1>4. Newest(docs')
  BY <1>3 DEF OrderInv, Newest
<1>5. \A n \in Names \ shaken : Quiet(docs', n)
  BY <1>3, QuietInherits DEF OrderInv
<1> QED BY <1>1, <1>2, <1>3, <1>4, <1>5, ChangeKeepsOrder

LEMMA CiteKeepsOrder ==
  ASSUME TypeOK, IdInv, OrderInv, IdInv', NEW c \in DOMAIN docs, Cite(c)
  PROVE  OrderInv'
<1>1. shaken' = shaken /\ reqs' = reqs
  BY DEF Cite
<1>2. /\ IsTable(docs', Row) /\ DOMAIN docs' = DOMAIN docs
      /\ \A d \in DOMAIN docs :
           /\ docs'[d].name = docs[d].name /\ docs'[d].version = docs[d].version
           /\ docs'[d].latest => docs[d].latest
           /\ docs[d].latest => docs'[d].latest
  BY CiteMakes
<1>3. Newest(docs')
  BY <1>2 DEF OrderInv, Newest
<1>4. \A n \in Names \ shaken : Quiet(docs', n)
  BY <1>2, QuietInherits DEF OrderInv
<1> QED BY <1>1, <1>2, <1>3, <1>4, ChangeKeepsOrder

LEMMA OrderStays ==
  ASSUME TypeOK, IdInv, OrderInv, IdInv', [Next]_vars
  PROVE  OrderInv'
<1>1. ASSUME NEW p \in Requests, NEW x, Goto(p, x), docs' = docs, shaken' = shaken,
             x.pc \notin {"read", "put", "insert", "commit"}
      PROVE  OrderInv'
  BY <1>1, TouchedAfter, MoveKeepsOrder
<1>2. ASSUME NEW p \in Requests, BeginPurge(p) \/ DeleteBlob(p) \/ DeleteRows(p) PROVE OrderInv'
  <2>1. docs' = docs /\ shaken' = shaken
    BY <1>2 DEF BeginPurge, DeleteBlob, DeleteRows
  <2>2. PICK x : Goto(p, x) /\ x.pc \in {"delete", "deleted"}
    BY <1>2, PurgeMakes
  <2> QED BY <1>1, <2>1, <2>2
<1>3. ASSUME NEW p \in Requests, Fail(p) PROVE OrderInv'
  BY <1>1, <1>3, IdleIsPlace DEF Fail
<1>4. CASE UNCHANGED vars
  <2>1. docs' = docs /\ shaken' = shaken /\ reqs' = reqs
    BY <1>4 DEF vars
  <2> QED BY <2>1 DEF OrderInv, Newest, Quiet, TouchedAlone, Touched, Uploading, View, InOrder,
                      Supersedes, Follows, Ahead
<1> QED BY <1>2, <1>3, <1>4, BeginKeepsOrder, ReadLatestKeepsOrder, PutKeepsOrder,
           InsertStepKeepsOrder, CommitUploadKeepsOrder, CommitPurgeKeepsOrder, CiteKeepsOrder
        DEF Next

LEMMA OrderIsInductive == Spec => [](TypeOK /\ IdInv /\ OrderInv)
<1>1. Init => OrderInv
  <2> SUFFICES ASSUME Init PROVE OrderInv
    OBVIOUS
  <2>1. DOMAIN docs = {} /\ \A p \in Requests : ~Uploading(p)
    BY IdleIsPlace, EmptyIsTable DEF Init, Uploading
  <2> QED BY <2>1 DEF OrderInv, Newest, Quiet, TouchedAlone, Touched
<1>2. (TypeOK /\ IdInv) /\ (TypeOK /\ IdInv)' /\ OrderInv /\ [Next]_vars => OrderInv'
  BY OrderStays
<1> QED BY <1>1, <1>2, IdsAreInductive, PTL DEF Spec

\* In every reachable state a superseded version has a newer one that is the latest, and
\* versions of a name whose uploads never overlapped are numbered without repetition.
THEOREM VersionsStayInOrder == Spec => []VersionsAreInOrder
<1>1. TypeOK /\ OrderInv => VersionsAreInOrder
  <2> SUFFICES ASSUME TypeOK, OrderInv PROVE NewestIsLatest /\ QuietVersions
    BY DEF VersionsAreInOrder
  <2>1. NewestIsLatest
    BY DEF OrderInv, Newest, NewestIsLatest, Superseded, LatestOf
  <2>2. QuietVersions
    <3>1. \A d \in DOMAIN docs : docs[d].name \in Names
      BY VersionsAreInt DEF TypeOK
    <3> QED BY <3>1 DEF OrderInv, Quiet, QuietVersions
  <2> QED BY <2>1, <2>2
<1> QED BY <1>1, OrderIsInductive, PTL

-----------------------------------------------------------------------------
\* The bytes of what was inserted stay in storage until a purge deletes them, and so do
\* those of the file that an upload is about to insert.

KeptAt(x, keys) ==
  /\ \A d \in DOMAIN x.own : Key(x.own[d]) \in keys
  /\ x.pc = "insert" => Key(x.files[1]) \in keys

KeysAreKept ==
  /\ ReadableUnlessPurged
  /\ \A p \in Requests : Uploading(p) => KeptAt(reqs[p], blobs \cup purged)

LEMMA SameKey ==
  ASSUME NEW f, NEW g, f.name = g.name, f.content = g.content
  PROVE  Key(f) = Key(g)
BY DEF Key

\* A request that moves on while the committed rows stay and no key is lost.
LEMMA MoveKeepsKeys ==
  ASSUME TypeOK, KeysAreKept, NEW p \in Requests, NEW x, Goto(p, x), docs' = docs,
         blobs \cup purged \subseteq blobs' \cup purged',
         x.pc \in {"read", "put", "insert", "commit"} => KeptAt(x, blobs' \cup purged')
  PROVE  KeysAreKept'
<1>1. reqs'[p] = x /\ \A q \in Requests \ {p} : reqs'[q] = reqs[q]
  BY GotoPlace
<1>2. \A d \in DOMAIN docs' : Key(docs'[d]) \in blobs' \cup purged'
  BY DEF KeysAreKept, ReadableUnlessPurged
<1>3. \A q \in Requests : Uploading(q)' => KeptAt(reqs'[q], blobs' \cup purged')
  BY <1>1 DEF KeysAreKept, KeptAt, Uploading
<1> QED BY <1>2, <1>3 DEF KeysAreKept, ReadableUnlessPurged, KeptAt, Key

\* The committed rows change: their keys are those of old rows or of uploads.
LEMMA ChangeKeepsKeys ==
  ASSUME KeysAreKept, blobs' = blobs, purged' = purged,
         \A q \in Requests : reqs'[q] = reqs[q] \/ reqs'[q] = Idle,
         \A d \in DOMAIN docs' :
           \/ d \in DOMAIN docs /\ Key(docs'[d]) = Key(docs[d])
           \/ \E p \in Requests :
                Uploading(p) /\ d \in DOMAIN reqs[p].own /\ docs'[d] = reqs[p].own[d]
  PROVE  KeysAreKept'
<1>1. \A d \in DOMAIN docs' : Key(docs'[d]) \in blobs' \cup purged'
  BY DEF KeysAreKept, ReadableUnlessPurged, KeptAt
<1>2. \A q \in Requests : Uploading(q)' => KeptAt(reqs'[q], blobs' \cup purged')
  BY IdleIsPlace DEF KeysAreKept, Uploading
<1> QED BY <1>1, <1>2 DEF KeysAreKept, ReadableUnlessPurged, KeptAt, Key

LEMMA InsertKeepsKeys ==
  ASSUME TypeOK, IdInv, KeysAreKept, NEW p \in Requests, Insert(p)
  PROVE  KeysAreKept'
<1>1. reqs[p].pc = "insert" /\ Uploading(p) /\ docs' = docs /\ blobs' = blobs /\ purged' = purged
  BY DEF Insert, Uploading
<1>2. PICK x : Goto(p, x) /\ IsUpload(x) /\ Inserted(reqs[p], x, issued + 1)
  BY InsertMakes DEF IdInv, IdsAreOnce
<1>3. KeptAt(reqs[p], blobs \cup purged)
  BY <1>1 DEF KeysAreKept
<1>4. \A d \in DOMAIN x.own : Key(x.own[d]) \in blobs \cup purged
  <2> SUFFICES ASSUME NEW d \in DOMAIN x.own PROVE Key(x.own[d]) \in blobs \cup purged
    OBVIOUS
  <2>1. CASE d = issued + 1
    <3>1. Key(x.own[d]) = Key(reqs[p].files[1])
      BY <1>2, <2>1, SameKey DEF Inserted
    <3> QED BY <1>1, <1>3, <3>1 DEF KeptAt
  <2>2. CASE d # issued + 1
    <3>1. d \in DOMAIN reqs[p].own /\ Key(x.own[d]) = Key(reqs[p].own[d])
      BY <1>2, <2>2, SameKey DEF Inserted
    <3> QED BY <1>3, <3>1 DEF KeptAt
  <2> QED BY <2>1, <2>2
<1>5. KeptAt(x, blobs' \cup purged')
  BY <1>1, <1>2, <1>4 DEF KeptAt, Inserted
<1> QED BY <1>1, <1>2, <1>5, MoveKeepsKeys

LEMMA UploadKeepsKeys ==
  ASSUME TypeOK, KeysAreKept, NEW p \in Requests, BeginUpload(p) \/ ReadLatest(p) \/ Put(p)
  PROVE  KeysAreKept'
<1>1. CASE BeginUpload(p)
  <2>1. PICK x : Goto(p, x) /\ x.pc = "read" /\ x.own = <<>>
    BY <1>1, BeginMakes
  <2>2. docs' = docs /\ blobs' = blobs /\ purged' = purged /\ DOMAIN x.own = {}
    BY <1>1, <2>1, EmptyIsTable DEF BeginUpload
  <2>3. KeptAt(x, blobs' \cup purged')
    BY <2>1, <2>2 DEF KeptAt
  <2> QED BY <2>1, <2>2, <2>3, MoveKeepsKeys
<1>2. CASE ReadLatest(p)
  <2>1. PICK x : Goto(p, x) /\ Reads(reqs[p], x, View(p))
    BY <1>2, ReadMakes
  <2>2. docs' = docs /\ blobs' = blobs /\ purged' = purged /\ Uploading(p)
    BY <1>2 DEF ReadLatest, Uploading
  <2>3. KeptAt(x, blobs' \cup purged')
    BY <2>1, <2>2 DEF KeysAreKept, KeptAt, Reads
  <2> QED BY <2>1, <2>2, <2>3, MoveKeepsKeys
<1>3. CASE Put(p)
  <2>1. PICK x : /\ Goto(p, x) /\ x.pc = "insert"
                 /\ x.files = reqs[p].files /\ x.own = reqs[p].own
    BY <1>3, PutMakes
  <2>2. PICK key : key = Key(reqs[p].files[1])
    OBVIOUS
  <2>3. /\ docs' = docs /\ blobs' = blobs \cup {key} /\ purged' = purged \ {key}
        /\ Uploading(p)
    BY <1>3, <2>2 DEF Put, Uploading
  <2>4. blobs \cup purged \subseteq blobs' \cup purged' /\ key \in blobs' \cup purged'
    BY <2>3
  <2>5. KeptAt(reqs[p], blobs \cup purged)
    BY <2>3 DEF KeysAreKept
  <2>6. KeptAt(x, blobs' \cup purged')
    BY <2>1, <2>2, <2>4, <2>5 DEF KeptAt
  <2> QED BY <2>1, <2>3, <2>4, <2>6, MoveKeepsKeys
<1> QED BY <1>1, <1>2, <1>3

LEMMA PurgeKeepsKeys ==
  ASSUME TypeOK, KeysAreKept, NEW p \in Requests,
         BeginPurge(p) \/ DeleteBlob(p) \/ DeleteRows(p) \/ Fail(p)
  PROVE  KeysAreKept'
<1>1. docs' = docs
  BY DEF BeginPurge, DeleteBlob, DeleteRows, Fail
<1>2. PICK x : Goto(p, x) /\ x.pc \notin {"read", "put", "insert", "commit"}
  <2>1. CASE Fail(p)
    BY <2>1, IdleIsPlace DEF Fail
  <2>2. CASE ~Fail(p)
    BY <2>2, PurgeMakes
  <2> QED BY <2>1, <2>2
<1>3. blobs \cup purged \subseteq blobs' \cup purged'
  <2>1. CASE DeleteBlob(p)
    <3>1. \/ UNCHANGED <<blobs, purged>>
          \/ \E key : blobs' = blobs \ {key} /\ purged' = purged \cup {key}
      BY <2>1 DEF DeleteBlob
    <3> QED BY <3>1
  <2>2. CASE ~DeleteBlob(p)
    BY <2>2 DEF BeginPurge, DeleteRows, Fail
  <2> QED BY <2>1, <2>2
<1> QED BY <1>1, <1>2, <1>3, MoveKeepsKeys

LEMMA CommitKeepsKeys ==
  ASSUME TypeOK, IdInv, KeysAreKept, NEW p \in Requests, CommitUpload(p) \/ CommitPurge(p)
  PROVE  KeysAreKept'
<1>1. blobs' = blobs /\ purged' = purged /\ Goto(p, Idle)
  BY DEF CommitUpload, CommitPurge
<1>2. \A q \in Requests : reqs'[q] = reqs[q] \/ reqs'[q] = Idle
  BY <1>1, GotoPlace
<1>3. CASE CommitUpload(p)
  <2>1. /\ Uploading(p)
        /\ \A d : d \in DOMAIN docs' <=> d \in DOMAIN docs \/ d \in DOMAIN reqs[p].own
        /\ \A d \in DOMAIN reqs[p].own : docs'[d] = reqs[p].own[d]
        /\ \A d \in DOMAIN docs :
             docs'[d].name = docs[d].name /\ docs'[d].content = docs[d].content
    BY <1>3, CommitUploadMakes
  <2>2. \A d \in DOMAIN docs : Key(docs'[d]) = Key(docs[d])
    BY <2>1, SameKey
  <2> QED BY <1>1, <1>2, <2>1, <2>2, ChangeKeepsKeys
<1>4. CASE CommitPurge(p)
  <2>1. \A d \in DOMAIN docs' : d \in DOMAIN docs /\ docs'[d] = docs[d]
    BY <1>4, CommitPurgeMakes
  <2> QED BY <1>1, <1>2, <2>1, ChangeKeepsKeys
<1> QED BY <1>3, <1>4

LEMMA CiteKeepsKeys ==
  ASSUME TypeOK, KeysAreKept, NEW c \in DOMAIN docs, Cite(c)
  PROVE  KeysAreKept'
<1>1. blobs' = blobs /\ purged' = purged /\ reqs' = reqs
  BY DEF Cite
<1>2. \A d \in DOMAIN docs' : d \in DOMAIN docs /\ Key(docs'[d]) = Key(docs[d])
  BY CiteMakes, SameKey
<1> QED BY <1>1, <1>2, ChangeKeepsKeys

\* In every reachable state the bytes of each version are in storage, unless a purge
\* deleted equal bytes of the same name that were not put again.
THEOREM VersionsAreReadable == Spec => []ReadableUnlessPurged
<1>1. Init => KeysAreKept
  <2> SUFFICES ASSUME Init PROVE KeysAreKept
    OBVIOUS
  <2>1. DOMAIN docs = {} /\ \A p \in Requests : ~Uploading(p)
    BY IdleIsPlace, EmptyIsTable DEF Init, Uploading
  <2> QED BY <2>1 DEF KeysAreKept, ReadableUnlessPurged
<1>2. TypeOK /\ IdInv /\ KeysAreKept /\ [Next]_vars => KeysAreKept'
  <2>1. ASSUME KeysAreKept, UNCHANGED vars PROVE KeysAreKept'
    BY <2>1 DEF vars, KeysAreKept, ReadableUnlessPurged, KeptAt, Key, Uploading
  <2> QED BY <2>1, UploadKeepsKeys, InsertKeepsKeys, PurgeKeepsKeys, CommitKeepsKeys,
             CiteKeepsKeys DEF Next
<1>3. KeysAreKept => ReadableUnlessPurged
  BY DEF KeysAreKept
<1> QED BY <1>1, <1>2, <1>3, IdsAreInductive, PTL DEF Spec
=============================================================================
