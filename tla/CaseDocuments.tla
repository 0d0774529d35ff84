--------------------------- MODULE CaseDocuments ---------------------------
(***************************************************************************)
(* The documents of one case: uploads, which make a new version of a       *)
(* document of the same name, and the purge of superseded versions.        *)
(*                                                                         *)
(* A request is one transaction of the database (READ COMMITTED), which    *)
(* get_db commits or rolls back at the end.  Object storage knows no       *)
(* transactions: what was put or deleted there stays so.  Requests         *)
(* interleave where they wait for the database or for the storage.         *)
(*                                                                         *)
(* A content stands for the SHA-256 of the bytes.                          *)
(***************************************************************************)
EXTENDS Integers, Sequences, FiniteSets, SequencesExt

CONSTANTS
  Names,        \* file names
  SafeName(_),  \* the last component of a file name
  Contents,     \* contents of files
  Requests,     \* requests that can be in progress at a time
  MaxFiles,     \* files of one upload
  MaxRequests,  \* bound: requests
  MaxDocuments  \* bound: rows ever inserted

ASSUME DocumentsAssumption == {MaxFiles, MaxRequests, MaxDocuments} \subseteq Nat

Files == [name : Names, content : Contents]

VARIABLES
  docs,    \* the committed rows of case_documents by id
  blobs,   \* the keys in object storage
  reqs,    \* reqs[p]: where request p is
  issued,  \* ids issued so far
  begun,   \* requests begun so far
  purged,  \* history: keys that a purge deleted and that were not put again
  shaken   \* history: names that were uploaded by two overlapping requests

vars == <<docs, blobs, reqs, issued, begun, purged, shaken>>

Idle == [pc |-> "idle", locks |-> {}]

\* The object-storage key of a file, within the case.
Key(f) == [name |-> SafeName(f.name), content |-> f.content]

Goto(p, place) == reqs' = [reqs EXCEPT ![p] = place]

\* Rows another request has updated or deleted and not committed yet.
LockedByOthers(p) == UNION {reqs[q].locks : q \in Requests \ {p}}

-----------------------------------------------------------------------------
\* Uploads: attach_document for one file after another.

Uploading(p) == reqs[p].pc \in {"read", "put", "insert", "commit"}

\* Committed rows as a transaction sees them that inserted some and superseded others.
Seen(rows, own, superseded) ==
  [d \in DOMAIN rows \cup DOMAIN own |->
    IF d \in DOMAIN own THEN own[d]
    ELSE IF d \in superseded THEN [rows[d] EXCEPT !.latest = FALSE] ELSE rows[d]]

\* The rows as an upload sees them: what it did itself is visible to it.
View(p) == Seen(docs, reqs[p].own, reqs[p].locks)

Begin(p) == reqs[p] = Idle /\ begun < MaxRequests /\ begun' = begun + 1

BeginUpload(p) ==
  /\ Begin(p)
  /\ \E files \in BoundedSeq(Files, MaxFiles) \ {<<>>} :
       Goto(p, [pc |-> "read", files |-> files, own |-> <<>>, locks |-> {}])
  /\ UNCHANGED <<docs, blobs, issued, purged, shaken>>

LatestOf(rows, name) == {d \in DOMAIN rows : rows[d].name = name /\ rows[d].latest}

\* The names whose version request p has read or written.
Touched(p) ==
  IF ~Uploading(p) THEN {}
  ELSE {reqs[p].own[d].name : d \in DOMAIN reqs[p].own}
         \cup (IF reqs[p].pc \in {"put", "insert"} THEN {reqs[p].files[1].name} ELSE {})

\* The version that follows the previous one, if any.
Following(p, previous, version) ==
  [pc |-> "put", files |-> reqs[p].files, own |-> reqs[p].own, locks |-> reqs[p].locks,
   previous |-> previous, version |-> version]

Shaken(p, name) ==
  IF \E q \in Requests \ {p} : name \in Touched(q) THEN shaken \cup {name} ELSE shaken

ReadLatest(p) ==
  /\ reqs[p].pc = "read"
  /\ LET name == reqs[p].files[1].name
         latest == LatestOf(View(p), name)
     IN
     /\ \/ latest = {} /\ Goto(p, Following(p, {}, 1))
        \/ \E d \in latest : Goto(p, Following(p, {d}, View(p)[d].version + 1))
     /\ shaken' = Shaken(p, name)
  /\ UNCHANGED <<docs, blobs, issued, begun, purged>>

Put(p) ==
  /\ reqs[p].pc = "put"
  /\ LET key == Key(reqs[p].files[1]) IN blobs' = blobs \cup {key} /\ purged' = purged \ {key}
  /\ Goto(p, [reqs[p] EXCEPT !.pc = "insert"])
  /\ UNCHANGED <<docs, issued, begun, shaken>>

\* The flush updates the previous row, waiting for others that do so, and inserts the new
\* one.  If the previous row was deleted meanwhile the request fails.
Insert(p) ==
  /\ reqs[p].pc = "insert"
  /\ issued < MaxDocuments /\ issued' = issued + 1
  /\ LET own == reqs[p].own
         previous == reqs[p].previous
         file == reqs[p].files[1]
         row == [name |-> file.name, content |-> file.content, version |-> reqs[p].version,
                 latest |-> TRUE, cited |-> FALSE]
         files == Tail(reqs[p].files)
     IN
     /\ previous \subseteq DOMAIN View(p)
     /\ previous \cap LockedByOthers(p) = {}
     /\ Goto(p, [pc |-> IF files = <<>> THEN "commit" ELSE "read", files |-> files,
                 own |-> [d \in DOMAIN own \cup {issued'} |->
                           IF d = issued' THEN row
                           ELSE IF d \in previous THEN [own[d] EXCEPT !.latest = FALSE] ELSE own[d]],
                 locks |-> reqs[p].locks \cup (previous \ DOMAIN own)])
  /\ UNCHANGED <<docs, blobs, begun, purged, shaken>>

CommitUpload(p) ==
  /\ reqs[p].pc = "commit"
  /\ docs' = View(p)
  /\ Goto(p, Idle)
  /\ UNCHANGED <<blobs, issued, begun, purged, shaken>>

-----------------------------------------------------------------------------
\* Purges.

Superseded == {d \in DOMAIN docs : ~docs[d].latest}

BeginPurge(p) ==
  /\ Begin(p)
  /\ Superseded # {}
  /\ Goto(p, [pc |-> "delete", old |-> [d \in Superseded |-> Key(docs[d])], left |-> Superseded, locks |-> {}])
  /\ UNCHANGED <<docs, blobs, issued, purged, shaken>>

\* A blob is deleted at once; an error of the storage is ignored.
DeleteBlob(p) ==
  /\ reqs[p].pc = "delete"
  /\ \E d \in reqs[p].left :
       /\ \/ blobs' = blobs \ {reqs[p].old[d]} /\ purged' = purged \cup {reqs[p].old[d]}
          \/ UNCHANGED <<blobs, purged>>
       /\ Goto(p, [reqs[p] EXCEPT !.left = @ \ {d}])
  /\ UNCHANGED <<docs, issued, begun, shaken>>

\* The rows are deleted when all blobs were, unless one of them is cited: then the
\* request fails.
DeleteRows(p) ==
  /\ reqs[p].pc = "delete" /\ reqs[p].left = {}
  /\ LET rows == DOMAIN reqs[p].old \cap DOMAIN docs IN
     /\ rows \cap LockedByOthers(p) = {}
     /\ \A d \in rows : ~docs[d].cited
     /\ Goto(p, [pc |-> "deleted", locks |-> rows])
  /\ UNCHANGED <<docs, blobs, issued, begun, purged, shaken>>

CommitPurge(p) ==
  /\ reqs[p].pc = "deleted"
  /\ docs' = [d \in DOMAIN docs \ reqs[p].locks |-> docs[d]]
  /\ Goto(p, Idle)
  /\ UNCHANGED <<blobs, issued, begun, purged, shaken>>

-----------------------------------------------------------------------------
\* Mutant: an upload that fails deletes what it has put.
FailCleaning(p) ==
  /\ reqs[p] # Idle
  /\ IF reqs[p].pc = "insert" THEN blobs' = blobs \ {Key(reqs[p].files[1])} ELSE blobs' = blobs
  /\ Goto(p, Idle)
  /\ UNCHANGED <<docs, issued, begun, purged, shaken>>

\* Mutant: what was updated stays when the insertion is rolled back.
FailKeepingUpdates(p) ==
  /\ reqs[p] # Idle
  /\ docs' = IF Uploading(p) THEN [d \in DOMAIN docs |-> View(p)[d]] ELSE docs
  /\ Goto(p, Idle)
  /\ UNCHANGED <<blobs, issued, begun, purged, shaken>>

\* An error, or the end of the process: the transaction is rolled back.
Fail(p) ==
  /\ reqs[p] # Idle
  /\ Goto(p, Idle)
  /\ UNCHANGED <<docs, blobs, issued, begun, purged, shaken>>

\* An analysis cites a document, or compares it with another; the foreign key waits for
\* a deletion of the row.
Cite(d) ==
  /\ ~docs[d].cited
  /\ \A p \in Requests : reqs[p].pc = "deleted" => d \notin reqs[p].locks
  /\ docs' = [docs EXCEPT ![d].cited = TRUE]
  /\ UNCHANGED <<blobs, reqs, issued, begun, purged, shaken>>

Init ==
  /\ docs = <<>> /\ blobs = {}
  /\ reqs = [p \in Requests |-> Idle]
  /\ issued = 0 /\ begun = 0
  /\ purged = {} /\ shaken = {}

Next ==
  \/ \E p \in Requests :
       \/ BeginUpload(p) \/ ReadLatest(p) \/ Put(p) \/ Insert(p) \/ CommitUpload(p)
       \/ BeginPurge(p) \/ DeleteBlob(p) \/ DeleteRows(p) \/ CommitPurge(p)
       \/ Fail(p)
  \/ \E d \in DOMAIN docs : Cite(d)

Spec == Init /\ [][Next]_vars

-----------------------------------------------------------------------------
\* Properties.

Ids == 1..MaxDocuments

Row == [name : Names, content : Contents, version : Ids, latest : BOOLEAN, cited : BOOLEAN]

Keys == [name : {SafeName(n) : n \in Names}, content : Contents]

\* Rows, or their keys, by id.
IsTable(f, S) == DOMAIN f \subseteq Ids /\ f \in [DOMAIN f -> S]

IsUpload(x) ==
  /\ x.pc \in {"read", "put", "insert", "commit"}
  /\ \/ x \in [pc : {"read", "commit"}, files : Seq(Files), own : {x.own}, locks : SUBSET Ids]
     \/ x \in [pc : {"put", "insert"}, files : Seq(Files), own : {x.own}, locks : SUBSET Ids,
               previous : SUBSET Ids, version : 1..(MaxDocuments + 1)]
  /\ x.files = <<>> <=> x.pc = "commit"
  /\ IsTable(x.own, Row)

IsPurge(x) ==
  \/ /\ x.pc = "delete"
     /\ x \in [pc : {"delete"}, old : {x.old}, left : SUBSET DOMAIN x.old, locks : {{}}]
     /\ IsTable(x.old, Keys)
  \/ x \in [pc : {"deleted"}, locks : SUBSET Ids]

TypeOK ==
  /\ IsTable(docs, Row)
  /\ blobs \subseteq Keys /\ purged \subseteq Keys
  /\ DOMAIN reqs = Requests
  /\ \A p \in Requests : reqs[p] = Idle \/ IsUpload(reqs[p]) \/ IsPurge(reqs[p])
  /\ issued \in 0..MaxDocuments /\ begun \in 0..MaxRequests
  /\ shaken \subseteq Names

\* A superseded version has a newer one that is the latest, however uploads of one name
\* overlap with each other, with purges and with rollbacks: no document disappears.
NewestIsLatest ==
  \A d \in Superseded :
    \E e \in LatestOf(docs, docs[d].name) : docs[e].version > docs[d].version

\* The bytes of every version can be read, unless a purge deleted equal bytes under the
\* same name: then the row stays without them when it is the latest version, or when the
\* purge is rolled back.
ReadableUnlessPurged == \A d \in DOMAIN docs : Key(docs[d]) \in blobs \cup purged

\* As long as uploads of a name do not overlap, one version is the latest, and no two
\* have the same number.
QuietVersions ==
  \A d, e \in DOMAIN docs :
    /\ docs[d].name = docs[e].name /\ docs[d].name \notin shaken
    /\ (docs[d].latest /\ docs[e].latest) \/ docs[d].version = docs[e].version
    => d = e

\* Versions of one name stay in order: the newest is the latest, overlap or not, and
\* without overlap it is the only one.
VersionsAreInOrder == NewestIsLatest /\ QuietVersions

=============================================================================
