---------------------------- MODULE KisKnowledge ----------------------------
(***************************************************************************)
(* One knowledge base of the knowledge service: sources, facts, graph,     *)
(* articles, quality gates and snapshots, fed by index runs of the app     *)
(* (kis_client.index_uploaded_document_via_kis) and by curators.           *)
(*                                                                         *)
(* The service keeps its data in the memory of one process and handles a   *)
(* request without giving up the event loop: a request is one step.  After *)
(* a successful one a copy of the memory is written to the database, or    *)
(* not, if that fails or an older copy is written over it; a restart       *)
(* starts from the copy.  KisStore has the details of that protocol.       *)
(*                                                                         *)
(* A run is a series of requests.  Runs overlap, even runs for one record, *)
(* and fail between any two requests; the answer of a request can be lost, *)
(* and a request its client gave up on can arrive late, which is the same  *)
(* as a request of another run that then fails.                            *)
(*                                                                         *)
(* The knowledge base is alone in its domain.  An id is a record of what   *)
(* the object was made from and of the era, the number of restarts before  *)
(* it was made: within an era no second object is made from the same.      *)
(***************************************************************************)
EXTENDS Integers, Sequences, FiniteSets, FiniteSetsExt, Functions

CONSTANTS
  Records,      \* parse records of the app
  Documents,    \* other texts, which are ingested directly (as kis_policy_sync does)
  Claims,       \* what a fact can say of a record: a predicate and an object
  NodeOf(_),    \* the edge a claim makes: its predicate, and the node that objects differing in case share
  Extracted(_), \* the claims an index run extracts from a record, in order
  LinksTo(_),   \* the records and documents whose titles a text links to
  Clients,      \* index runs that can be in progress at a time
  None,         \* no source
  AutoPublish,  \* IQW_KIS_AUTO_PUBLISH_SNAPSHOT
  MaxSnapshots, \* bound: snapshots
  MaxEvents     \* bound: requests of curators, restarts, and runs that begin during another one

Texts == Records \cup Documents

ASSUME KnowledgeAssumption ==
  /\ \A r \in Records : Extracted(r) \in Seq(Claims) /\ Extracted(r) # <<>>
  /\ Records \cap Documents = {}
  /\ \A t \in Texts : LinksTo(t) \subseteq Texts
  /\ AutoPublish \in BOOLEAN
  /\ {MaxSnapshots, MaxEvents} \subseteq Nat

VARIABLES
  store,    \* the memory of the service
  saved,    \* the copy of it in the database
  runs,     \* runs[c]: where c's index run is
  events,   \* requests of curators, restarts and overlapping runs so far
  era,      \* restarts so far
  done      \* history: records some run reported as indexed

vars == <<store, saved, runs, events, era, done>>

Idle == [pc |-> "idle"]

-----------------------------------------------------------------------------
\* The store, and what the operations of the service make of it.

EmptyStore ==
  [sources   |-> <<>>,  \* the sources in the order in which they were ingested
   facts     |-> <<>>,  \* for each fact whether it is sure (0.5 or more) and approved
   edges     |-> <<>>,  \* for each edge, from a record to a node, the fact it was made of
   articles  |-> {},    \* articles, several equal ones counted once
   snapshots |-> <<>>,  \* for each version its status, and whether it was ever published
   evaluated |-> FALSE] \* whether there is an evaluation set, which may be older than the rest

\* Function f with the value v at a.
With(f, a, v) == [x \in DOMAIN f \cup {a} |-> IF x = a THEN v ELSE f[x]]

SourcesOf(st, t) == {s \in Range(st.sources) : s.text = t}

\* A new source; its version counts the sources of equal content.  Its text is cut into
\* chunks after it was stored: chunked is whether there is one.
Added(st, t, chunked) ==
  [st EXCEPT !.sources = Append(@, [text |-> t, version |-> Cardinality(SourcesOf(st, t)) + 1,
                                    era |-> era, chunked |-> chunked])]

\* Mutant: the record id is not compared.
IngestedAnew(st, r) == Added(st, r, TRUE)

\* A record that was ingested before, even by a request that broke off, is not ingested again.
Ingested(st, r) == IF SourcesOf(st, r) # {} THEN st ELSE Added(st, r, TRUE)

SameFact(st, r, claim, source) ==
  {f \in DOMAIN st.facts : f.record = r /\ f.claim = claim /\ f.source = source}

Stated(st, r, claim, source, sure) ==
  IF SameFact(st, r, claim, source) # {} THEN st
  ELSE [st EXCEPT !.facts = With(@, [record |-> r, claim |-> claim, source |-> source, era |-> era],
                                 [sure |-> sure, approved |-> FALSE])]

Reviewed(st, f, approved) == [st EXCEPT !.facts[f].approved = approved]

Approved(st) == {f \in DOMAIN st.facts : st.facts[f].approved}

EdgeKey(f) == <<f.record, NodeOf(f.claim)>>

\* The stores after the facts F were promoted.  An edge that is there already stays; of
\* several facts with one edge the first makes it, and any may be the first.
Promoted(st, F) ==
  {[st EXCEPT !.edges = [k \in DOMAIN @ \cup {EdgeKey(f) : f \in F} |->
      IF k \in DOMAIN @ THEN @[k] ELSE [fact |-> pick[k], sure |-> st.facts[pick[k]].sure]]] :
     pick \in {p \in [{EdgeKey(f) : f \in F} -> F] : \A k \in DOMAIN p : EdgeKey(p[k]) = k}}

Titles(st) == {a.title : a \in st.articles}

\* Mutant: a link is looked up among the sources.
BrokenUnlessIngested(st, t, before) == LinksTo(t) \ {s.text : s \in Range(st.sources)}

\* The links are looked up in the articles there are, not in the one being compiled.
BrokenLinks(st, t, before) == LinksTo(t) \ (Titles(st) \cup before)

\* Compiles an article from each source in the sequence S that has chunks.
Compiled(st, S) ==
  LET chunked(n) == {i \in 1..n : S[i].chunked} IN
  [st EXCEPT !.articles = @ \cup
    {[title |-> S[i].text,
      broken |-> BrokenLinks(st, S[i].text, {S[j].text : j \in chunked(i - 1)})] : i \in chunked(Len(S))}]

\* run_quality_gates.  An article always has citations: the chunks of its source.
GatesPass(st) ==
  /\ st.articles # {}
  /\ \A a \in st.articles : a.broken = {}
  /\ \A k \in DOMAIN st.edges : st.edges[k].sure
  /\ \A f, g \in DOMAIN st.facts : f.record = g.record /\ f.claim = g.claim => f = g
  /\ st.evaluated

Drafted(st) == [st EXCEPT !.snapshots = Append(@, [status |-> "draft", published |-> FALSE, era |-> era])]

Published(st, v) ==
  [st EXCEPT !.snapshots = [w \in DOMAIN @ |->
    IF w = v THEN [@[w] EXCEPT !.status = "published", !.published = TRUE]
    ELSE IF @[w].status = "published" THEN [@[w] EXCEPT !.status = "retired"] ELSE @[w]]]

RolledBack(st, v) ==
  [st EXCEPT !.snapshots = [w \in DOMAIN @ |->
    IF w = v THEN [@[w] EXCEPT !.status = "published", !.published = TRUE] ELSE [@[w] EXCEPT !.status = "retired"]]]

-----------------------------------------------------------------------------
\* Requests.

\* A request that succeeds, and is followed by a copy to the database unless that fails.
\* (The copy is not followed any more when the bound allows no restart.)
Answered(st) == store' = st /\ saved' \in (IF events < MaxEvents THEN {saved, st} ELSE {EmptyStore})

\* A request that is refused leaves what it did so far in memory but writes no copy.
Refused(st) == store' = st /\ saved' = saved

Counts == events < MaxEvents /\ events' = events + 1

\* The run raises an exception.
Ends(c) == runs' = [runs EXCEPT ![c] = Idle]

Begin(c, r) ==
  /\ runs[c].pc = "idle"
  /\ runs' = [runs EXCEPT ![c] = [pc |-> "ingest", record |-> r]]
  /\ IF \A d \in Clients : runs[d] = Idle THEN events' = events ELSE Counts
  /\ UNCHANGED <<store, saved, era, done>>

Ingest(c) ==
  /\ runs[c].pc = "ingest"
  /\ LET r == runs[c].record IN
     /\ Answered(Ingested(store, r))
     /\ \E s \in SourcesOf(store', r) :
          runs' = [runs EXCEPT ![c] = [pc |-> "create", record |-> r, source |-> s, next |-> 1]]
  /\ UNCHANGED <<events, era, done>>

\* The source is stored, and chunking or embedding raises at some chunk.
IngestBreaks(c) ==
  /\ runs[c].pc = "ingest" /\ SourcesOf(store, runs[c].record) = {}
  /\ \E chunked \in BOOLEAN : Refused(Added(store, runs[c].record, chunked))
  /\ Ends(c)
  /\ UNCHANGED <<events, era, done>>

CreateFact(c) ==
  /\ runs[c].pc = "create"
  /\ LET r == runs[c].record
         claim == Extracted(r)[runs[c].next]
         same == SameFact(store, r, claim, runs[c].source)
     IN
     /\ Answered(Stated(store, r, claim, runs[c].source, TRUE))
     /\ \E f \in IF same # {} THEN same ELSE DOMAIN store'.facts \ DOMAIN store.facts :
          runs' = [runs EXCEPT ![c] = [pc |-> "review", record |-> r, source |-> runs[c].source,
                                       next |-> runs[c].next, fact |-> f]]
  /\ UNCHANGED <<events, era, done>>

\* The run approves the fact itself, whatever a curator has decided about it.
Review(c) ==
  /\ runs[c].pc = "review"
  /\ IF runs[c].fact \in DOMAIN store.facts
     THEN Answered(Reviewed(store, runs[c].fact, TRUE)) /\ runs' = [runs EXCEPT ![c].pc = "promote"]
     ELSE Refused(store) /\ Ends(c)
  /\ UNCHANGED <<events, era, done>>

AfterFact(c) ==
  LET r == runs[c].record IN
  IF runs[c].next = Len(Extracted(r))
  THEN [pc |-> "compile", record |-> r, source |-> runs[c].source]
  ELSE [pc |-> "create", record |-> r, source |-> runs[c].source, next |-> runs[c].next + 1]

\* Mutant: a refused promotion is skipped.
PromoteOrSkip(c) ==
  /\ runs[c].pc = "promote"
  /\ IF runs[c].fact \in Approved(store)
     THEN \E st \in Promoted(store, {runs[c].fact}) : Answered(st)
     ELSE Refused(store)
  /\ runs' = [runs EXCEPT ![c] = AfterFact(c)]
  /\ UNCHANGED <<events, era, done>>

Promote(c) ==
  /\ runs[c].pc = "promote"
  /\ IF runs[c].fact \in Approved(store)
     THEN /\ \E st \in Promoted(store, {runs[c].fact}) : Answered(st)
          /\ runs' = [runs EXCEPT ![c] = AfterFact(c)]
     ELSE Refused(store) /\ Ends(c)
  /\ UNCHANGED <<events, era, done>>

Compile(c) ==
  /\ runs[c].pc = "compile"
  /\ IF runs[c].source \in Range(store.sources) /\ runs[c].source.chunked
     THEN /\ Answered(Compiled(store, <<runs[c].source>>))
          /\ runs' = [runs EXCEPT ![c] = [pc |-> "gates", record |-> runs[c].record]]
     ELSE Refused(store) /\ Ends(c)
  /\ UNCHANGED <<events, era, done>>

Succeeds(c) == Ends(c) /\ done' = done \cup {runs[c].record}

CheckGates(c) ==
  /\ runs[c].pc = "gates"
  /\ Answered(store)
  /\ IF AutoPublish /\ GatesPass(store)
     THEN runs' = [runs EXCEPT ![c].pc = "draft"] /\ done' = done
     ELSE Succeeds(c)
  /\ UNCHANGED <<events, era>>

CanDraft == Len(store.snapshots) < MaxSnapshots

Draft(c) ==
  /\ runs[c].pc = "draft" /\ CanDraft
  /\ Answered(Drafted(store))
  /\ runs' = [runs EXCEPT ![c] = [pc |-> "publish", record |-> runs[c].record,
                                  version |-> Len(store'.snapshots), era |-> era]]
  /\ UNCHANGED <<events, era, done>>

\* The snapshot drafted may be lost by a restart, and its version given to another one.
Publish(c) ==
  /\ runs[c].pc = "publish"
  /\ IF /\ runs[c].version \in DOMAIN store.snapshots
        /\ store.snapshots[runs[c].version].era = runs[c].era
        /\ GatesPass(store)
     THEN Answered(Published(store, runs[c].version)) /\ Succeeds(c)
     ELSE Refused(store) /\ Ends(c) /\ done' = done
  /\ UNCHANGED <<events, era>>

\* A request is not answered: the run fails.
Fail(c) ==
  /\ runs[c].pc # "idle"
  /\ Ends(c)
  /\ UNCHANGED <<store, saved, events, era, done>>

IngestDocument ==
  /\ \E d \in Documents :
       \/ Answered(Added(store, d, TRUE))
       \/ \E chunked \in BOOLEAN : Refused(Added(store, d, chunked))
  /\ UNCHANGED <<runs, era, done>>

EnterFact ==
  /\ \E r \in Records, claim \in Claims, source \in Range(store.sources) \cup {None}, sure \in BOOLEAN :
       Answered(Stated(store, r, claim, source, sure))
  /\ UNCHANGED <<runs, era, done>>

\* A curator approves a fact, or sets it to one of the other statuses.
ReviewFact ==
  /\ \E f \in DOMAIN store.facts, approved \in BOOLEAN : Answered(Reviewed(store, f, approved))
  /\ UNCHANGED <<runs, era, done>>

PromoteFact ==
  /\ \E f \in Approved(store) : \E st \in Promoted(store, {f}) : Answered(st)
  /\ UNCHANGED <<runs, era, done>>

CompileArticle ==
  /\ \E s \in Range(store.sources) : s.chunked /\ Answered(Compiled(store, <<s>>))
  /\ UNCHANGED <<runs, era, done>>

AddEvaluationSet ==
  /\ Answered([store EXCEPT !.evaluated = TRUE])
  /\ UNCHANGED <<runs, era, done>>

CreateSnapshot ==
  /\ CanDraft
  /\ Answered(Drafted(store))
  /\ UNCHANGED <<runs, era, done>>

PublishSnapshot ==
  /\ \E v \in DOMAIN store.snapshots :
       IF GatesPass(store) THEN Answered(Published(store, v)) ELSE Refused(store)
  /\ UNCHANGED <<runs, era, done>>

RollbackSnapshot ==
  /\ \E v \in DOMAIN store.snapshots : Answered(RolledBack(store, v))
  /\ UNCHANGED <<runs, era, done>>

\* The maintenance request: promotions, articles, and a snapshot that may be published.
Rebuild ==
  /\ \E promote, recompile \in BOOLEAN, snapshot \in {"none", "draft", "published"} :
       \E promoted \in (IF promote THEN Promoted(store, Approved(store)) ELSE {store}) :
         LET compiled == IF recompile THEN Compiled(promoted, promoted.sources) ELSE promoted IN
         CASE snapshot = "none" -> Answered(compiled)
           [] snapshot = "draft" -> CanDraft /\ Answered(Drafted(compiled))
           [] snapshot = "published" ->
                /\ CanDraft
                /\ IF GatesPass(compiled)
                   THEN Answered(Published(Drafted(compiled), Len(compiled.snapshots) + 1))
                   ELSE Refused(Drafted(compiled))
  /\ UNCHANGED <<runs, era, done>>

\* The process ends and starts again from the copy; the runs go on with the ids they know.
Restart ==
  /\ Counts
  /\ store' = saved
  /\ era' = era + 1
  /\ saved' = saved
  /\ UNCHANGED <<runs, done>>

-----------------------------------------------------------------------------
Init ==
  /\ \E evaluated \in BOOLEAN : store = [EmptyStore EXCEPT !.evaluated = evaluated]
  /\ saved = store
  /\ runs = [c \in Clients |-> Idle]
  /\ events = 0 /\ era = 0
  /\ done = {}

RunStep(c) ==
  \/ \E r \in Records : Begin(c, r)
  \/ Ingest(c) \/ IngestBreaks(c) \/ CreateFact(c) \/ Review(c) \/ Promote(c) \/ Compile(c)
  \/ CheckGates(c) \/ Draft(c) \/ Publish(c) \/ Fail(c)

CuratorStep ==
  /\ Counts
  /\ \/ IngestDocument \/ EnterFact \/ ReviewFact \/ PromoteFact \/ CompileArticle
     \/ AddEvaluationSet \/ CreateSnapshot \/ PublishSnapshot \/ RollbackSnapshot \/ Rebuild

Next == (\E c \in Clients : RunStep(c)) \/ CuratorStep \/ Restart

Spec == Init /\ [][Next]_vars

-----------------------------------------------------------------------------
\* Properties.

SourceIds == [text : Texts, version : Nat \ {0}, era : 0..MaxEvents, chunked : BOOLEAN]
FactIds == [record : Records, claim : Claims, source : SourceIds \cup {None}, era : 0..MaxEvents]

Snapshots == [status : {"draft", "published", "retired"}, published : BOOLEAN, era : 0..MaxEvents]

StoreOK(st) ==
  /\ st \in [sources : Seq(SourceIds), facts : {st.facts}, edges : {st.edges},
             articles : SUBSET [title : Texts, broken : SUBSET Texts],
             snapshots : Seq(Snapshots), evaluated : BOOLEAN]
  /\ DOMAIN st.facts \subseteq FactIds
  /\ st.facts \in [DOMAIN st.facts -> [sure : BOOLEAN, approved : BOOLEAN]]
  /\ st.edges \in [DOMAIN st.edges -> [fact : FactIds, sure : BOOLEAN]]
  /\ Len(st.snapshots) <= MaxSnapshots

IsRun(x) ==
  \/ x = Idle
  \/ x \in [pc : {"ingest", "gates", "draft"}, record : Records]
  \/ x \in [pc : {"create"}, record : Records, source : SourceIds, next : Nat \ {0}]
  \/ x \in [pc : {"review", "promote"}, record : Records, source : SourceIds, next : Nat \ {0},
            fact : FactIds]
  \/ x \in [pc : {"compile"}, record : Records, source : SourceIds]
  \/ x \in [pc : {"publish"}, record : Records, version : Nat \ {0}, era : 0..MaxEvents]

TypeOK ==
  /\ StoreOK(store) /\ StoreOK(saved)
  /\ DOMAIN runs = Clients /\ \A c \in Clients : IsRun(runs[c])
  /\ events \in 0..MaxEvents /\ era \in 0..events
  /\ done \subseteq Records

\* However often a record is sent, by overlapping runs, retries and late requests, and
\* across restarts, the knowledge base has one source for it.
OneSourcePerRecord ==
  \A i, j \in DOMAIN store.sources :
    store.sources[i].text \in Records /\ store.sources[i].text = store.sources[j].text => i = j

\* Every edge names a fact of the store that says what the edge says.
EdgesComeFromFacts ==
  \A k \in DOMAIN store.edges :
    LET e == store.edges[k] IN
    /\ e.fact \in DOMAIN store.facts
    /\ EdgeKey(e.fact) = k
    /\ store.facts[e.fact].sure = e.sure

\* Consumers of the latest published snapshot are never offered two.
OnePublished ==
  \A v, w \in DOMAIN store.snapshots :
    store.snapshots[v].status = "published" /\ store.snapshots[w].status = "published" => v = w

\* Repeated and overlapping writes leave one source, true edges and one published snapshot.
RowsAgree == OneSourcePerRecord /\ EdgesComeFromFacts /\ OnePublished

\* A record a run reported as indexed is in the knowledge base with chunks of its source,
\* an edge for every claim and an article, as long as the service keeps its memory; so
\* the source that a broken ingestion left without chunks is never taken for done.
IndexedIsComplete ==
  era = 0 =>
    \A r \in done :
      /\ \E s \in SourcesOf(store, r) : s.chunked
      /\ \A i \in DOMAIN Extracted(r) : <<r, NodeOf(Extracted(r)[i])>> \in DOMAIN store.edges
      /\ r \in Titles(store)

\* The broken links of an article are those of the moment it was compiled, yet when the
\* gates pass, every link leads to an article.
PassingWikiIsClosed ==
  GatesPass(store) => \A a \in store.articles : LinksTo(a.title) \subseteq Titles(store)

=============================================================================
