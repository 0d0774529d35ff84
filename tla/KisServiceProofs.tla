-------------------------- MODULE KisServiceProofs --------------------------
(***************************************************************************)
(* Proofs about the knowledge service: about KisKnowledge, for any         *)
(* records, documents, claims, links, runs, curators and restarts, that    *)
(* repeated and overlapping runs leave one source and true edges, that     *)
(* what was reported as indexed is there, and that a wiki that passes the  *)
(* gates is closed; and about KisStore, for any requests and any number of *)
(* starts, that the saved copy is closed, that quietly saved requests      *)
(* stay, and that the protocol implements DurableCopy.                     *)
(***************************************************************************)
EXTENDS KisKnowledge, KisStore, FiniteSetTheorems, SequenceTheorems, TLAPS

(* The knowledge base. *)

-----------------------------------------------------------------------------
\* What holds of every store, the one in memory and the copy.

SingleSources(st) ==
  \A i, j \in DOMAIN st.sources :
    st.sources[i].text \in Records /\ st.sources[i].text = st.sources[j].text => i = j

TrueEdges(st) ==
  \A k \in DOMAIN st.edges :
    /\ st.edges[k].fact \in DOMAIN st.facts /\ EdgeKey(st.edges[k].fact) = k
    /\ st.facts[st.edges[k].fact].sure = st.edges[k].sure

SinglePublished(st) ==
  \A v, w \in DOMAIN st.snapshots :
    st.snapshots[v].status = "published" /\ st.snapshots[w].status = "published" => v = w

\* A link that was not broken leads to an article, and still does.
LinksLead(st) ==
  \A a \in st.articles : \A t \in LinksTo(a.title) : t \in a.broken \/ t \in Titles(st)

Sound(st) ==
  StoreOK(st) /\ SingleSources(st) /\ TrueEdges(st) /\ SinglePublished(st) /\ LinksLead(st)

\* What no request takes away, only a restart does.
Grows(st, to) ==
  /\ Range(st.sources) \subseteq Range(to.sources)
  /\ DOMAIN st.edges \subseteq DOMAIN to.edges
  /\ Titles(st) \subseteq Titles(to)

-----------------------------------------------------------------------------
\* How far a run is.

\* The first n claims of a record are edges.
Edged(st, r, n) == \A i \in 1..n : <<r, NodeOf(Extracted(r)[i])>> \in DOMAIN st.edges

HasChunks(st, r) == \E s \in SourcesOf(st, r) : s.chunked

Complete(st, r) ==
  HasChunks(st, r) /\ Edged(st, r, Len(Extracted(r))) /\ r \in Titles(st)

\* What a run works with is of its record, whatever the service still knows of it.
OnSubject(x) ==
  /\ x.pc \in {"create", "review", "promote", "compile"} => x.source.text = x.record
  /\ x.pc \in {"create", "review", "promote"} => x.next <= Len(Extracted(x.record))
  /\ x.pc \in {"review", "promote"} =>
       x.fact.record = x.record /\ x.fact.claim = Extracted(x.record)[x.next]

\* What a run has done is there.
OnTrack(st, x) ==
  /\ x.pc \notin {"idle", "ingest"} => SourcesOf(st, x.record) # {}
  /\ x.pc \in {"create", "review", "promote"} => Edged(st, x.record, x.next - 1)
  /\ x.pc \in {"compile", "gates", "draft", "publish"} =>
       Edged(st, x.record, Len(Extracted(x.record)))
  /\ x.pc \in {"gates", "draft", "publish"} => HasChunks(st, x.record) /\ x.record \in Titles(st)

IInv ==
  /\ TypeOK /\ Sound(store) /\ Sound(saved)
  /\ \A c \in Clients : OnSubject(runs[c])
  /\ era = 0 => /\ \A c \in Clients : OnTrack(store, runs[c])
                /\ \A r \in done : Complete(store, r)


-----------------------------------------------------------------------------
\* What the operations of the service make of a sound store.

LEMMA CountOfSources ==
  ASSUME NEW st, StoreOK(st), NEW t
  PROVE  Cardinality(SourcesOf(st, t)) \in Nat
<1> DEFINE s == st.sources
<1>1. s \in Seq(SourceIds)
  BY DEF StoreOK
<1>2. DOMAIN s = 1..Len(s) /\ Len(s) \in Nat
  BY <1>1
<1>3. IsFiniteSet(1..Len(s))
  BY <1>2, FS_Interval
<1>4. IsFiniteSet(Range(s))
  <2>1. s \in Surjection(1..Len(s), Range(s))
    BY <1>1, <1>2 DEF Surjection, Range
  <2> QED BY <1>3, <2>1, FS_Surjection
<1>5. SourcesOf(st, t) \subseteq Range(s)
  BY DEF SourcesOf
<1> QED BY <1>4, <1>5, FS_Subset, FS_CardinalityType

\* A new source, of a document or of a record that has none.
LEMMA AddedIsSound ==
  ASSUME NEW st, Sound(st), era \in 0..MaxEvents, NEW t \in Texts,
         t \in Records => SourcesOf(st, t) = {}, NEW chunked \in BOOLEAN,
         NEW to, to = Added(st, t, chunked)
  PROVE  Sound(to) /\ Grows(st, to) /\ SourcesOf(to, t) # {}
<1> DEFINE new == [text |-> t, version |-> Cardinality(SourcesOf(st, t)) + 1, era |-> era,
                   chunked |-> chunked]
<1>1. StoreOK(st)
  BY DEF Sound
<1>2. new \in SourceIds
  BY <1>1, CountOfSources DEF SourceIds
<1>3. /\ to = [st EXCEPT !.sources = Append(@, new)]
      /\ to.sources = Append(st.sources, new) /\ to.facts = st.facts /\ to.edges = st.edges
      /\ to.articles = st.articles /\ to.snapshots = st.snapshots
  BY <1>1 DEF Added, StoreOK
<1> HIDE DEF new
<1>4. st.sources \in Seq(SourceIds) /\ to.sources \in Seq(SourceIds)
  BY <1>1, <1>2, <1>3 DEF StoreOK
<1>5. StoreOK(to)
  BY <1>1, <1>3, <1>4 DEF StoreOK
<1> DEFINE n == Len(st.sources)
<1>6. /\ n \in Nat /\ DOMAIN st.sources = 1..n /\ DOMAIN to.sources = 1..(n + 1)
      /\ \A i \in 1..n : to.sources[i] = st.sources[i]
      /\ to.sources[n + 1] = new
  BY <1>2, <1>3, <1>4
<1> HIDE DEF n
<1>7. new.text = t
  BY DEF new
<1>8. t \in Records => \A i \in 1..n : st.sources[i].text # t
  BY <1>6 DEF SourcesOf, Range
<1>9. SingleSources(to)
  <2> SUFFICES ASSUME NEW i \in DOMAIN to.sources, NEW j \in DOMAIN to.sources,
                      to.sources[i].text \in Records, to.sources[i].text = to.sources[j].text
               PROVE  i = j
    BY DEF SingleSources
  <2>1. CASE i \in 1..n /\ j \in 1..n
    BY <1>6, <2>1 DEF Sound, SingleSources
  <2>2. CASE i = n + 1 \/ j = n + 1
    BY <1>6, <1>7, <1>8, <2>2
  <2> QED BY <1>6, <2>1, <2>2
<1>10. Grows(st, to) /\ SourcesOf(to, t) # {}
  <2>1. Range(st.sources) \subseteq Range(to.sources) /\ new \in Range(to.sources)
    <3>1. \A i \in 1..n : i \in 1..(n + 1) /\ st.sources[i] = to.sources[i]
      BY <1>6
    <3>2. n + 1 \in 1..(n + 1)
      BY <1>6
    <3> QED BY <1>6, <3>1, <3>2 DEF Range
  <2> QED BY <1>3, <1>7, <2>1 DEF Grows, Titles, SourcesOf
<1>11. TrueEdges(to) /\ SinglePublished(to) /\ LinksLead(to)
  BY <1>3 DEF Sound, TrueEdges, SinglePublished, LinksLead, Titles
<1> QED BY <1>5, <1>9, <1>10, <1>11 DEF Sound

\* A fact that was not stated before, with an id of its own.
LEMMA StatedIsSound ==
  ASSUME NEW st, Sound(st), era \in 0..MaxEvents,
         NEW r \in Records, NEW claim \in Claims, NEW source \in SourceIds \cup {None},
         NEW sure \in BOOLEAN, NEW to, to = Stated(st, r, claim, source, sure)
  PROVE  /\ Sound(to) /\ Grows(st, to)
         /\ \A f \in DOMAIN to.facts : f \notin DOMAIN st.facts => f.record = r /\ f.claim = claim
<1>1. StoreOK(st)
  BY DEF Sound
<1>2. CASE to = st
  BY <1>2 DEF Grows
<1>3. CASE SameFact(st, r, claim, source) = {}
  <2> DEFINE f == [record |-> r, claim |-> claim, source |-> source, era |-> era]
             v == [sure |-> sure, approved |-> FALSE]
  <2>1. /\ to.sources = st.sources /\ to.edges = st.edges
        /\ to.articles = st.articles /\ to.snapshots = st.snapshots
        /\ to.facts = With(st.facts, f, v) /\ to = [st EXCEPT !.facts = With(@, f, v)]
    BY <1>1, <1>3 DEF Stated, StoreOK
  <2>2. f \in FactIds /\ v \in [sure : BOOLEAN, approved : BOOLEAN]
    BY DEF FactIds
  <2>3. f \notin DOMAIN st.facts /\ f.record = r /\ f.claim = claim
    BY <1>3 DEF SameFact
  <2> HIDE DEF f, v
  <2>4. /\ DOMAIN to.facts = DOMAIN st.facts \cup {f} /\ to.facts[f] = v
        /\ \A g \in DOMAIN st.facts : to.facts[g] = st.facts[g]
    BY <2>1, <2>3 DEF With
  <2>5. StoreOK(to)
    <3>1. DOMAIN to.facts \subseteq FactIds
      BY <1>1, <2>2, <2>4 DEF StoreOK
    <3>2. to.facts \in [DOMAIN to.facts -> [sure : BOOLEAN, approved : BOOLEAN]]
      BY <1>1, <2>1, <2>2, <2>4 DEF StoreOK, With
    <3> QED BY <1>1, <2>1, <3>1, <3>2 DEF StoreOK
  <2>6. TrueEdges(to)
    BY <2>1, <2>4 DEF Sound, TrueEdges
  <2>7. SingleSources(to) /\ SinglePublished(to) /\ LinksLead(to) /\ Grows(st, to)
    BY <2>1 DEF Sound, SingleSources, SinglePublished, LinksLead, Titles, Grows
  <2> QED BY <2>3, <2>4, <2>5, <2>6, <2>7 DEF Sound
<1> QED BY <1>2, <1>3 DEF Stated

LEMMA ReviewedIsSound ==
  ASSUME NEW st, Sound(st), NEW f \in DOMAIN st.facts, NEW approved \in BOOLEAN,
         NEW to, to = Reviewed(st, f, approved)
  PROVE  Sound(to) /\ Grows(st, to)
<1>1. StoreOK(st)
  BY DEF Sound
<1>2. /\ to.sources = st.sources /\ to.edges = st.edges
      /\ to.articles = st.articles /\ to.snapshots = st.snapshots
      /\ to.facts = [st.facts EXCEPT ![f].approved = approved]
      /\ to = [st EXCEPT !.facts = to.facts]
  BY <1>1 DEF Reviewed, StoreOK
<1>3. /\ DOMAIN to.facts = DOMAIN st.facts
      /\ to.facts \in [DOMAIN st.facts -> [sure : BOOLEAN, approved : BOOLEAN]]
      /\ \A g \in DOMAIN st.facts : to.facts[g].sure = st.facts[g].sure
  BY <1>1, <1>2 DEF StoreOK
<1>4. StoreOK(to)
  BY <1>1, <1>2, <1>3 DEF StoreOK
<1>5. TrueEdges(to)
  BY <1>2, <1>3 DEF Sound, TrueEdges
<1>6. SingleSources(to) /\ SinglePublished(to) /\ LinksLead(to) /\ Grows(st, to)
  BY <1>2 DEF Sound, SingleSources, SinglePublished, LinksLead, Titles, Grows
<1> QED BY <1>4, <1>5, <1>6 DEF Sound

\* A promotion makes the edges of its facts, each of one of them, and leaves the others.
LEMMA PromotedIsSound ==
  ASSUME NEW st, Sound(st), NEW F \in SUBSET DOMAIN st.facts, NEW to \in Promoted(st, F)
  PROVE  Sound(to) /\ Grows(st, to) /\ to.sources = st.sources /\ \A f \in F : EdgeKey(f) \in DOMAIN to.edges
<1>1. StoreOK(st)
  BY DEF Sound
<1> DEFINE keys == {EdgeKey(f) : f \in F}
<1>2. PICK pick \in [keys -> F] :
        /\ \A k \in DOMAIN pick : EdgeKey(pick[k]) = k
        /\ to = [st EXCEPT !.edges = [k \in DOMAIN @ \cup keys |->
                   IF k \in DOMAIN @ THEN @[k]
                   ELSE [fact |-> pick[k], sure |-> st.facts[pick[k]].sure]]]
  BY DEF Promoted
<1>3. \A f \in F : EdgeKey(f) \in keys
  OBVIOUS
<1> HIDE DEF keys
<1>4. /\ to.sources = st.sources /\ to.facts = st.facts
      /\ to.articles = st.articles /\ to.snapshots = st.snapshots
      /\ to = [st EXCEPT !.edges = to.edges]
      /\ to.edges = [k \in DOMAIN st.edges \cup keys |->
                      IF k \in DOMAIN st.edges THEN st.edges[k]
                      ELSE [fact |-> pick[k], sure |-> st.facts[pick[k]].sure]]
  BY <1>1, <1>2 DEF StoreOK
<1>5. /\ DOMAIN to.edges = DOMAIN st.edges \cup keys
      /\ \A k \in DOMAIN st.edges : to.edges[k] = st.edges[k]
      /\ \A k \in keys : k \notin DOMAIN st.edges =>
           to.edges[k] = [fact |-> pick[k], sure |-> st.facts[pick[k]].sure]
  BY <1>4
<1>6. \A k \in keys : /\ pick[k] \in DOMAIN st.facts /\ EdgeKey(pick[k]) = k
                      /\ pick[k] \in FactIds /\ st.facts[pick[k]].sure \in BOOLEAN
  BY <1>1, <1>2 DEF StoreOK
<1>7. \A k \in DOMAIN to.edges : to.edges[k] \in [fact : FactIds, sure : BOOLEAN]
  <2>1. \A k \in DOMAIN st.edges : st.edges[k] \in [fact : FactIds, sure : BOOLEAN]
    BY <1>1 DEF StoreOK
  <2>2. \A k \in keys : [fact |-> pick[k], sure |-> st.facts[pick[k]].sure]
                          \in [fact : FactIds, sure : BOOLEAN]
    BY <1>6
  <2> QED BY <1>5, <2>1, <2>2
<1>8. StoreOK(to)
  BY <1>1, <1>4, <1>7 DEF StoreOK
<1>9. TrueEdges(to)
  <2> SUFFICES ASSUME NEW k \in DOMAIN to.edges
               PROVE  /\ to.edges[k].fact \in DOMAIN to.facts /\ EdgeKey(to.edges[k].fact) = k
                      /\ to.facts[to.edges[k].fact].sure = to.edges[k].sure
    BY DEF TrueEdges
  <2>1. CASE k \in DOMAIN st.edges
    BY <1>4, <1>5, <2>1 DEF Sound, TrueEdges
  <2>2. CASE k \notin DOMAIN st.edges
    BY <1>4, <1>5, <1>6, <2>2
  <2> QED BY <2>1, <2>2
<1>10. SingleSources(to) /\ SinglePublished(to) /\ LinksLead(to) /\ Grows(st, to)
  BY <1>4, <1>5 DEF Sound, SingleSources, SinglePublished, LinksLead, Titles, Grows
<1> QED BY <1>3, <1>4, <1>5, <1>8, <1>9, <1>10 DEF Sound

\* An article compiled from a source with chunks links to articles there are, or says which
\* links do not.
LEMMA CompiledIsSound ==
  ASSUME NEW st, Sound(st), NEW S \in Seq(SourceIds), NEW to, to = Compiled(st, S)
  PROVE  Sound(to) /\ Grows(st, to) /\ \A i \in DOMAIN S : S[i].chunked => S[i].text \in Titles(to)
<1> DEFINE chunked(n) == {i \in 1..n : S[i].chunked}
           Before(i) == {S[j].text : j \in chunked(i - 1)}
           article(i) == [title |-> S[i].text, broken |-> BrokenLinks(st, S[i].text, Before(i))]
<1>1. StoreOK(st)
  BY DEF Sound
<1>2. /\ to.sources = st.sources /\ to.facts = st.facts /\ to.edges = st.edges
      /\ to.snapshots = st.snapshots /\ to = [st EXCEPT !.articles = to.articles]
      /\ to.articles = st.articles \cup {article(i) : i \in chunked(Len(S))}
  BY <1>1 DEF Compiled, StoreOK
<1>3. ASSUME NEW i \in DOMAIN S
      PROVE  /\ article(i).title = S[i].text
             /\ article(i).broken = LinksTo(S[i].text) \ (Titles(st) \cup Before(i))
             /\ article(i) \in [title : Texts, broken : SUBSET Texts]
  <2>1. S[i].text \in Texts
    <3>1. S[i] \in SourceIds
      OBVIOUS
    <3> QED BY <3>1 DEF SourceIds
  <2>2. BrokenLinks(st, S[i].text, Before(i)) \in SUBSET Texts
    BY <2>1, KnowledgeAssumption DEF BrokenLinks
  <2> QED BY <2>1, <2>2 DEF BrokenLinks
<1> HIDE DEF article
<1>4. \A i \in DOMAIN S : S[i].chunked => article(i) \in to.articles
  BY <1>2
<1>5. /\ \A t : t \in Titles(st) => t \in Titles(to)
      /\ \A i \in DOMAIN S : S[i].chunked => S[i].text \in Titles(to)
  BY <1>2, <1>3, <1>4 DEF Titles
<1>6. StoreOK(to)
  <2>1. to.articles \in SUBSET [title : Texts, broken : SUBSET Texts]
    BY <1>1, <1>2, <1>3 DEF StoreOK
  <2> QED BY <1>1, <1>2, <2>1 DEF StoreOK
<1>7. LinksLead(to)
  <2> SUFFICES ASSUME NEW a \in to.articles, NEW t \in LinksTo(a.title), t \notin a.broken
               PROVE  t \in Titles(to)
    BY DEF LinksLead
  <2>1. CASE a \in st.articles
    BY <1>5, <2>1 DEF Sound, LinksLead
  <2>2. CASE a \notin st.articles
    <3>1. PICK i \in DOMAIN S : a = article(i)
      BY <1>2, <2>2
    <3>2. t \in Titles(st) \/ t \in Before(i)
      BY <1>3, <3>1
    <3>3. \A j \in chunked(i - 1) : j \in DOMAIN S /\ S[j].chunked
      OBVIOUS
    <3> QED BY <1>5, <3>2, <3>3
  <2> QED BY <2>1, <2>2
<1>8. SingleSources(to) /\ TrueEdges(to) /\ SinglePublished(to) /\ Grows(st, to)
  BY <1>2, <1>5 DEF Sound, SingleSources, TrueEdges, SinglePublished, Grows
<1> QED BY <1>5, <1>6, <1>7, <1>8 DEF Sound

\* A store that differs in its snapshots only.
LEMMA SnapshotsAreSound ==
  ASSUME NEW st, Sound(st), NEW s \in Seq(Snapshots), Len(s) <= MaxSnapshots,
         \A v, w \in DOMAIN s : s[v].status = "published" /\ s[w].status = "published" => v = w,
         NEW to, to = [st EXCEPT !.snapshots = s]
  PROVE  Sound(to) /\ Grows(st, to) /\ to.snapshots = s
<1>1. StoreOK(st)
  BY DEF Sound
<1>2. /\ to.sources = st.sources /\ to.facts = st.facts /\ to.edges = st.edges
      /\ to.snapshots = s /\ to.articles = st.articles
  BY <1>1 DEF StoreOK
<1>3. StoreOK(to)
  BY <1>1, <1>2 DEF StoreOK
<1>4. /\ SingleSources(to) /\ TrueEdges(to) /\ SinglePublished(to) /\ LinksLead(to)
      /\ Grows(st, to)
  BY <1>2 DEF Sound, SingleSources, TrueEdges, SinglePublished, LinksLead, Titles, Grows
<1> QED BY <1>2, <1>3, <1>4 DEF Sound

LEMMA DraftedIsSound ==
  ASSUME NEW st, Sound(st), era \in 0..MaxEvents, Len(st.snapshots) < MaxSnapshots,
         NEW to, to = Drafted(st)
  PROVE  /\ Sound(to) /\ Grows(st, to)
         /\ Len(to.snapshots) = Len(st.snapshots) + 1
         /\ Len(st.snapshots) \in Nat /\ Len(st.snapshots) + 1 \in DOMAIN to.snapshots
<1> DEFINE draft == [status |-> "draft", published |-> FALSE, era |-> era]
           s == Append(st.snapshots, draft)
           n == Len(st.snapshots)
<1>1. st.snapshots \in Seq(Snapshots) /\ draft \in Snapshots /\ draft.status = "draft"
  BY DEF Sound, StoreOK, Snapshots
<1>2. to = [st EXCEPT !.snapshots = s]
  BY DEF Drafted, Sound, StoreOK
<1> HIDE DEF draft
<1>3. /\ s \in Seq(Snapshots) /\ n \in Nat /\ Len(s) = n + 1 /\ DOMAIN s = 1..(n + 1)
      /\ DOMAIN st.snapshots = 1..n
      /\ \A v \in 1..n : s[v] = st.snapshots[v]
      /\ s[n + 1] = draft
  BY <1>1
<1> HIDE DEF s
<1>4. Len(s) <= MaxSnapshots
  BY <1>3, KnowledgeAssumption
<1> HIDE DEF n
<1>5. \A v, w \in DOMAIN s : s[v].status = "published" /\ s[w].status = "published" => v = w
  <2>1. \A v \in DOMAIN s : s[v].status = "published" => v \in 1..n
    BY <1>1, <1>3
  <2> QED BY <1>3, <2>1 DEF Sound, SinglePublished
<1>6. Sound(to) /\ Grows(st, to) /\ to.snapshots = s
  <2>1. PICK t : t = s
    OBVIOUS
  <2>2. /\ t \in Seq(Snapshots) /\ Len(t) <= MaxSnapshots /\ to = [st EXCEPT !.snapshots = t]
        /\ \A v, w \in DOMAIN t : t[v].status = "published" /\ t[w].status = "published" => v = w
    BY <1>2, <1>3, <1>4, <1>5, <2>1
  <2> QED BY <2>1, <2>2, SnapshotsAreSound
<1> QED BY <1>3, <1>6 DEF n

\* Publishing a version, or rolling back to it, leaves no other one published.
LEMMA PublishedIsSound ==
  ASSUME NEW st, Sound(st), NEW v \in DOMAIN st.snapshots,
         NEW to, to = Published(st, v) \/ to = RolledBack(st, v)
  PROVE  Sound(to) /\ Grows(st, to)
<1> DEFINE old == st.snapshots
<1>1. old \in Seq(Snapshots) /\ Len(old) <= MaxSnapshots /\ DOMAIN old = 1..Len(old)
  BY DEF Sound, StoreOK
<1>2. PICK s : /\ to = [st EXCEPT !.snapshots = s]
               /\ \/ s = [w \in DOMAIN old |->
                           IF w = v THEN [old[w] EXCEPT !.status = "published", !.published = TRUE]
                           ELSE IF old[w].status = "published"
                                THEN [old[w] EXCEPT !.status = "retired"] ELSE old[w]]
                  \/ s = [w \in DOMAIN old |->
                           IF w = v THEN [old[w] EXCEPT !.status = "published", !.published = TRUE]
                           ELSE [old[w] EXCEPT !.status = "retired"]]
  BY DEF Published, RolledBack, Sound, StoreOK
<1>3. \A w \in DOMAIN old : old[w] \in Snapshots
  BY <1>1
<1>4. /\ DOMAIN s = 1..Len(old)
      /\ \A w \in DOMAIN old : s[w] \in Snapshots /\ (s[w].status = "published" => w = v)
  <2>1. DOMAIN s = 1..Len(old)
    BY <1>1, <1>2
  <2> SUFFICES ASSUME NEW w \in DOMAIN old
               PROVE  s[w] \in Snapshots /\ (s[w].status = "published" => w = v)
    BY <2>1
  <2>2. PICK x : x = old[w]
    OBVIOUS
  <2>3. x \in Snapshots
    BY <1>3, <2>2
  <2>4. \/ w = v /\ s[w] = [x EXCEPT !.status = "published", !.published = TRUE]
        \/ w # v /\ s[w] = [x EXCEPT !.status = "retired"]
        \/ x.status # "published" /\ s[w] = x
    BY <1>2, <2>2
  <2> QED BY <2>3, <2>4 DEF Snapshots
<1>5. s \in Seq(Snapshots) /\ Len(s) = Len(old)
  <2>1. s \in [1..Len(old) -> Snapshots]
    BY <1>1, <1>2, <1>4
  <2> QED BY <1>1, <2>1
<1> QED BY <1>1, <1>2, <1>4, <1>5, SnapshotsAreSound

LEMMA EvaluatedIsSound ==
  ASSUME NEW st, Sound(st), NEW evaluated \in BOOLEAN,
         NEW to, to = [st EXCEPT !.evaluated = evaluated]
  PROVE  Sound(to) /\ Grows(st, to)
<1>1. StoreOK(st)
  BY DEF Sound
<1>2. /\ to.sources = st.sources /\ to.facts = st.facts /\ to.edges = st.edges
      /\ to.snapshots = st.snapshots /\ to.articles = st.articles
  BY <1>1 DEF StoreOK
<1>3. StoreOK(to)
  BY <1>1, <1>2 DEF StoreOK
<1> QED BY <1>2, <1>3 DEF Sound, SingleSources, TrueEdges, SinglePublished, LinksLead, Titles, Grows

LEMMA EmptyIsSound ==
  ASSUME NEW evaluated \in BOOLEAN, NEW to,
         to = EmptyStore \/ to = [EmptyStore EXCEPT !.evaluated = evaluated]
  PROVE  Sound(to)
<1>0. PICK e \in BOOLEAN :
        to = [sources |-> <<>>, facts |-> <<>>, edges |-> <<>>, articles |-> {},
              snapshots |-> <<>>, evaluated |-> e]
  <2>1. CASE to = EmptyStore
    BY <2>1 DEF EmptyStore
  <2>2. CASE to = [EmptyStore EXCEPT !.evaluated = evaluated]
    BY <2>2 DEF EmptyStore
  <2> QED BY <2>1, <2>2
<1>1. /\ to.sources = <<>> /\ to.facts = <<>> /\ to.edges = <<>> /\ to.articles = {}
      /\ to.snapshots = <<>> /\ to.evaluated \in BOOLEAN
      /\ to = [sources |-> to.sources, facts |-> to.facts, edges |-> to.edges,
               articles |-> to.articles, snapshots |-> to.snapshots, evaluated |-> to.evaluated]
  BY <1>0
<1>2. DOMAIN <<>> = {} /\ Len(<<>>) <= MaxSnapshots
  BY KnowledgeAssumption
<1>3. StoreOK(to)
  <2>1. to.sources \in Seq(SourceIds) /\ to.snapshots \in Seq(Snapshots)
    BY <1>1
  <2>2. /\ DOMAIN to.facts \subseteq FactIds
        /\ to.facts \in [DOMAIN to.facts -> [sure : BOOLEAN, approved : BOOLEAN]]
        /\ to.edges \in [DOMAIN to.edges -> [fact : FactIds, sure : BOOLEAN]]
    BY <1>1
  <2> QED BY <1>1, <1>2, <2>1, <2>2 DEF StoreOK
<1> QED BY <1>1, <1>2, <1>3 DEF Sound, SingleSources, TrueEdges, SinglePublished, LinksLead

LEMMA GrowsIsOrder ==
  /\ \A st : Grows(st, st)
  /\ \A a, b, c : Grows(a, b) /\ Grows(b, c) => Grows(a, c)
BY DEF Grows

-----------------------------------------------------------------------------
\* Curators.

\* The requests between restarts: the store grows and stays sound.
StoreKeeps == Sound(store') /\ Sound(saved') /\ Grows(store, store')

LEMMA AnswerKeeps ==
  ASSUME Sound(store), Sound(saved), NEW st, Sound(st), Grows(store, st),
         Answered(st) \/ Refused(st)
  PROVE  StoreKeeps /\ store' = st
<1>1. store' = st /\ saved' \in {saved, st, EmptyStore}
  BY DEF Answered, Refused
<1> QED BY <1>1, EmptyIsSound DEF StoreKeeps

LEMMA SourcesAreIds ==
  ASSUME NEW st, Sound(st), NEW s \in Range(st.sources)
  PROVE  s \in SourceIds
<1>1. st.sources \in Seq(SourceIds)
  BY DEF Sound, StoreOK
<1>2. PICK i \in DOMAIN st.sources : s = st.sources[i]
  BY DEF Range
<1> QED BY <1>1, <1>2

LEMMA ApprovedAreFacts ==
  ASSUME NEW st
  PROVE  Approved(st) \in SUBSET DOMAIN st.facts
BY DEF Approved

LEMMA RebuildKeeps ==
  ASSUME Sound(store), Sound(saved), era \in 0..MaxEvents, Rebuild
  PROVE  StoreKeeps
<1>0. PICK promote \in BOOLEAN, recompile \in BOOLEAN :
        \E promoted \in (IF promote THEN Promoted(store, Approved(store)) ELSE {store}) :
          LET compiled == IF recompile THEN Compiled(promoted, promoted.sources) ELSE promoted IN
          \/ Answered(compiled)
          \/ CanDraft /\ Answered(Drafted(compiled))
          \/ /\ CanDraft
             /\ \/ Answered(Published(Drafted(compiled), Len(compiled.snapshots) + 1))
                \/ Refused(Drafted(compiled))
  <2>1. PICK promote \in BOOLEAN, recompile \in BOOLEAN, snapshot \in {"none", "draft", "published"} :
          \E promoted \in (IF promote THEN Promoted(store, Approved(store)) ELSE {store}) :
            LET compiled == IF recompile THEN Compiled(promoted, promoted.sources) ELSE promoted IN
            CASE snapshot = "none" -> Answered(compiled)
              [] snapshot = "draft" -> CanDraft /\ Answered(Drafted(compiled))
              [] snapshot = "published" ->
                   /\ CanDraft
                   /\ IF GatesPass(compiled)
                      THEN Answered(Published(Drafted(compiled), Len(compiled.snapshots) + 1))
                      ELSE Refused(Drafted(compiled))
    BY Zenon DEF Rebuild
  <2> QED BY <2>1
<1>1. PICK promoted, compiled :
        /\ promoted \in (IF promote THEN Promoted(store, Approved(store)) ELSE {store})
        /\ compiled = IF recompile THEN Compiled(promoted, promoted.sources) ELSE promoted
        /\ \/ Answered(compiled)
           \/ CanDraft /\ Answered(Drafted(compiled))
           \/ /\ CanDraft
              /\ \/ Answered(Published(Drafted(compiled), Len(compiled.snapshots) + 1))
                 \/ Refused(Drafted(compiled))
  BY <1>0
<1>2. /\ Sound(promoted) /\ Grows(store, promoted) /\ promoted.snapshots = store.snapshots
  <2>1. CASE promote
    <3>1. promoted \in Promoted(store, Approved(store))
      BY <1>1, <2>1
    <3>2. promoted.snapshots = store.snapshots
      BY <3>1 DEF Promoted, Sound, StoreOK
    <3> QED BY <3>1, <3>2, ApprovedAreFacts, PromotedIsSound
  <2>2. CASE ~promote
    BY <1>1, <2>2, GrowsIsOrder
  <2> QED BY <2>1, <2>2
<1>3. Sound(compiled) /\ Grows(store, compiled) /\ compiled.snapshots = store.snapshots
  <2>1. CASE recompile
    <3>1. PICK S : S = promoted.sources
      OBVIOUS
    <3>2. S \in Seq(SourceIds) /\ compiled = Compiled(promoted, S)
      BY <1>1, <1>2, <2>1, <3>1 DEF Sound, StoreOK
    <3>3. compiled.snapshots = promoted.snapshots
      BY <1>2, <3>2 DEF Compiled, Sound, StoreOK
    <3>4. Sound(compiled) /\ Grows(promoted, compiled)
      BY <1>2, <3>2, CompiledIsSound
    <3> QED BY <1>2, <3>3, <3>4, GrowsIsOrder
  <2>2. CASE ~recompile
    BY <1>1, <1>2, <2>2
  <2> QED BY <2>1, <2>2
<1>4. CASE Answered(compiled)
  BY <1>3, <1>4, AnswerKeeps
<1>5. CASE CanDraft
  <2>1. PICK draft : draft = Drafted(compiled)
    OBVIOUS
  <2>2. Len(compiled.snapshots) < MaxSnapshots
    BY <1>3, <1>5 DEF CanDraft
  <2>3. /\ Sound(draft) /\ Grows(compiled, draft)
        /\ Len(compiled.snapshots) + 1 \in DOMAIN draft.snapshots
    BY <1>3, <2>1, <2>2, DraftedIsSound
  <2>4. PICK published : published = Published(draft, Len(compiled.snapshots) + 1)
    OBVIOUS
  <2>5. Sound(published) /\ Grows(draft, published)
    BY <2>3, <2>4, PublishedIsSound
  <2>6. Grows(store, draft) /\ Grows(store, published)
    BY <1>3, <2>3, <2>5, GrowsIsOrder
  <2>7. \/ Answered(compiled) \/ Answered(draft) \/ Refused(draft) \/ Answered(published)
    BY <1>1, <2>1, <2>4
  <2> QED BY <1>3, <2>3, <2>5, <2>6, <2>7, AnswerKeeps
<1> QED BY <1>1, <1>4, <1>5

LEMMA CuratorKeeps ==
  ASSUME Sound(store), Sound(saved), era \in 0..MaxEvents, CuratorStep
  PROVE  StoreKeeps
<1>1. CASE IngestDocument
  <2>1. PICK d \in Documents, chunked \in BOOLEAN :
          Answered(Added(store, d, chunked)) \/ Refused(Added(store, d, chunked))
    BY <1>1 DEF IngestDocument
  <2>2. d \in Texts /\ d \notin Records
    BY KnowledgeAssumption DEF Texts
  <2>3. Sound(Added(store, d, chunked)) /\ Grows(store, Added(store, d, chunked))
    BY <2>2, AddedIsSound
  <2> QED BY <2>1, <2>3, AnswerKeeps
<1>2. CASE EnterFact
  <2>1. PICK r \in Records, claim \in Claims, source \in Range(store.sources) \cup {None},
             sure \in BOOLEAN : Answered(Stated(store, r, claim, source, sure))
    BY <1>2 DEF EnterFact
  <2>2. source \in SourceIds \cup {None}
    BY SourcesAreIds
  <2>3. /\ Sound(Stated(store, r, claim, source, sure))
        /\ Grows(store, Stated(store, r, claim, source, sure))
    BY <2>2, StatedIsSound
  <2> QED BY <2>1, <2>3, AnswerKeeps
<1>3. CASE ReviewFact
  <2>1. PICK f \in DOMAIN store.facts, approved \in BOOLEAN : Answered(Reviewed(store, f, approved))
    BY <1>3 DEF ReviewFact
  <2>2. Sound(Reviewed(store, f, approved)) /\ Grows(store, Reviewed(store, f, approved))
    BY ReviewedIsSound
  <2> QED BY <2>1, <2>2, AnswerKeeps
<1>4. CASE PromoteFact
  <2>1. PICK f \in Approved(store) : \E st \in Promoted(store, {f}) : Answered(st)
    BY <1>4 DEF PromoteFact
  <2>2. {f} \in SUBSET DOMAIN store.facts
    BY ApprovedAreFacts
  <2>3. PICK F : F = {f}
    OBVIOUS
  <2>4. PICK st \in Promoted(store, F) : Answered(st)
    BY <2>1, <2>3
  <2>5. Sound(st) /\ Grows(store, st)
    BY <2>2, <2>3, <2>4, PromotedIsSound
  <2> QED BY <2>4, <2>5, AnswerKeeps
<1>5. CASE CompileArticle
  <2>1. PICK s \in Range(store.sources) : s.chunked /\ Answered(Compiled(store, <<s>>))
    BY <1>5 DEF CompileArticle
  <2>2. <<s>> \in Seq(SourceIds)
    BY SourcesAreIds
  <2>3. Sound(Compiled(store, <<s>>)) /\ Grows(store, Compiled(store, <<s>>))
    BY <2>2, CompiledIsSound
  <2> QED BY <2>1, <2>3, AnswerKeeps
<1>6. CASE AddEvaluationSet
  <2>1. PICK st : st = [store EXCEPT !.evaluated = TRUE] /\ Answered(st)
    BY <1>6 DEF AddEvaluationSet
  <2>2. Sound(st) /\ Grows(store, st)
    BY <2>1, EvaluatedIsSound
  <2> QED BY <2>1, <2>2, AnswerKeeps
<1>7. CASE CreateSnapshot
  <2>1. Len(store.snapshots) < MaxSnapshots /\ Answered(Drafted(store))
    BY <1>7 DEF CreateSnapshot, CanDraft
  <2>2. Sound(Drafted(store)) /\ Grows(store, Drafted(store))
    BY <2>1, DraftedIsSound
  <2> QED BY <2>1, <2>2, AnswerKeeps
<1>8. CASE PublishSnapshot \/ RollbackSnapshot
  <2>0. PICK v \in DOMAIN store.snapshots : \E st :
          /\ st = store \/ st = Published(store, v) \/ st = RolledBack(store, v)
          /\ Answered(st) \/ Refused(st)
    BY <1>8 DEF PublishSnapshot, RollbackSnapshot
  <2>1. PICK st :
          /\ st = store \/ st = Published(store, v) \/ st = RolledBack(store, v)
          /\ Answered(st) \/ Refused(st)
    BY <2>0
  <2>2. Sound(st) /\ Grows(store, st)
    BY <2>1, PublishedIsSound, GrowsIsOrder
  <2> QED BY <2>1, <2>2, AnswerKeeps
<1> QED BY <1>1, <1>2, <1>3, <1>4, <1>5, <1>6, <1>7, <1>8, RebuildKeeps DEF CuratorStep

-----------------------------------------------------------------------------
\* Index runs.

LEMMA IdleIsRun == IsRun(Idle) /\ OnSubject(Idle) /\ Idle.pc = "idle" /\ \A st : OnTrack(st, Idle)
BY DEF IsRun, Idle, OnSubject, OnTrack

LEMMA RunFields ==
  ASSUME NEW x, IsRun(x)
  PROVE  /\ x.pc = "idle" => x = Idle
         /\ x.pc # "idle" => x.record \in Records
         /\ x.pc \in {"create", "review", "promote", "compile"} => x.source \in SourceIds
         /\ x.pc \in {"create", "review", "promote"} => x.next \in Nat \ {0}
         /\ x.pc \in {"review", "promote"} => x.fact \in FactIds
BY DEF IsRun, Idle

\* What was done stays done while the store grows.
LEMMA GrowthKeeps ==
  ASSUME NEW st, NEW to, Grows(st, to)
  PROVE  /\ \A r : SourcesOf(st, r) # {} => SourcesOf(to, r) # {}
         /\ \A r : HasChunks(st, r) => HasChunks(to, r)
         /\ \A r, n : Edged(st, r, n) => Edged(to, r, n)
         /\ \A r : r \in Titles(st) => r \in Titles(to)
         /\ \A r : Complete(st, r) => Complete(to, r)
         /\ \A x : OnTrack(st, x) => OnTrack(to, x)
<1>1. \A r : SourcesOf(st, r) # {} => SourcesOf(to, r) # {}
  BY DEF Grows, SourcesOf
<1>4. \A r : HasChunks(st, r) => HasChunks(to, r)
  BY DEF Grows, SourcesOf, HasChunks
<1>2. \A r, n : Edged(st, r, n) => Edged(to, r, n)
  BY DEF Grows, Edged
<1>3. \A r : r \in Titles(st) => r \in Titles(to)
  BY DEF Grows
<1> QED BY <1>1, <1>2, <1>3, <1>4 DEF Complete, OnTrack

\* A run moves to x, and the others stay where they are.
LEMMA RunKeeps ==
  ASSUME IInv, NEW c \in Clients, NEW x, runs' = [runs EXCEPT ![c] = x], StoreKeeps,
         IsRun(x), OnSubject(x), era = 0 => OnTrack(store', x),
         era' = era, events' \in 0..MaxEvents, events <= events',
         \/ done' = done
         \/ \E r \in Records : done' = done \cup {r} /\ (era = 0 => Complete(store', r))
  PROVE  IInv'
<1>1. /\ DOMAIN runs' = Clients /\ runs'[c] = x
      /\ \A d \in Clients \ {c} : runs'[d] = runs[d]
  BY DEF IInv, TypeOK
<1>2. Sound(store)' /\ Sound(saved)' /\ StoreOK(store)' /\ StoreOK(saved)'
  BY DEF StoreKeeps, Sound
<1>3. TypeOK'
  <2>1. events \in 0..MaxEvents /\ era \in 0..events
    BY DEF IInv, TypeOK
  <2>2. era' \in 0..events'
    BY <2>1
  <2>3. done' \subseteq Records
    BY DEF IInv, TypeOK
  <2>4. DOMAIN runs' = Clients /\ \A d \in Clients : IsRun(runs'[d])
    BY <1>1 DEF IInv, TypeOK
  <2> QED BY <1>2, <2>2, <2>3, <2>4 DEF TypeOK
<1>4. \A d \in Clients : OnSubject(runs'[d])
  BY <1>1 DEF IInv
<1>5. ASSUME era' = 0
      PROVE  (\A d \in Clients : OnTrack(store', runs'[d])) /\ \A r \in done' : Complete(store', r)
  <2>1. /\ \A d \in Clients : OnTrack(store', runs[d])
        /\ \A r \in done : Complete(store', r)
    BY <1>5, GrowthKeeps DEF IInv, StoreKeeps
  <2> QED BY <1>1, <1>5, <2>1
<1> QED BY <1>2, <1>3, <1>4, <1>5 DEF IInv

LEMMA EventsCount ==
  ASSUME IInv
  PROVE  /\ Sound(store) /\ Sound(saved) /\ era \in 0..MaxEvents
         /\ events \in 0..MaxEvents /\ events <= events
         /\ Counts => events' \in 0..MaxEvents /\ events <= events' /\ era + 1 \in 0..events'
BY KnowledgeAssumption DEF IInv, TypeOK, Counts

LEMMA RunAt ==
  ASSUME IInv, NEW c \in Clients
  PROVE  /\ IsRun(runs[c]) /\ OnSubject(runs[c])
         /\ era = 0 => OnTrack(store, runs[c])
BY DEF IInv, TypeOK

LEMMA SameStoreKeeps ==
  ASSUME IInv, store' = store, saved' = saved
  PROVE  StoreKeeps
BY GrowsIsOrder DEF IInv, StoreKeeps

\* A run that ends without success.
LEMMA EndKeeps ==
  ASSUME IInv, NEW c \in Clients, Ends(c), store' = store, saved' = saved,
         era' = era, events' = events, done' = done
  PROVE  IInv'
BY SameStoreKeeps, IdleIsRun, EventsCount, RunKeeps DEF Ends

LEMMA BeginKeeps ==
  ASSUME IInv, NEW c \in Clients, NEW r \in Records, Begin(c, r)
  PROVE  IInv'
<1>1. PICK x : x = [pc |-> "ingest", record |-> r]
  OBVIOUS
<1>2. /\ runs' = [runs EXCEPT ![c] = x] /\ store' = store /\ saved' = saved /\ era' = era
      /\ done' = done /\ (events' = events \/ Counts)
  BY <1>1 DEF Begin
<1>3. IsRun(x) /\ OnSubject(x) /\ OnTrack(store', x)
  BY <1>1 DEF IsRun, OnSubject, OnTrack
<1>4. events' \in 0..MaxEvents /\ events <= events'
  BY <1>2, EventsCount
<1> QED BY <1>2, <1>3, <1>4, SameStoreKeeps, RunKeeps

LEMMA IngestKeeps ==
  ASSUME IInv, NEW c \in Clients, Ingest(c)
  PROVE  IInv'
<1>1. runs[c].pc = "ingest" /\ era' = era /\ events' = events /\ done' = done
  BY DEF Ingest
<1>2. PICK r, to : r = runs[c].record /\ to = Ingested(store, r)
  OBVIOUS
<1>3. r \in Records /\ r \in Texts
  BY <1>1, <1>2, RunAt, RunFields DEF Texts
<1>4. Sound(to) /\ Grows(store, to) /\ SourcesOf(to, r) # {}
  <2>1. CASE SourcesOf(store, r) # {}
    BY <1>2, <2>1, EventsCount, GrowsIsOrder DEF Ingested
  <2>2. CASE SourcesOf(store, r) = {}
    <3>1. PICK chunked \in BOOLEAN : chunked = TRUE
      OBVIOUS
    <3>2. to = Added(store, r, chunked)
      BY <1>2, <2>2, <3>1 DEF Ingested
    <3> QED BY <1>3, <2>2, <3>2, EventsCount, AddedIsSound
  <2> QED BY <2>1, <2>2
<1>5. Answered(to)
  BY <1>2 DEF Ingest
<1>6. StoreKeeps /\ store' = to
  BY <1>4, <1>5, EventsCount, AnswerKeeps
<1>7. PICK s, x :
        /\ s \in SourcesOf(store', r)
        /\ x = [pc |-> "create", record |-> r, source |-> s, next |-> 1]
        /\ runs' = [runs EXCEPT ![c] = x]
  BY <1>2 DEF Ingest
<1>8. s \in SourceIds /\ s.text = r
  BY <1>4, <1>6, <1>7, SourcesAreIds DEF SourcesOf
<1>9. Len(Extracted(r)) \in Nat /\ 1 <= Len(Extracted(r))
  BY <1>3, KnowledgeAssumption
<1>10. IsRun(x) /\ OnSubject(x) /\ OnTrack(store', x)
  <2>1. Edged(store', r, 0)
    BY DEF Edged
  <2>2. IsRun(x)
    BY <1>3, <1>7, <1>8 DEF IsRun
  <2> QED BY <1>4, <1>6, <1>7, <1>8, <1>9, <2>1, <2>2 DEF OnSubject, OnTrack
<1> QED BY <1>1, <1>6, <1>7, <1>10, EventsCount, RunKeeps

LEMMA IngestBreaksKeeps ==
  ASSUME IInv, NEW c \in Clients, IngestBreaks(c)
  PROVE  IInv'
<1>0. PICK r, x : r = runs[c].record /\ x = Idle
  OBVIOUS
<1>1. PICK chunked \in BOOLEAN :
        /\ Refused(Added(store, r, chunked)) /\ SourcesOf(store, r) = {}
        /\ runs[c].pc = "ingest" /\ runs' = [runs EXCEPT ![c] = x]
        /\ era' = era /\ events' = events /\ done' = done
  BY <1>0 DEF IngestBreaks, Ends
<1>2. r \in Texts
  BY <1>0, <1>1, RunAt, RunFields DEF Texts
<1>3. Sound(Added(store, r, chunked)) /\ Grows(store, Added(store, r, chunked))
  BY <1>1, <1>2, EventsCount, AddedIsSound
<1>4. StoreKeeps
  BY <1>1, <1>3, EventsCount, AnswerKeeps
<1> QED BY <1>0, <1>1, <1>4, IdleIsRun, EventsCount, RunKeeps

LEMMA CreateFactKeeps ==
  ASSUME IInv, NEW c \in Clients, CreateFact(c)
  PROVE  IInv'
<1>1. runs[c].pc = "create" /\ era' = era /\ events' = events /\ done' = done
  BY DEF CreateFact
<1>2. PICK old, r, claim, to :
        /\ old = runs[c] /\ r = old.record /\ claim = Extracted(r)[old.next]
        /\ to = Stated(store, r, claim, old.source, TRUE)
  OBVIOUS
<1>3. /\ IsRun(old) /\ OnSubject(old) /\ (era = 0 => OnTrack(store, old))
      /\ r \in Records /\ old.source \in SourceIds /\ old.next \in Nat \ {0}
      /\ old.source.text = r /\ old.next <= Len(Extracted(r))
  BY <1>1, <1>2, RunAt, RunFields DEF OnSubject
<1>4. claim \in Claims
  BY <1>2, <1>3, KnowledgeAssumption
<1>5. /\ Sound(to) /\ Grows(store, to)
      /\ \A f \in DOMAIN to.facts : f \notin DOMAIN store.facts => f.record = r /\ f.claim = claim
  <2>1. PICK source, sure : source = old.source /\ sure = TRUE
    OBVIOUS
  <2>2. /\ source \in SourceIds \cup {None} /\ sure \in BOOLEAN
        /\ to = Stated(store, r, claim, source, sure)
    BY <1>2, <1>3, <2>1
  <2>3. Sound(store) /\ era \in 0..MaxEvents
    BY EventsCount
  <2> QED BY <1>3, <1>4, <2>2, <2>3, StatedIsSound
<1>6. Answered(to)
  BY <1>2 DEF CreateFact
<1>7. StoreKeeps /\ store' = to
  BY <1>5, <1>6, EventsCount, AnswerKeeps
<1>8. PICK f, x :
        /\ \/ f \in SameFact(store, r, claim, old.source)
           \/ f \in DOMAIN to.facts \ DOMAIN store.facts
        /\ x = [pc |-> "review", record |-> r, source |-> old.source, next |-> old.next, fact |-> f]
        /\ runs' = [runs EXCEPT ![c] = x]
  BY <1>2, <1>7 DEF CreateFact
<1>9. f \in FactIds /\ f.record = r /\ f.claim = claim
  BY <1>5, <1>8, EventsCount DEF SameFact, Sound, StoreOK
<1>10. IsRun(x) /\ OnSubject(x) /\ (era = 0 => OnTrack(store', x))
  <2>1. IsRun(x)
    BY <1>3, <1>8, <1>9 DEF IsRun
  <2>2. era = 0 => OnTrack(store', old)
    BY <1>3, <1>5, <1>7, GrowthKeeps
  <2> QED BY <1>1, <1>2, <1>3, <1>8, <1>9, <2>1, <2>2 DEF OnSubject, OnTrack
<1> QED BY <1>1, <1>7, <1>8, <1>10, EventsCount, RunKeeps

LEMMA ReviewKeeps ==
  ASSUME IInv, NEW c \in Clients, Review(c)
  PROVE  IInv'
<1>1. runs[c].pc = "review" /\ era' = era /\ events' = events /\ done' = done
  BY DEF Review
<1>2. CASE runs[c].fact \notin DOMAIN store.facts
  <2>1. Ends(c) /\ store' = store /\ saved' = saved
    BY <1>2 DEF Review, Refused
  <2> QED BY <1>1, <2>1, EndKeeps
<1>3. CASE runs[c].fact \in DOMAIN store.facts
  <2>1. PICK old, x, to : /\ old = runs[c] /\ x = [old EXCEPT !.pc = "promote"]
                          /\ to = Reviewed(store, old.fact, TRUE)
    OBVIOUS
  <2>2. Answered(to) /\ runs' = [runs EXCEPT ![c] = x]
    BY <1>3, <2>1 DEF Review
  <2>3. Sound(to) /\ Grows(store, to)
    BY <1>3, <2>1, EventsCount, ReviewedIsSound
  <2>4. StoreKeeps /\ store' = to
    BY <2>2, <2>3, EventsCount, AnswerKeeps
  <2>5. IsRun(old) /\ OnSubject(old) /\ (era = 0 => OnTrack(store, old))
    BY <2>1, RunAt
  <2>6. IsRun(x) /\ x.pc = "promote" /\ x.record = old.record /\ x.source = old.source
        /\ x.next = old.next /\ x.fact = old.fact
    BY <1>1, <2>1, <2>5 DEF IsRun, Idle
  <2>7. era = 0 => OnTrack(store', old)
    BY <2>3, <2>4, <2>5, GrowthKeeps
  <2>8. OnSubject(x) /\ (era = 0 => OnTrack(store', x))
    BY <1>1, <2>1, <2>5, <2>6, <2>7 DEF OnSubject, OnTrack
  <2> QED BY <1>1, <2>2, <2>4, <2>6, <2>8, EventsCount, RunKeeps
<1> QED BY <1>2, <1>3

LEMMA PromoteKeeps ==
  ASSUME IInv, NEW c \in Clients, Promote(c)
  PROVE  IInv'
<1>1. runs[c].pc = "promote" /\ era' = era /\ events' = events /\ done' = done
  BY DEF Promote
<1>2. CASE runs[c].fact \notin Approved(store)
  <2>1. Ends(c) /\ store' = store /\ saved' = saved
    BY <1>2 DEF Promote, Refused
  <2> QED BY <1>1, <2>1, EndKeeps
<1>3. CASE runs[c].fact \in Approved(store)
  <2>1. PICK old, r, n, F, x : /\ old = runs[c] /\ r = old.record /\ n = old.next
                               /\ F = {old.fact} /\ x = AfterFact(c)
    OBVIOUS
  <2>2. PICK to \in Promoted(store, F) : Answered(to)
    BY <1>3, <2>1 DEF Promote
  <2>3. runs' = [runs EXCEPT ![c] = x]
    BY <1>3, <2>1 DEF Promote
  <2>4. F \in SUBSET DOMAIN store.facts
    BY <1>3, <2>1, ApprovedAreFacts
  <2>5. Sound(to) /\ Grows(store, to) /\ EdgeKey(old.fact) \in DOMAIN to.edges
    BY <2>1, <2>2, <2>4, EventsCount, PromotedIsSound
  <2>6. StoreKeeps /\ store' = to
    BY <2>2, <2>5, EventsCount, AnswerKeeps
  <2>7. /\ IsRun(old) /\ OnSubject(old) /\ (era = 0 => OnTrack(store, old))
        /\ r \in Records /\ old.source \in SourceIds /\ n \in Nat \ {0}
        /\ old.source.text = r /\ n <= Len(Extracted(r))
        /\ old.fact.record = r /\ old.fact.claim = Extracted(r)[n]
    BY <1>1, <2>1, RunAt, RunFields DEF OnSubject
  <2>8. Len(Extracted(r)) \in Nat
    BY <2>7, KnowledgeAssumption
  <2>9. era = 0 => SourcesOf(to, r) # {} /\ Edged(to, r, n)
    <3> SUFFICES ASSUME era = 0 PROVE SourcesOf(to, r) # {} /\ Edged(to, r, n)
      OBVIOUS
    <3>1. OnTrack(to, old)
      BY <2>5, <2>7, GrowthKeeps
    <3>2. SourcesOf(to, r) # {} /\ Edged(to, r, n - 1)
      BY <1>1, <2>1, <3>1 DEF OnTrack
    <3>3. <<r, NodeOf(Extracted(r)[n])>> \in DOMAIN to.edges
      BY <2>5, <2>7 DEF EdgeKey
    <3>4. \A i \in 1..n : i \in 1..(n - 1) \/ i = n
      BY <2>7
    <3> QED BY <3>2, <3>3, <3>4 DEF Edged
  <2>10. CASE n = Len(Extracted(r))
    <3>1. x = [pc |-> "compile", record |-> r, source |-> old.source]
      BY <2>1, <2>10 DEF AfterFact
    <3>2. IsRun(x) /\ OnSubject(x) /\ (era = 0 => OnTrack(store', x))
      BY <2>6, <2>7, <2>9, <2>10, <3>1 DEF IsRun, OnSubject, OnTrack
    <3> QED BY <1>1, <2>3, <2>6, <3>2, EventsCount, RunKeeps
  <2>11. CASE n # Len(Extracted(r))
    <3>1. x = [pc |-> "create", record |-> r, source |-> old.source, next |-> n + 1]
      BY <2>1, <2>11 DEF AfterFact
    <3>2. n + 1 \in Nat \ {0} /\ n + 1 <= Len(Extracted(r)) /\ (n + 1) - 1 = n
      BY <2>7, <2>8, <2>11
    <3>3. IsRun(x) /\ OnSubject(x) /\ (era = 0 => OnTrack(store', x))
      BY <2>6, <2>7, <2>9, <3>1, <3>2 DEF IsRun, OnSubject, OnTrack
    <3> QED BY <1>1, <2>3, <2>6, <3>3, EventsCount, RunKeeps
  <2> QED BY <2>10, <2>11
<1> QED BY <1>2, <1>3

LEMMA CompileKeeps ==
  ASSUME IInv, NEW c \in Clients, Compile(c)
  PROVE  IInv'
<1>1. runs[c].pc = "compile" /\ era' = era /\ events' = events /\ done' = done
  BY DEF Compile
<1>2. CASE ~(runs[c].source \in Range(store.sources) /\ runs[c].source.chunked)
  <2>1. Ends(c) /\ store' = store /\ saved' = saved
    BY <1>2 DEF Compile, Refused
  <2> QED BY <1>1, <2>1, EndKeeps
<1>3. CASE runs[c].source \in Range(store.sources) /\ runs[c].source.chunked
  <2>1. PICK old, S, to, x : /\ old = runs[c] /\ S = <<old.source>> /\ to = Compiled(store, S)
                             /\ x = [pc |-> "gates", record |-> old.record]
    OBVIOUS
  <2>2. Answered(to) /\ runs' = [runs EXCEPT ![c] = x]
    BY <1>3, <2>1 DEF Compile
  <2>3. /\ IsRun(old) /\ OnSubject(old) /\ (era = 0 => OnTrack(store, old))
        /\ old.record \in Records /\ old.source \in SourceIds /\ old.source.text = old.record
    BY <1>1, <2>1, RunAt, RunFields DEF OnSubject
  <2>4. S \in Seq(SourceIds) /\ 1 \in DOMAIN S /\ S[1] = old.source
    BY <2>1, <2>3
  <2>5. Sound(to) /\ Grows(store, to) /\ old.record \in Titles(to)
    BY <1>3, <2>1, <2>3, <2>4, EventsCount, CompiledIsSound
  <2>6. StoreKeeps /\ store' = to
    BY <2>2, <2>5, EventsCount, AnswerKeeps
  <2>7. era = 0 => OnTrack(store', old)
    BY <2>3, <2>5, <2>6, GrowthKeeps
  <2>9. HasChunks(store', old.record)
    BY <1>3, <2>1, <2>3, <2>5, <2>6 DEF HasChunks, SourcesOf, Grows
  <2>8. IsRun(x) /\ OnSubject(x) /\ (era = 0 => OnTrack(store', x))
    BY <1>1, <2>1, <2>3, <2>5, <2>6, <2>7, <2>9 DEF IsRun, OnSubject, OnTrack
  <2> QED BY <1>1, <2>2, <2>6, <2>8, EventsCount, RunKeeps
<1> QED BY <1>2, <1>3

\* A run that ends with success, from the gates or after the publication.
LEMMA SuccessKeeps ==
  ASSUME IInv, NEW c \in Clients, Succeeds(c), runs[c].pc \in {"gates", "publish"},
         StoreKeeps, era' = era, events' = events
  PROVE  IInv'
<1>1. runs' = [runs EXCEPT ![c] = Idle] /\ done' = done \cup {runs[c].record}
  BY DEF Succeeds, Ends
<1>2. runs[c].record \in Records
  BY RunAt, RunFields
<1>3. era = 0 => Complete(store', runs[c].record)
  <2>1. era = 0 => Complete(store, runs[c].record)
    BY RunAt DEF OnTrack, Complete
  <2> QED BY <2>1, GrowthKeeps DEF StoreKeeps
<1>4. \E r \in Records : done' = done \cup {r} /\ (era = 0 => Complete(store', r))
  BY <1>1, <1>2, <1>3
<1>5. PICK x : x = Idle
  OBVIOUS
<1>6. IsRun(x) /\ OnSubject(x) /\ OnTrack(store', x) /\ runs' = [runs EXCEPT ![c] = x]
  BY <1>1, <1>5, IdleIsRun
<1> QED BY <1>4, <1>6, EventsCount, RunKeeps

LEMMA CheckGatesKeeps ==
  ASSUME IInv, NEW c \in Clients, CheckGates(c)
  PROVE  IInv'
<1>1. /\ runs[c].pc = "gates" /\ era' = era /\ events' = events
      /\ Answered(store)
  BY DEF CheckGates
<1>2. StoreKeeps /\ store' = store
  BY <1>1, EventsCount, GrowsIsOrder, AnswerKeeps
<1>3. CASE Succeeds(c)
  BY <1>1, <1>2, <1>3, SuccessKeeps
<1>4. CASE runs' = [runs EXCEPT ![c].pc = "draft"] /\ done' = done
  <2>1. PICK old, x : old = runs[c] /\ x = [old EXCEPT !.pc = "draft"]
    OBVIOUS
  <2>2. runs' = [runs EXCEPT ![c] = x]
    BY <1>4, <2>1
  <2>3. IsRun(old) /\ (era = 0 => OnTrack(store, old))
    BY <2>1, RunAt
  <2>4. IsRun(x) /\ x.pc = "draft" /\ x.record = old.record
    BY <1>1, <2>1, <2>3 DEF IsRun, Idle
  <2>5. OnSubject(x) /\ (era = 0 => OnTrack(store', x))
    BY <1>1, <1>2, <2>1, <2>3, <2>4 DEF OnSubject, OnTrack
  <2> QED BY <1>1, <1>2, <1>4, <2>2, <2>4, <2>5, EventsCount, RunKeeps
<1> QED BY <1>3, <1>4 DEF CheckGates

LEMMA DraftKeeps ==
  ASSUME IInv, NEW c \in Clients, Draft(c)
  PROVE  IInv'
<1>1. runs[c].pc = "draft" /\ era' = era /\ events' = events /\ done' = done
  BY DEF Draft
<1>2. PICK old, to : old = runs[c] /\ to = Drafted(store)
  OBVIOUS
<1>3. Answered(to) /\ Len(store.snapshots) < MaxSnapshots
  BY <1>2 DEF Draft, CanDraft
<1>4. /\ Sound(to) /\ Grows(store, to)
      /\ Len(to.snapshots) \in Nat \ {0}
  BY <1>2, <1>3, EventsCount, DraftedIsSound
<1>5. StoreKeeps /\ store' = to
  BY <1>3, <1>4, EventsCount, AnswerKeeps
<1>6. PICK x : /\ x = [pc |-> "publish", record |-> old.record,
                       version |-> Len(store'.snapshots), era |-> era]
               /\ runs' = [runs EXCEPT ![c] = x]
  BY <1>2 DEF Draft
<1>7. IsRun(old) /\ old.record \in Records /\ (era = 0 => OnTrack(store, old))
  BY <1>1, <1>2, RunAt, RunFields
<1>8. era = 0 => OnTrack(store', old)
  BY <1>4, <1>5, <1>7, GrowthKeeps
<1>9. IsRun(x)
  BY <1>4, <1>5, <1>6, <1>7, EventsCount DEF IsRun
<1>10. OnSubject(x) /\ (era = 0 => OnTrack(store', x))
  BY <1>1, <1>2, <1>6, <1>8 DEF OnSubject, OnTrack
<1> QED BY <1>1, <1>5, <1>6, <1>9, <1>10, EventsCount, RunKeeps

LEMMA PublishKeeps ==
  ASSUME IInv, NEW c \in Clients, Publish(c)
  PROVE  IInv'
<1>1. runs[c].pc = "publish" /\ era' = era /\ events' = events
  BY DEF Publish
<1>2. CASE Refused(store) /\ Ends(c) /\ done' = done
  BY <1>1, <1>2, EndKeeps DEF Refused
<1>3. CASE /\ runs[c].version \in DOMAIN store.snapshots
           /\ Answered(Published(store, runs[c].version)) /\ Succeeds(c)
  <2>1. PICK v, to : v = runs[c].version /\ to = Published(store, v)
    OBVIOUS
  <2>2. Sound(to) /\ Grows(store, to)
    BY <1>3, <2>1, EventsCount, PublishedIsSound
  <2>3. StoreKeeps
    BY <1>3, <2>1, <2>2, EventsCount, AnswerKeeps
  <2> QED BY <1>1, <1>3, <2>3, SuccessKeeps
<1> QED BY <1>2, <1>3 DEF Publish

\* After a restart nothing is promised of what was done before it.
LEMMA RestartKeeps ==
  ASSUME IInv, Restart
  PROVE  IInv'
<1>1. /\ store' = saved /\ saved' = saved /\ runs' = runs /\ done' = done
      /\ era' = era + 1 /\ Counts
  BY DEF Restart
<1>2. TypeOK'
  BY <1>1, EventsCount DEF IInv, TypeOK, StoreOK
<1>3. era' # 0
  BY <1>1, EventsCount
<1>4. Sound(store') /\ Sound(saved') /\ \A c \in Clients : OnSubject(runs'[c])
  BY <1>1 DEF IInv
<1> QED BY <1>2, <1>3, <1>4 DEF IInv

LEMMA CuratorStepKeeps ==
  ASSUME IInv, CuratorStep
  PROVE  IInv'
<1>1. runs' = runs /\ done' = done /\ era' = era /\ Counts
  BY DEF CuratorStep, IngestDocument, EnterFact, ReviewFact, PromoteFact, CompileArticle,
         AddEvaluationSet, CreateSnapshot, PublishSnapshot, RollbackSnapshot, Rebuild
<1>2. StoreKeeps
  BY EventsCount, CuratorKeeps
<1>3. Sound(store)' /\ Sound(saved)' /\ StoreOK(store)' /\ StoreOK(saved)'
  BY <1>2 DEF StoreKeeps, Sound
<1>4. TypeOK'
  <2>1. events' \in 0..MaxEvents /\ era' \in 0..events'
    BY <1>1, EventsCount DEF IInv, TypeOK
  <2> QED BY <1>1, <1>3, <2>1 DEF IInv, TypeOK
<1>5. \A c \in Clients : OnSubject(runs'[c])
  BY <1>1 DEF IInv
<1>6. ASSUME era' = 0
      PROVE  (\A d \in Clients : OnTrack(store', runs'[d])) /\ \A r \in done' : Complete(store', r)
  BY <1>1, <1>2, <1>6, GrowthKeeps DEF IInv, StoreKeeps
<1> QED BY <1>3, <1>4, <1>5, <1>6 DEF IInv

LEMMA FailKeeps ==
  ASSUME IInv, NEW c \in Clients, Fail(c)
  PROVE  IInv'
BY EndKeeps DEF Fail

LEMMA Inductive == Spec => []IInv
<1>1. Init => IInv
  <2> SUFFICES ASSUME Init PROVE IInv
    OBVIOUS
  <2>1. Sound(store) /\ Sound(saved) /\ StoreOK(store) /\ StoreOK(saved)
    BY EmptyIsSound DEF Init, Sound
  <2>2. \A c \in Clients : /\ IsRun(runs[c]) /\ OnSubject(runs[c])
                           /\ OnTrack(store, runs[c])
    BY IdleIsRun DEF Init
  <2>3. TypeOK
    BY <2>1, <2>2, KnowledgeAssumption DEF Init, TypeOK
  <2> QED BY <2>1, <2>2, <2>3 DEF Init, IInv
<1>2. IInv /\ [Next]_vars => IInv'
  <2>1. ASSUME IInv, UNCHANGED vars PROVE IInv'
    BY <2>1 DEF vars, IInv, TypeOK, Sound, StoreOK, SingleSources, TrueEdges, SinglePublished,
           LinksLead, Titles, OnSubject, OnTrack, Complete, Edged, SourcesOf, EdgeKey
  <2> QED BY <2>1, BeginKeeps, IngestKeeps, IngestBreaksKeeps, CreateFactKeeps, ReviewKeeps, PromoteKeeps,
             CompileKeeps, CheckGatesKeeps, DraftKeeps, PublishKeeps, FailKeeps,
             CuratorStepKeeps, RestartKeeps DEF Next, RunStep
<1> QED BY <1>1, <1>2, PTL DEF Spec

\* The store, its copy and the runs are well typed, for any records, claims and runs.
THEOREM TypeCorrect == Spec => []TypeOK
<1>1. IInv => TypeOK
  BY DEF IInv
<1> QED BY <1>1, Inductive, PTL

\* However runs overlap, are repeated and fail, and whatever curators do and restarts take
\* back, a record has one source, an edge names a fact that says what it says, and one
\* snapshot is published (ingest_source_text, promote_fact_to_graph, publish_snapshot).
THEOREM RowsStayAgreed == Spec => []RowsAgree
<1>1. IInv => RowsAgree
  BY DEF IInv, Sound, SingleSources, TrueEdges, SinglePublished, RowsAgree, OneSourcePerRecord,
         EdgesComeFromFacts, OnePublished
<1> QED BY <1>1, Inductive, PTL

\* What a run reported as indexed is there until a restart: source, an edge for every claim
\* and an article, however other runs and curators interfered
\* (index_uploaded_document_via_kis).
THEOREM IndexedStaysComplete == Spec => []IndexedIsComplete
<1>1. IInv => IndexedIsComplete
  <2> SUFFICES ASSUME IInv, era = 0, NEW r \in done
               PROVE  /\ \E s \in SourcesOf(store, r) : s.chunked
                      /\ \A i \in DOMAIN Extracted(r) :
                           <<r, NodeOf(Extracted(r)[i])>> \in DOMAIN store.edges
                      /\ r \in Titles(store)
    BY DEF IndexedIsComplete
  <2>1. Complete(store, r) /\ r \in Records
    BY DEF IInv, TypeOK
  <2>2. DOMAIN Extracted(r) = 1..Len(Extracted(r))
    BY <2>1, KnowledgeAssumption
  <2> QED BY <2>1, <2>2 DEF Complete, HasChunks, Edged
<1> QED BY <1>1, Inductive, PTL

\* When the gates pass every link of every article leads to an article, although the broken
\* links of an article are those of the moment it was compiled (run_quality_gates).
THEOREM PassingWikisAreClosed == Spec => []PassingWikiIsClosed
<1>1. IInv => PassingWikiIsClosed
  BY DEF IInv, Sound, LinksLead, PassingWikiIsClosed, GatesPass
<1> QED BY <1>1, Inductive, PTL

-----------------------------------------------------------------------------
(* The copy of the store. *)

-----------------------------------------------------------------------------
\* What is not visible in the state alone: no payload has a request that was not handled.

InPast ==
  /\ memory \in past
  /\ UNION rows \in past
  /\ \A r \in Requests : loc[r].pc = "written" => loc[r].payload \in past

Unborn ==
  \A r \in Requests : loc[r] = Ahead => \A p \in past : r \notin p

Closed(p) == \A r \in p : base[r] \subseteq p

AllClosed == \A p \in past : Closed(p)

StoreInv == StoreTypeOK /\ InPast /\ Unborn /\ AllClosed

-----------------------------------------------------------------------------
\* A place has the fields of its kind.
LEMMA PlaceFields ==
  ASSUME NEW p \in Places
  PROVE  /\ p.pc = "read" => p \in [pc : {"read"}, seen : Tables]
         /\ p.pc = "written" => p \in [pc : {"written"}, seen : Tables, payload : Payloads]
         /\ p = Ahead => p.pc = "ahead"
BY DEF Places, Ahead, Persisted, Unsaved, Lost

\* What a table holds is one payload, or nothing.
LEMMA UnionOfTable ==
  /\ UNION {} = {}
  /\ \A p : UNION {p} = p
  /\ \A t \in Tables : UNION t \in Payloads
<1>1. UNION {} = {}
  OBVIOUS
<1>2. \A p : UNION {p} = p
  OBVIOUS
<1>3. {} \in Payloads
  BY DEF Payloads
<1> QED
  BY <1>1, <1>2, <1>3 DEF Tables


\* A payload of a table is what the table holds.
LEMMA PayloadOfTable == \A t \in Tables : \A p \in t : p = UNION t
BY UnionOfTable DEF Tables

-----------------------------------------------------------------------------
\* Type correctness.

LEMMA InitTypes == StoreInit => StoreTypeOK
<1> SUFFICES ASSUME StoreInit PROVE StoreTypeOK
  OBVIOUS
<1>1. memory \in Payloads /\ past \subseteq Payloads /\ base \in [Requests -> Payloads]
  BY DEF StoreInit, Payloads
<1>2. rows \in Tables /\ loc \in [Requests -> Places]
  BY DEF StoreInit, Tables, Places
<1>3. starts \in 0..MaxStarts
  BY StoreAssumption DEF StoreInit
<1>4. quiet \subseteq Requests /\ blind \in BOOLEAN
  BY DEF StoreInit
<1> QED BY <1>1, <1>2, <1>3, <1>4 DEF StoreTypeOK

LEMMA NextTypes == StoreTypeOK /\ [StoreNext]_storeVars => StoreTypeOK'
<1> SUFFICES ASSUME StoreTypeOK, [StoreNext]_storeVars PROVE StoreTypeOK'
  OBVIOUS
<1>1. ASSUME NEW r \in Requests, NEW place \in Places, Goto(r, place)
      PROVE  loc' \in [Requests -> Places]
  BY <1>1 DEF Goto, StoreTypeOK
<1>2. ASSUME NEW r \in Requests, Handle(r) PROVE StoreTypeOK'
  <2>1. [pc |-> "handled"] \in Places /\ Unsaved \in Places
    BY DEF Places
  <2>2. loc' \in [Requests -> Places]
    BY <1>1, <1>2, <2>1 DEF Handle
  <2>3. memory' \in Payloads /\ base' \in [Requests -> Payloads] /\ past' \subseteq Payloads
    BY <1>2 DEF Handle, StoreTypeOK, Payloads
  <2>4. quiet' \subseteq Requests
    BY <1>2 DEF Handle, StoreTypeOK
  <2> QED BY <1>2, <2>2, <2>3, <2>4 DEF Handle, StoreTypeOK
<1>3. ASSUME NEW r \in Requests, Read(r) PROVE StoreTypeOK'
  <2>1. [pc |-> "read", seen |-> rows] \in Places
    BY DEF Places, StoreTypeOK
  <2> QED BY <1>1, <1>3, <2>1 DEF Read, StoreTypeOK
<1>4. ASSUME NEW r \in Requests, Export(r) PROVE StoreTypeOK'
  <2>1. loc[r].seen \in Tables
    BY <1>4, PlaceFields DEF Export, StoreTypeOK
  <2>2. [pc |-> "written", seen |-> loc[r].seen, payload |-> memory] \in Places
    BY <2>1 DEF Places, StoreTypeOK
  <2> QED BY <1>1, <1>4, <2>2 DEF Export, StoreTypeOK
<1>5. ASSUME NEW r \in Requests, Commit(r) PROVE StoreTypeOK'
  <2>1. loc[r].payload \in Payloads
    BY <1>5, PlaceFields DEF Commit, StoreTypeOK
  <2>2. Persisted \in Places /\ Unsaved \in Places
    BY DEF Places
  <2>3. rows' \in Tables
    BY <1>5, <2>1 DEF Commit, Tables, StoreTypeOK
  <2>4. loc' \in [Requests -> Places]
    BY <1>1, <1>5, <2>2 DEF Commit
  <2> QED BY <1>5, <2>3, <2>4 DEF Commit, StoreTypeOK
<1>6. ASSUME NEW r \in Requests, Swallow(r) PROVE StoreTypeOK'
  <2>1. Unsaved \in Places
    BY DEF Places
  <2> QED BY <1>1, <1>6, <2>1 DEF Swallow, StoreTypeOK
<1>7. CASE Start
  <2>1. UNION rows \in Payloads /\ {} \in Payloads
    BY UnionOfTable DEF StoreTypeOK, Payloads
  <2>2. memory' \in Payloads /\ past' \subseteq Payloads /\ blind' \in BOOLEAN
    BY <1>7, <2>1 DEF Start, StoreTypeOK
  <2>3. loc' \in [Requests -> Places]
    BY <1>7 DEF Start, StoreTypeOK, Places
  <2>4. starts' \in 0..MaxStarts
    BY <1>7, StoreAssumption DEF Start, StoreTypeOK
  <2> QED BY <1>7, <2>2, <2>3, <2>4 DEF Start, StoreTypeOK
<1>8. CASE UNCHANGED storeVars
  BY <1>8 DEF storeVars, StoreTypeOK
<1> QED BY <1>2, <1>3, <1>4, <1>5, <1>6, <1>7, <1>8 DEF StoreNext

\* Every reachable state is well typed, so that the table never has a second row although
\* two requests may try to insert the first one.
THEOREM StoreTypeCorrect == StoreSpec => []StoreTypeOK
BY InitTypes, NextTypes, PTL DEF StoreSpec

-----------------------------------------------------------------------------
\* The saved copy is closed.

LEMMA InitInv == StoreInit => StoreInv
<1> SUFFICES ASSUME StoreInit PROVE StoreInv
  OBVIOUS
<1>1. StoreTypeOK
  BY InitTypes
<1>2. UNION rows = {} /\ past = {{}} /\ memory = {}
  BY UnionOfTable DEF StoreInit
<1>3. \A r \in Requests : loc[r].pc # "written"
  BY DEF StoreInit, Ahead
<1> QED BY <1>1, <1>2, <1>3 DEF StoreInv, InPast, Unborn, AllClosed, Closed

\* A request that moves on without leaving or entering Ahead or "written" disturbs nothing.
LEMMA MovesKeepInv ==
  ASSUME StoreInv, StoreTypeOK', NEW r \in Requests, NEW place, Goto(r, place), place # Ahead,
         place.pc = "written" => place.payload \in past,
         UNION rows' \in past, UNCHANGED <<memory, past, base>>
  PROVE  StoreInv'
<1>1. \A s \in Requests : loc'[s] = IF s = r THEN place ELSE loc[s]
  BY DEF Goto, StoreInv, StoreTypeOK
<1>2. InPast'
  BY <1>1 DEF InPast, StoreInv
<1>3. Unborn'
  BY <1>1 DEF Unborn, StoreInv
<1> QED BY <1>2, <1>3 DEF StoreInv, AllClosed, Closed

LEMMA NextInv == StoreInv /\ [StoreNext]_storeVars => StoreInv'
<1> SUFFICES ASSUME StoreInv, [StoreNext]_storeVars PROVE StoreInv'
  OBVIOUS
<1>1. StoreTypeOK /\ StoreTypeOK'
  BY NextTypes DEF StoreInv
<1>2. UNION rows \in past /\ memory \in past
  BY DEF StoreInv, InPast
<1>3. ASSUME NEW r \in Requests, Handle(r) PROVE StoreInv'
  <2>1. PICK place \in {[pc |-> "handled"], Unsaved} : loc' = [loc EXCEPT ![r] = place]
    BY <1>3 DEF Handle, Goto
  <2>2. place # Ahead /\ place.pc # "written"
    BY DEF Ahead, Unsaved
  <2>3. loc[r] = Ahead /\ memory' = memory \cup {r} /\ past' = past \cup {memory'} /\ rows' = rows
    BY <1>3 DEF Handle
  <2>4. \A s \in Requests : loc'[s] = IF s = r THEN place ELSE loc[s]
    BY <1>1, <2>1 DEF StoreTypeOK
  <2>5. \A s \in Requests : base'[s] = IF s = r THEN memory ELSE base[s]
    BY <1>1, <1>3 DEF Handle, StoreTypeOK
  <2>6. InPast'
    BY <1>2, <2>2, <2>3, <2>4 DEF InPast, StoreInv
  <2>7. Unborn'
    BY <1>2, <2>2, <2>3, <2>4 DEF Unborn, StoreInv
  <2>8. ASSUME NEW p \in past PROVE Closed(p)'
    <3>1. r \notin p /\ p \subseteq Requests
      BY <1>1, <2>3 DEF StoreInv, Unborn, StoreTypeOK, Payloads
    <3> QED BY <2>5, <3>1 DEF Closed, StoreInv, AllClosed
  <2>9. Closed(memory)'
    <3>1. Closed(memory) /\ memory \subseteq Requests
      BY <1>1, <1>2 DEF StoreInv, AllClosed, StoreTypeOK, Payloads
    <3> QED BY <2>3, <2>5, <3>1 DEF Closed
  <2>10. AllClosed'
    BY <2>3, <2>8, <2>9 DEF AllClosed, Closed
  <2> QED BY <1>1, <2>6, <2>7, <2>10 DEF StoreInv
<1>4. ASSUME NEW r \in Requests, Read(r) PROVE StoreInv'
  <2>1. Goto(r, [pc |-> "read", seen |-> rows]) /\ UNCHANGED <<memory, rows, past, base>>
    BY <1>4 DEF Read
  <2> QED BY <1>1, <1>2, <2>1, MovesKeepInv DEF Ahead
<1>5. ASSUME NEW r \in Requests, Export(r) PROVE StoreInv'
  <2>1. /\ Goto(r, [pc |-> "written", seen |-> loc[r].seen, payload |-> memory])
        /\ UNCHANGED <<memory, rows, past, base>>
    BY <1>5 DEF Export
  <2> QED BY <1>1, <1>2, <2>1, MovesKeepInv DEF Ahead
<1>6. ASSUME NEW r \in Requests, Commit(r) PROVE StoreInv'
  <2>1. loc[r].payload \in past
    BY <1>6 DEF Commit, StoreInv, InPast
  <2>2. UNION rows' \in past
    BY <1>2, <1>6, <2>1, UnionOfTable DEF Commit
  <2>3. (Goto(r, Persisted) \/ Goto(r, Unsaved)) /\ UNCHANGED <<memory, past, base>>
    BY <1>6 DEF Commit
  <2> QED BY <1>1, <2>2, <2>3, MovesKeepInv DEF Ahead, Persisted, Unsaved
<1>7. ASSUME NEW r \in Requests, Swallow(r) PROVE StoreInv'
  <2>1. Goto(r, Unsaved) /\ UNCHANGED <<memory, rows, past, base>>
    BY <1>7 DEF Swallow
  <2> QED BY <1>1, <1>2, <2>1, MovesKeepInv DEF Ahead, Unsaved
<1>8. CASE Start
  <2>1. memory' \in {UNION rows, {}} /\ past' = {memory', UNION rows} /\ rows' = rows /\ base' = base
    BY <1>8 DEF Start
  <2>2. \A r \in Requests : (loc'[r] = Lost \/ loc'[r] = loc[r]) /\ loc'[r].pc # "written"
    BY <1>8 DEF Start, Persisting, Lost
  <2>3. \A p \in past' : p = {} \/ p \in past
    BY <1>2, <2>1
  <2>4. InPast'
    BY <2>1, <2>2 DEF InPast
  <2>5. Unborn'
    BY <2>2, <2>3 DEF Unborn, StoreInv, Lost, Ahead
  <2>6. AllClosed'
    BY <2>1, <2>3 DEF AllClosed, Closed, StoreInv
  <2> QED BY <1>1, <2>4, <2>5, <2>6 DEF StoreInv
<1>9. CASE UNCHANGED storeVars
  BY <1>9 DEF storeVars, StoreInv, StoreTypeOK, InPast, Unborn, AllClosed, Closed
<1> QED BY <1>3, <1>4, <1>5, <1>6, <1>7, <1>8, <1>9 DEF StoreNext

\* The saved copy has, with what a request did, everything that request found, however
\* persistences overlap, fail and are cut off.
THEOREM CopyIsClosed == StoreSpec => []SavedIsClosed
<1>1. StoreInv => SavedIsClosed
  <2> SUFFICES ASSUME StoreInv, NEW payload \in rows PROVE Closed(payload)
    BY DEF SavedIsClosed, Closed
  <2>1. payload = UNION rows
    BY PayloadOfTable DEF StoreInv, StoreTypeOK
  <2> QED BY <2>1 DEF StoreInv, InPast, AllClosed
<1> QED BY <1>1, InitInv, NextInv, PTL DEF StoreSpec

-----------------------------------------------------------------------------
\* Quietly saved requests stay.

\* A quiet request that is still being persisted is alone, and what it read is the table.
QuietAlone ==
  \A r \in quiet \cap Persisting :
    /\ Persisting = {r}
    /\ r \in memory
    /\ loc[r].pc \in {"read", "written"} => loc[r].seen = rows
    /\ loc[r].pc = "written" => r \in loc[r].payload

\* One that was answered is in everything that is or will be written.
QuietSaved ==
  \A r \in quiet :
    loc[r] = Persisted =>
      /\ r \in memory
      /\ r \in UNION rows
      /\ \A s \in Requests : loc[s].pc = "written" => r \in loc[s].payload

QuietInv == StoreTypeOK /\ (~blind => QuietAlone /\ QuietSaved) /\ \A r \in quiet : loc[r] # Ahead

LEMMA InitQuiet == StoreInit => QuietInv
BY InitTypes DEF StoreInit, QuietInv, QuietAlone, QuietSaved

LEMMA NextQuiet == QuietInv /\ [StoreNext]_storeVars => QuietInv'
<1> SUFFICES ASSUME QuietInv, [StoreNext]_storeVars PROVE QuietInv'
  OBVIOUS
<1> USE DEF Ahead, Persisted, Unsaved, Lost
<1>1. StoreTypeOK /\ StoreTypeOK'
  BY NextTypes DEF QuietInv
<1>2. ASSUME NEW r \in Requests, NEW place, Goto(r, place)
      PROVE  \A s \in Requests : loc'[s] = IF s = r THEN place ELSE loc[s]
  BY <1>1, <1>2 DEF Goto, StoreTypeOK
<1>3. ASSUME NEW r \in Requests, Handle(r) PROVE QuietInv'
  <2>1. PICK place \in {[pc |-> "handled"], Unsaved} : Goto(r, place)
    BY <1>3 DEF Handle
  <2>2. \A s \in Requests : loc'[s] = IF s = r THEN place ELSE loc[s]
    BY <1>2, <2>1
  <2>3. /\ loc[r] = Ahead /\ memory' = memory \cup {r} /\ rows' = rows /\ blind' = blind
        /\ r \notin quiet
    BY <1>3 DEF Handle, QuietInv
  <2>4. quiet' \subseteq Requests /\ quiet' \subseteq quiet \cup {r}
    BY <1>1, <1>3 DEF Handle, StoreTypeOK
  <2>5. \A s \in quiet' : loc'[s] # Ahead
    BY <1>1, <2>2, <2>4 DEF QuietInv, StoreTypeOK
  <2>6. Persisting' = IF place = Unsaved THEN Persisting ELSE Persisting \cup {r}
    BY <2>2, <2>3 DEF Persisting
  <2>7. CASE place = Unsaved
    <3>1. quiet' = quiet
      <4>1. ~ Goto(r, [pc |-> "handled"])
        BY <1>1, <2>1, <2>7, <2>2 DEF Goto, StoreTypeOK
      <4> QED BY <1>3, <4>1 DEF Handle
    <3>2. ~blind => QuietAlone'
      BY <1>1, <2>2, <2>3, <2>6, <2>7, <3>1 DEF QuietInv, QuietAlone, StoreTypeOK
    <3>3. ~blind => QuietSaved'
      BY <1>1, <2>2, <2>3, <2>7, <3>1 DEF QuietInv, QuietSaved, StoreTypeOK
    <3> QED BY <1>1, <2>3, <2>5, <3>2, <3>3 DEF QuietInv
  <2>8. CASE place # Unsaved
    <3>1. quiet' = IF Persisting = {} THEN quiet \cup {r} ELSE quiet \ Persisting
      <4>1. ~ Goto(r, Unsaved)
        BY <1>1, <2>1, <2>8, <2>2 DEF Goto, StoreTypeOK
      <4> QED BY <1>3, <4>1 DEF Handle
    <3>2. \A s \in quiet' \cap Persisting' : s = r /\ Persisting' = {r}
      BY <2>3, <2>6, <2>8, <3>1
    <3>3. QuietAlone'
      BY <2>1, <2>2, <2>3, <2>8, <3>2 DEF QuietAlone
    <3>4. ~blind => QuietSaved'
      BY <1>1, <2>1, <2>2, <2>3, <2>4, <2>8 DEF QuietInv, QuietSaved, StoreTypeOK
    <3> QED BY <1>1, <2>3, <2>5, <3>3, <3>4 DEF QuietInv
  <2> QED BY <2>7, <2>8
<1>4. ASSUME NEW r \in Requests, Read(r) PROVE QuietInv'
  <2>1. \A s \in Requests : loc'[s] = IF s = r THEN [pc |-> "read", seen |-> rows] ELSE loc[s]
    BY <1>2, <1>4 DEF Read
  <2>2. UNCHANGED <<memory, rows, quiet, blind>> /\ loc[r].pc = "handled"
    BY <1>4 DEF Read
  <2>3. Persisting' = Persisting
    BY <2>1, <2>2 DEF Persisting
  <2>4. (~blind => QuietAlone')
    BY <1>1, <2>1, <2>2, <2>3 DEF QuietInv, QuietAlone, StoreTypeOK
  <2>5. (~blind => QuietSaved')
    BY <1>1, <2>1, <2>2 DEF QuietInv, QuietSaved, StoreTypeOK
  <2> QED BY <1>1, <2>1, <2>2, <2>4, <2>5 DEF QuietInv, StoreTypeOK
<1>5. ASSUME NEW r \in Requests, Export(r) PROVE QuietInv'
  <2> DEFINE place == [pc |-> "written", seen |-> loc[r].seen, payload |-> memory]
  <2>1. \A s \in Requests : loc'[s] = IF s = r THEN place ELSE loc[s]
    BY <1>2, <1>5 DEF Export
  <2>2. UNCHANGED <<memory, rows, quiet, blind>> /\ loc[r].pc = "read"
    BY <1>5 DEF Export
  <2>3. Persisting' = Persisting
    BY <2>1, <2>2 DEF Persisting
  <2>4. (~blind => QuietAlone')
    BY <1>1, <2>1, <2>2, <2>3 DEF QuietInv, QuietAlone, StoreTypeOK
  <2>5. (~blind => QuietSaved')
    BY <1>1, <2>1, <2>2 DEF QuietInv, QuietSaved, StoreTypeOK
  <2> QED BY <1>1, <2>1, <2>2, <2>4, <2>5 DEF QuietInv, StoreTypeOK
<1>6. ASSUME NEW r \in Requests, Commit(r) PROVE QuietInv'
  <2> DEFINE inserted == loc[r].seen = {} /\ rows # {}
             place == IF inserted THEN Unsaved ELSE Persisted
  <2>1. \A s \in Requests : loc'[s] = IF s = r THEN place ELSE loc[s]
    <3>1. Goto(r, place)
      BY <1>6 DEF Commit
    <3> HIDE DEF place
    <3> QED BY <1>2, <3>1
  <2>2. UNCHANGED <<memory, quiet, blind>> /\ loc[r].pc = "written"
    BY <1>6 DEF Commit
  <2>3. rows' = IF inserted \/ loc[r].seen = {loc[r].payload} THEN rows ELSE {loc[r].payload}
    BY <1>6 DEF Commit
  <2>4. Persisting' = Persisting \ {r} /\ r \in Persisting
    BY <2>1, <2>2 DEF Persisting
  <2>5. ~blind => QuietAlone'
    BY <2>1, <2>2, <2>4 DEF QuietInv, QuietAlone, Persisting
  <2>6. ASSUME ~blind, NEW s \in quiet, loc'[s] = Persisted
        PROVE  /\ s \in memory /\ s \in UNION rows'
               /\ \A x \in Requests : loc'[x].pc = "written" => s \in loc'[x].payload
    <3>1. CASE s # r
      <4>1. /\ s \in memory /\ s \in UNION rows
            /\ \A x \in Requests : loc[x].pc = "written" => s \in loc[x].payload
        BY <1>1, <2>1, <2>6, <3>1 DEF QuietInv, QuietSaved, StoreTypeOK
      <4>2. s \in loc[r].payload
        BY <2>2, <4>1
      <4> QED BY <2>1, <2>3, <4>1, <4>2, UnionOfTable
    <3>2. CASE s = r
      <4>1. /\ Persisting = {r} /\ r \in memory /\ r \in loc[r].payload
            /\ loc[r].seen = rows
        BY <2>2, <2>4, <2>6, <3>2 DEF QuietInv, QuietAlone
      <4>2. \A x \in Requests : loc'[x].pc # "written"
        BY <2>1, <4>1 DEF Persisting
      <4>3. rows' = {loc[r].payload}
        BY <2>3, <4>1
      <4> QED BY <3>2, <4>1, <4>2, <4>3, UnionOfTable
    <3> QED BY <3>1, <3>2
  <2>7. ~blind => QuietSaved'
    BY <2>2, <2>6 DEF QuietSaved
  <2> QED BY <1>1, <2>1, <2>2, <2>5, <2>7 DEF QuietInv, StoreTypeOK
<1>7. ASSUME NEW r \in Requests, Swallow(r) PROVE QuietInv'
  <2>1. \A s \in Requests : loc'[s] = IF s = r THEN Unsaved ELSE loc[s]
    BY <1>2, <1>7 DEF Swallow
  <2>2. UNCHANGED <<memory, rows, quiet, blind>>
    BY <1>7 DEF Swallow
  <2>3. Persisting' = Persisting \ {r}
    BY <2>1 DEF Persisting
  <2>4. ~blind => QuietAlone'
    BY <1>1, <1>7, <2>1, <2>2, <2>3 DEF QuietInv, QuietAlone, Swallow, Persisting
  <2>5. ~blind => QuietSaved'
    BY <1>1, <2>1, <2>2 DEF QuietInv, QuietSaved, StoreTypeOK
  <2> QED BY <1>1, <2>1, <2>2, <2>4, <2>5 DEF QuietInv, StoreTypeOK
<1>8. CASE Start
  <2>1. \A r \in Requests : loc'[r] = IF r \in Persisting THEN Lost ELSE loc[r]
    BY <1>8 DEF Start
  <2>2. Persisting' = {}
    BY <2>1 DEF Persisting
  <2>3. quiet' = quiet /\ rows' = rows
    BY <1>8 DEF Start
  <2>4. ~blind' => ~blind /\ memory' = UNION rows
    BY <1>8 DEF Start
  <2>5. ~blind' => QuietSaved'
    BY <1>1, <2>1, <2>3, <2>4 DEF QuietInv, QuietSaved, StoreTypeOK, Persisting
  <2>6. \A r \in quiet' : loc'[r] # Ahead
    BY <1>1, <2>1, <2>3 DEF QuietInv, StoreTypeOK
  <2> QED BY <1>1, <2>2, <2>5, <2>6 DEF QuietInv, QuietAlone
<1>9. CASE UNCHANGED storeVars
  BY <1>9 DEF storeVars, QuietInv, StoreTypeOK, QuietAlone, QuietSaved, Persisting
<1> QED BY <1>3, <1>4, <1>5, <1>6, <1>7, <1>8, <1>9 DEF StoreNext

\* What a request did that was answered after a persistence of its own stays in the row,
\* as long as every start reads the row.
THEOREM QuietRequestsStay == StoreSpec => []QuietlySavedStays
<1>1. QuietInv => QuietlySavedStays
  BY DEF QuietInv, QuietSaved, QuietlySavedStays
<1> QED BY <1>1, InitQuiet, NextQuiet, PTL DEF StoreSpec

-----------------------------------------------------------------------------
\* The protocol implements DurableCopy.

\* Handlers change the memory, commits write, starts begin anew; nothing else is visible.
THEOREM StoreImplementsDurableCopy == StoreSpec => KeepsACopy
<1>1. StoreInit => Copy!Init
  BY UnionOfTable DEF StoreInit, Copy!Init
<1>2. StoreInv /\ [StoreNext]_storeVars => [Copy!Next]_(Copy!vars)
  <2> SUFFICES ASSUME StoreInv, [StoreNext]_storeVars PROVE Copy!Next \/ UNCHANGED <<memory, UNION rows, past>>
    BY DEF Copy!vars
  <2>1. ASSUME NEW r \in Requests, Handle(r) PROVE Copy!Change
    <3>1. memory' \in SUBSET Requests
      BY <2>1 DEF Handle, StoreInv, StoreTypeOK, Payloads
    <3> QED BY <2>1, <3>1 DEF Handle, Copy!Change
  <2>2. ASSUME NEW r \in Requests, Read(r) \/ Export(r) \/ Swallow(r)
        PROVE  UNCHANGED <<memory, UNION rows, past>>
    BY <2>2 DEF Read, Export, Swallow
  <2>3. ASSUME NEW r \in Requests, Commit(r) PROVE Copy!Write
    <3>1. UNION rows \in past /\ loc[r].payload \in past
      BY <2>3 DEF Commit, StoreInv, InPast
    <3>2. UNION rows' \in past
      BY <2>3, <3>1, UnionOfTable DEF Commit
    <3> QED BY <2>3, <3>2 DEF Commit, Copy!Write
  <2>4. ASSUME Start PROVE Copy!Begin
    BY <2>4 DEF Start, Copy!Begin
  <2>5. CASE UNCHANGED storeVars
    BY <2>5 DEF storeVars
  <2> QED BY <2>1, <2>2, <2>3, <2>4, <2>5 DEF StoreNext, Copy!Next
<1>3. StoreSpec => []StoreInv
  BY InitInv, NextInv, PTL DEF StoreSpec
<1> QED BY <1>1, <1>2, <1>3, PTL DEF StoreSpec, KeepsACopy, Copy!Spec

=============================================================================
