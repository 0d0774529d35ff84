-------------------------- MODULE ComplaintParsing --------------------------
(***************************************************************************)
(* One complaint on its way through parse_document (complaint_parsing.py): *)
(* language, translation by one provider after the other or by all at once *)
(* with the best score winning, refinement, extraction by rules and by a   *)
(* language model, and the record with its FIR draft.  Unit <<i, k>> of a   *)
(* text is the k-th piece of its i-th paragraph, document.paragraphs[i][k]: *)
(* what kind it is, which phrases it says, whether it is in the letterhead. *)
(***************************************************************************)
EXTENDS ComplaintFields

CONSTANTS
  Documents,    \* [counts, paragraphs]
  Configs,      \* environments the service runs in
  MaxChunk,     \* units of a request to a language model; Google takes twice as many
  Scores,       \* scores of the judge
  Readings,     \* what the rules may find in a text that says everything
  Replies,      \* what the language model may answer
  Suggestions,  \* sections the rules may suggest
  Speakers      \* names a text may introduce by "I"

ASSUME ChunksHold == MaxChunk \in Nat \ {0}

Providers == {"google", "openai", "gemini"}
Scripts   == {"hi", "ur", "te", "ml"}
Phrases   == {"subject", "whatLabel", "event", "whenLabel", "date", "time", "header",
              "whyLabel", "reason", "howLabel", "method", "unknowns"}

\* A word in a script the splitting knows, one in another script, punctuation that is
\* stripped at the edges of a sentence, a full stop or line break, ! or ?, what is always
\* taken for noise, and a Latin letter or two, noise in a text of another script.
Kinds == {"word", "foreign", "mark", "stop", "call", "noise", "fragment"}
AnswerKeys(f) ==
  {"confidence", "evidence"} \cup (IF f = "who" THEN ToSet(Roles) ELSE {"value"})
                             \cup (IF f = "when" THEN {"date", "time"} ELSE {})

\* Names that are not known become the defaults; scores are numbers.
ASSUME ConfigsAreSettings ==
  /\ \A c \in Configs :
       /\ c.provider \in Providers \cup {"auto", "none"} /\ c.fallback \in Providers \cup {"none"}
       /\ c.qe \in BOOLEAN /\ c.threshold \in Int
  /\ Scores \subseteq Int /\ None \notin Int \cup Providers

\* What a text says are phrases with words; a paragraph that is empty is none.
ASSUME DocumentsAreTexts == \A d \in Documents :
  d.paragraphs \in Seq(Seq([kind : Kinds, says : SUBSET DOMAIN Lexicon, header : BOOLEAN]) \ {<<>>})

\* The surest place a sentence can name has 104 hundredths (_extract_where).
ASSUME ReadingsAreRead == \A h \in Readings :
  /\ DOMAIN h = Phrases \cup {"names", "places", "firstPerson", "strong", "signed", "inBus"}
  /\ \A x \in h.places : x.score \in Int /\ x.score <= 104
  /\ h.unknowns \subseteq DOMAIN Standard

\* What is no answer, or lacks a key, is read as one that leaves it empty.
ASSUME AnswersAreRead == \A reply \in Replies, f \in Fields :
  LET answer == reply.answers[f] IN
  answer # None => answer = [k \in AnswerKeys(f) |-> answer[k]]

VARIABLES
  document, config,
  phase,        \* "start", "translate", "refine", "extract", "ask", "write", "done"
  job,          \* the call of each provider
  collected,    \* ensemble: providers whose result has been taken
  best,         \* ensemble: the provider that leads
  turn,         \* sequence: the provider that is tried
  translation, refinement,
  found,        \* the fields as the rules have them
  fields,       \* as they are after the model's answers
  asked,        \* the questions the model wants to be asked, and its summary
  record

call == <<job, collected, best, turn>>
complaint == <<found, fields, asked, record>>
parseVars == <<document, config, phase, call, translation, refinement, complaint>>

-----------------------------------------------------------------------------
(* Texts. *)

\* A text is a sequence of parts (paragraphs, later also sentences and pieces), a part
\* a sequence of units.
Text  == [i \in DOMAIN document.paragraphs |->
            [k \in DOMAIN document.paragraphs[i] |-> <<i, k>>]]
Units(text) == FlattenSeq(text)

At(u)       == document.paragraphs[u[1]][u[2]]
Kind(u)     == At(u).kind
Said(units) == UNION {At(u).says : u \in units}
StatedIn(text) == Said(ToSet(Units(text)))

\* A sentence ends after Ends; Edges are stripped at both its ends.
Ends  == {"stop", "call"}
Edges == {"mark", "stop"}

\* What is left of the sentence of unit k, if there is anything between the edges.
SentenceOf(part, k) ==
  {j \in DOMAIN part :
     \A e \in DOMAIN part : (j <= e /\ e < k) \/ (k <= e /\ e < j) => Kind(part[e]) \notin Ends}
CoreOf(part, k) == {j \in SentenceOf(part, k) : Kind(part[j]) \notin Edges}

Opens(part, k, readable) ==
  /\ k \in CoreOf(part, k) /\ \A j \in CoreOf(part, k) : k <= j
  /\ \E j \in CoreOf(part, k) : Kind(part[j]) \in readable

\* The sentences of a part; one without a readable letter or digit is dropped.
Sentences(part, readable) ==
  FlattenSeq([k \in DOMAIN part |->
    IF Opens(part, k, readable) THEN <<SubSeq(part, k, Max(CoreOf(part, k)))>> ELSE <<>>])

\* A paragraph that is too long is taken apart, if that leaves anything of it.
Split(part, max, readable) ==
  IF part = <<>> THEN <<>>
  ELSE IF Len(part) <= max \/ Sentences(part, readable) = <<>> THEN <<part>>
  ELSE Sentences(part, readable)

Parts(text, max, readable) == FlattenSeq([i \in DOMAIN text |-> Split(text[i], max, readable)])

Pieces(part, max) ==
  [n \in 1..((Len(part) + max - 1) \div max) |->
     SubSeq(part, (n - 1) * max + 1, IF n * max < Len(part) THEN n * max ELSE Len(part))]

\* One more part: parts are collected up to the limit.  The pieces of a part that
\* is too long for one chunk go ahead of what is being collected.
Added(all, part, max) ==
  IF Len(part) > max
  THEN [chunks |-> all.chunks \o [n \in DOMAIN Pieces(part, max) |-> <<Pieces(part, max)[n]>>],
        current |-> all.current]
  ELSE IF Len(Units(all.current)) + Len(part) <= max
  THEN [chunks |-> all.chunks, current |-> Append(all.current, part)]
  ELSE [chunks |-> Append(all.chunks, all.current), current |-> <<part>>]

Collected(parts, max) ==
  LET all[n \in 0..Len(parts)] ==
        IF n = 0 THEN [chunks |-> <<>>, current |-> <<>>] ELSE Added(all[n - 1], parts[n], max)
  IN  all[Len(parts)]

\* Mutant: what is still being collected after a full chunk is left out.
ChunkTextUnflushed(text, max, readable) ==
  LET all == Collected(Parts(text, max, readable), max)
  IN  IF all.chunks = <<>> THEN <<all.current>> ELSE all.chunks

\* The requests a text is cut into.
ChunkText(text, max, readable) ==
  LET all == Collected(Parts(text, max, readable), max)
  IN  IF all.current = <<>> THEN all.chunks ELSE Append(all.chunks, all.current)

\* From the number of letters of each script.
DetectLanguage(counts) ==
  LET total    == FoldFunction(LAMBDA x, y : x + y, 0, counts)
      most(S)  == CHOOSE l \in S : \A k \in S : counts[k] <= counts[l]
      dominant == most(DOMAIN counts)
      other    == most(Scripts)
  IN  IF total = 0 THEN "unknown"
      ELSE IF dominant # "en"
      THEN IF counts[dominant] >= 6 \/ 100 * counts[dominant] >= 45 * total
           THEN dominant ELSE "unknown"
      ELSE IF /\ counts[other] >= 6 /\ 100 * counts[other] >= 35 * total
              /\ 2 * counts["en"] < 3 * counts[other]
      THEN other
      ELSE IF counts["en"] >= 2 * counts[other] THEN "en" ELSE "unknown"

Language == DetectLanguage(document.counts)

\* A text without what is taken for noise of the character recognition.
Noise(u) == Kind(u) = "noise" \/ (Kind(u) = "fragment" /\ Language \in Scripts)
Cleaned(text) ==
  [i \in DOMAIN text |->
     FlattenSeq([k \in DOMAIN text[i] |-> IF Noise(text[i][k]) THEN <<>> ELSE <<text[i][k]>>])]

-----------------------------------------------------------------------------
(* Translation. *)

Sequence ==
  LET first == IF config.provider # "auto" THEN config.provider
               ELSE IF config.project THEN "google" ELSE "openai"
  IN  IF config.provider = "none" THEN <<>>
      ELSE IF config.fallback \in {"none", first} THEN <<first>>
      ELSE <<first, config.fallback>>

Ensemble == config.qe /\ Len(Sequence) > 1

\* Before a provider answered: the text as it was read, for which no translation was needed.
Untranslated(status) ==
  [status |-> status, provider |-> None, text |-> Text, lang |-> Language, flagged |-> FALSE]

IdleJob == [status |-> "idle", done |-> 0, text |-> <<>>, score |-> None]

ParseInit ==
  /\ document \in Documents /\ config \in Configs
  /\ phase = "start"
  /\ job = [p \in Providers |-> IdleJob]
  /\ collected = {} /\ best = None /\ turn = 1
  /\ translation = None
  /\ refinement = [status |-> "none", done |-> 0, text |-> <<>>]
  /\ found = None /\ fields = None /\ record = None
  /\ asked = [questions |-> <<>>, summary |-> {}]

BeginTranslation ==
  LET result == IF Text = <<>> \/ Language = "en" THEN "not_needed"
                ELSE IF ~config.enabled THEN "disabled"
                ELSE IF Sequence = <<>> THEN "unavailable" ELSE "go"
      started == IF Ensemble THEN ToSet(Sequence) ELSE {Sequence[1]}
  IN
  /\ phase = "start"
  /\ IF result # "go"
     THEN /\ translation' = Untranslated(result) /\ phase' = "refine" /\ UNCHANGED job
     ELSE /\ phase' = "translate" /\ UNCHANGED translation
          /\ job' = [p \in Providers |->
                       IF p \in started THEN [IdleJob EXCEPT !.status = "running"] ELSE IdleJob]
  /\ UNCHANGED <<document, config, collected, best, turn, refinement, complaint>>

\* Letters and digits by which a sentence is known as one.
Latin  == {"word", "fragment"}

\* Only for the providers is the text cleaned.
Chunks(p) ==
  ChunkText(Cleaned(Text), IF p = "google" THEN 2 * MaxChunk ELSE MaxChunk, Latin)

\* One request of a provider, to which it gives one of some answers or fails; there is
\* none to make for a text that is all noise.
TranslateChunk(p, answers) ==
  LET j    == job[p]
      last == j.done + 1 = Len(Chunks(p))
  IN
  /\ phase = "translate" /\ j.status = "running"
  /\ IF p \notin config.usable THEN job' = [job EXCEPT ![p].status = "unavailable"]
     ELSE \/ /\ Chunks(p) # <<>>
             /\ \E answer \in answers :
                  LET text == j.text \o answer
                  IN  job' = [job EXCEPT ![p] =
                                [status |-> IF ~last THEN "running"
                                            ELSE IF text = <<>> THEN "failed" ELSE "translated",
                                 done |-> j.done + 1, text |-> text, score |-> j.score]]
          \/ job' = [job EXCEPT ![p].status = "failed"]
  /\ UNCHANGED <<document, config, phase, collected, best, turn, translation, refinement, complaint>>

NextChunk(p) == Chunks(p)[job[p].done + 1]

\* Of Google an empty answer is skipped, a language model that returns one has failed.
TranslateViaGoogle == TranslateChunk("google", {NextChunk("google"), <<>>})
TranslateViaOpenAI == TranslateChunk("openai", {NextChunk("openai")})
TranslateViaGemini == TranslateChunk("gemini", {NextChunk("gemini")})

\* Quality estimation gives the full score when it cannot be asked or understood.
EstimateQuality(p) ==
  /\ phase = "translate" /\ config.qe
  /\ job[p].status = "translated" /\ job[p].score = None
  /\ \E score \in (IF "gemini" \in config.usable THEN Scores ELSE {}) \cup {100} :
       job' = [job EXCEPT ![p].score = score]
  /\ UNCHANGED <<document, config, phase, collected, best, turn, translation, refinement, complaint>>

CallEnded(p) ==
  \/ job[p].status \in {"failed", "unavailable"}
  \/ job[p].status = "translated" /\ (config.qe => job[p].score # None)

\* Mutant: whoever comes last wins.
CollectLast(p) ==
  /\ phase = "translate" /\ Ensemble
  /\ p \in ToSet(Sequence) \ collected /\ CallEnded(p)
  /\ collected' = collected \cup {p}
  /\ best' = IF job[p].status = "translated" THEN p ELSE best
  /\ UNCHANGED <<document, config, phase, job, turn, translation, refinement, complaint>>

\* The results come in the order the threads end.
Collect(p) ==
  /\ phase = "translate" /\ Ensemble
  /\ p \in ToSet(Sequence) \ collected /\ CallEnded(p)
  /\ collected' = collected \cup {p}
  /\ best' = IF /\ job[p].status = "translated"
                /\ best = None \/ job[p].score > job[best].score
             THEN p ELSE best
  /\ UNCHANGED <<document, config, phase, job, turn, translation, refinement, complaint>>

\* Google names the language if it was not told.
Translated(p) ==
  {[status |-> "translated", provider |-> p, text |-> job[p].text, lang |-> lang,
    flagged |-> job[p].score # None /\ job[p].score < config.threshold] :
     lang \in IF p = "google" /\ Language = "unknown" THEN {"unknown", "te"} ELSE {Language}}

EndEnsemble ==
  /\ phase = "translate" /\ Ensemble /\ collected = ToSet(Sequence)
  /\ translation' \in IF best # None THEN Translated(best) ELSE {Untranslated("not_needed")}
  /\ phase' = "refine"
  /\ UNCHANGED <<document, config, call, refinement, complaint>>

\* One after the other until one succeeds.
TryNext ==
  LET p == Sequence[turn] IN
  /\ phase = "translate" /\ ~Ensemble /\ CallEnded(p)
  /\ IF job[p].status = "translated"
     THEN translation' \in Translated(p) /\ phase' = "refine" /\ UNCHANGED <<job, turn>>
     ELSE IF turn < Len(Sequence)
     THEN /\ turn' = turn + 1
          /\ job' = [job EXCEPT ![Sequence[turn + 1]].status = "running"]
          /\ UNCHANGED <<phase, translation>>
     ELSE /\ translation' = Untranslated("not_needed") /\ phase' = "refine"
          /\ UNCHANGED <<job, turn>>
  /\ UNCHANGED <<document, config, collected, best, refinement, complaint>>

-----------------------------------------------------------------------------
(* Refinement. *)

English == IF translation.status \in {"translated", "not_needed"} THEN translation.text ELSE <<>>

\* What was in another script is not after translation.
EnglishChunks ==
  ChunkText(English, MaxChunk,
            IF translation.status = "translated" THEN Latin \cup {"foreign"} ELSE Latin)

Refining == English # <<>> /\ config.refiner \in config.usable

SkipRefinement ==
  /\ phase = "refine" /\ ~Refining
  /\ refinement' = [refinement EXCEPT !.status =
       IF English = <<>> THEN "unavailable"
       ELSE IF config.refiner = "none" THEN "disabled" ELSE "unavailable"]
  /\ phase' = "extract"
  /\ UNCHANGED <<document, config, call, translation, complaint>>

\* The rewritten chunk may leave something out, but is not empty: what the model does not
\* rewrite, or the code takes out before and after as administrative or unclear.
RefineChunk(provider) ==
  LET chunk == EnglishChunks[refinement.done + 1]
      last  == refinement.done + 1 = Len(EnglishChunks)
  IN
  /\ phase = "refine" /\ Refining /\ config.refiner = provider
  /\ \/ \E kept \in {chunk, Front(chunk)} \ {<<>>} :
          /\ refinement' = [status |-> IF last THEN "refined" ELSE "none",
                            done |-> refinement.done + 1, text |-> refinement.text \o kept]
          /\ phase' = IF last THEN "extract" ELSE "refine"
     \/ refinement' = [refinement EXCEPT !.status = "failed"] /\ phase' = "extract"
  /\ UNCHANGED <<document, config, call, translation, complaint>>

RefineViaOpenAI == RefineChunk("openai")
RefineViaGemini == RefineChunk("gemini")

-----------------------------------------------------------------------------
(* Extraction and the record. *)

Analysed == IF refinement.status = "refined" THEN refinement.text ELSE translation.text

\* The text without letterhead and signature, unless nothing else is there.
Body(text) ==
  LET body == {u \in ToSet(Units(text)) : ~At(u).header}
  IN  IF body # {} THEN body ELSE ToSet(Units(text))

\* Answers are checked against the body of the analysed text, and the original of a
\* translation.
Source ==
  Said(Body(Analysed)) \cup (IF translation.status = "translated" THEN StatedIn(Text) ELSE {})

\* What the rules come across in the analysed text.
Seen(reading) ==
  LET text == StatedIn(Analysed)
  IN  [k \in DOMAIN reading |->
         CASE k = "names"  -> [r \in ToSet(Roles) |-> reading[k][r] \cap text]
           [] k = "places" -> {x \in reading[k] : x.at \in text}
           [] k \in {"firstPerson", "strong", "signed", "inBus"} -> reading[k]
           [] OTHER -> reading[k] \cap text]

Flags(likely) ==
  {flag \in {"language_detection_uncertain", "translation_to_english_unavailable",
             "low_police_complaint_signal", "translation_quality_low"} :
     CASE flag = "language_detection_uncertain" -> translation.lang = "unknown"
       [] flag = "translation_to_english_unavailable" ->
            /\ translation.status \in {"failed", "unavailable", "disabled"}
            /\ translation.lang # "en"
       [] flag = "low_police_complaint_signal" -> ~likely
       [] flag = "translation_quality_low" -> translation.flagged}

\* The rules read the analysed text.
Extract ==
  /\ phase = "extract" /\ phase' = "ask"
  /\ \E reading \in Readings : found' = HeuristicFields(Seen(reading))
  /\ fields' = found'
  /\ UNCHANGED <<document, config, call, translation, refinement, asked, record>>

\* The model is asked, if it is to be; it may fail to answer.
AskModel ==
  /\ phase = "ask" /\ phase' = "write"
  /\ \E reply \in (IF config.llm THEN Replies ELSE {}) \cup {None} :
       IF reply = None THEN UNCHANGED <<fields, asked>>
       ELSE /\ fields' = MergeFields(found, ValidateAnswers(reply.answers, Source, config))
            /\ asked' = [questions |-> reply.questions, summary |-> reply.summary]
  /\ UNCHANGED <<document, config, call, translation, refinement, found, record>>

Write ==
  /\ phase = "write" /\ phase' = "done"
  /\ \E likely \in BOOLEAN, sections \in Suggestions, speakers \in {{}, Speakers},
        unidentified \in {{}, UnknownActors} :
       LET gaps      == GapSummary(fields, Flags(likely))
           questions == ReviewQuestions(asked.questions, gaps, fields)
       IN  record' = [gaps |-> gaps, fir |-> FirDraft(fields, questions, sections,
                             speakers \cap StatedIn(Analysed), unidentified, asked.summary)]
  /\ UNCHANGED <<document, config, call, translation, refinement, found, fields, asked>>

\* Nothing else is a state in which parsing may stop.
Returned == phase = "done" /\ UNCHANGED parseVars

ParseNext ==
  \/ BeginTranslation \/ EndEnsemble \/ TryNext \/ SkipRefinement \/ RefineViaOpenAI \/ RefineViaGemini
  \/ TranslateViaGoogle \/ TranslateViaOpenAI \/ TranslateViaGemini
  \/ Extract \/ AskModel \/ Write \/ Returned
  \/ \E p \in Providers : EstimateQuality(p) \/ Collect(p)

ParseSpec == ParseInit /\ [][ParseNext]_parseVars

-----------------------------------------------------------------------------
(* Properties. *)

\* A translation by a language model has nothing twice and nothing but the cleaned text; no
\* word in a script the splitting knows is missing, and nothing of a paragraph that fits
\* into a request; if all do it has the cleaned text in its order.  So no failed or
\* forgotten request leaves a hole.  Missing may be: noise, and of a paragraph that is too
\* long the punctuation at the edges of its sentences and whole sentences in a script the
\* splitting does not know (_chunk_text_for_translation, _split_sentences,
\* _clean_ocr_noise, _translate_to_english_via_openai, _translate_to_english_via_gemini).
TranslationKeepsTheText ==
  (translation # None /\ translation.provider \in {"openai", "gemini"}) =>
     LET clean == Cleaned(Text)  was == Units(clean)  is == Units(translation.text) IN
     /\ Len(is) = Cardinality(ToSet(is)) /\ ToSet(is) \subseteq ToSet(was)
     /\ \A u \in ToSet(Units(Text)) : Kind(u) = "word" => u \in ToSet(is)
     /\ \A i \in DOMAIN clean : Len(clean[i]) <= MaxChunk => ToSet(clean[i]) \subseteq ToSet(is)
     /\ (\A i \in DOMAIN clean : Len(clean[i]) <= MaxChunk) => is = was

\* Whatever the order in which the providers end: if one of them translated the
\* text it is not passed on untranslated, and of several the one with the best
\* score is taken and flagged if even that is too low (_translate_to_english).
BestIsTaken ==
  LET done == {p \in Providers : job[p].status = "translated"} IN
  (phase \notin {"start", "translate"} /\ done # {}) =>
     /\ translation.provider \in done
     /\ Ensemble => \A p \in done : job[p].score <= job[translation.provider].score
     /\ translation.flagged <=>
          config.qe /\ job[translation.provider].score < config.threshold

\* A text that is not English passes for one that needs no translation only after
\* every provider of the sequence was tried and failed: none is forgotten in turn, no
\* result is left in a thread (_translate_to_english).
UntranslatedWasTried ==
  (translation # None /\ translation.status = "not_needed" /\ Text # <<>> /\ Language # "en") =>
    /\ Sequence # <<>>
    /\ \A p \in ToSet(Sequence) : job[p].status \in {"failed", "unavailable"}

\* The outcome of a translation is the best that was to be had.
BestTranslationWins == BestIsTaken /\ UntranslatedWasTried

\* A name of somebody is in the text, or half of its words are; or it says that he is
\* unknown, and the text mentions somebody unknown or of that role.
Attested(v, stated) ==
  \/ v \in stated \/ BackedRole(v, stated)
  \/ \E m \in DOMAIN Standard \cap stated : Standard[m] = v

\* Whatever the language model answers, what gets into a field, and from there into the
\* entries of the FIR draft, goes back to the analysed text or the original: a party is
\* attested, any other value is there verbatim, with its dates and times, in enough of its
\* words, or is a motive of a kind for which something there speaks (or the one stock
\* phrase of the rules); evidence is quoted verbatim or names the rule.  The brief is not
\* covered: the summary of the model gets into the draft unchecked
\* (_validate_question_guided_answers, _value_supported_by_source,
\* _role_value_supported_by_source, _merge_question_guided_fields, _build_fir_draft).
NothingUnsupported ==
  record # None =>
    LET stated == StatedIn(Analysed) \cup StatedIn(Text)
        backed(values, f) == \A v \in values : Backed(v, f, stated)
        named(values)     == \A v \in values : Attested(v, stated)
    IN
    /\ named(fields["who"].value) /\ backed(fields["how"].value \ {BusJourney}, "how")
    /\ \A f \in {"what", "when", "where", "why"} : backed(fields[f].value, f)
    /\ \A f \in Fields : fields[f].evidence \subseteq stated \cup StockEvidence
    /\ \A entry \in {"informant", "victim", "witnesses"} : named(record.fir[entry])
    /\ named(record.fir.accused \ UnknownActors)
    /\ backed(record.fir.date \cup record.fir.time, "when") /\ backed(record.fir.place, "where")

\* What the rules found is not lost to the model's answers: a role keeps a name
\* and a field that was not missing is not missing afterwards
\* (_merge_question_guided_fields).
NothingIsLost ==
  record # None =>
    /\ \A r \in ToSet(Roles) : found["who"].parts[r].values # {} =>
                                 fields["who"].parts[r].values # {}
    /\ \A f \in Fields : found[f].status # "missing" => fields[f].status # "missing"

=============================================================================
