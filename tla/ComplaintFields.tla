--------------------------- MODULE ComplaintFields ---------------------------
(***************************************************************************)
(* What a parsed complaint says (complaint_parsing.py): the six fields who, *)
(* what, when, where, why, how - read by rules, then by a language model    *)
(* whose answers are checked against the text - the gaps, the questions for *)
(* the reviewer and the parties of the FIR draft.  A text is the set of     *)
(* phrases it has verbatim; a phrase has words.  Scores are in hundredths.  *)
(***************************************************************************)
EXTENDS Integers, Sequences, FiniteSets, SequencesExt, TLC

CONSTANTS
  None,
  Undeclared,      \* answers that say the thing is unknown
  Lexicon,         \* phrase -> [words, dates, role]: the words that count, the dates
                   \* and times in it, the words after "unknown"
  UnknownActors,   \* names like "unknown person"
  UnknownPatterns, \* those of which one in the text is enough
  Standard,        \* mention of somebody unknown -> the name the rules give him
  Motives          \* [values, grounds]: motives of one kind, and what speaks for it

ASSUME LexiconIsFinite == \A v \in DOMAIN Lexicon :
  IsFiniteSet(Lexicon[v].words) /\ IsFiniteSet(Lexicon[v].role)

Roles      == <<"who.complainant", "who.victim", "who.accused", "who.witnesses">>
Temporal   == <<"when.date", "when.time">>
Plain      == {"what", "where", "why", "how"}
FieldOrder == <<"who", "what", "when", "where", "why", "how">>
Fields     == ToSet(FieldOrder)

\* One of a set of at most one.
The(s) == CHOOSE x \in s : TRUE

-----------------------------------------------------------------------------
(* Fields: [status, value, score, parts, evidence]; the value is {} or holds *)
(* one phrase, for "who" the names, for "when" date and time.              *)

MakeField(status, value, score, parts, evidence) ==
  [status |-> status, value |-> value, score |-> score, parts |-> parts, evidence |-> evidence]

Component(values, inferred) ==
  IF values = {} THEN [status |-> "missing", values |-> {}, score |-> 0, inferred |-> inferred]
  ELSE IF inferred \/ values \subseteq UnknownActors
       THEN [status |-> "uncertain", values |-> values,
             score |-> IF inferred THEN 55 ELSE 60, inferred |-> inferred]
       ELSE [status |-> "present", values |-> values, score |-> 86, inferred |-> inferred]

\* The field of the roles, {} if nobody is named.
WhoField(parts, evidence) ==
  LET with(status) == {r \in DOMAIN parts : parts[r].status = status}
      score == 70 + 10 * Cardinality(with("present"))
      value == UNION {parts[r].values : r \in DOMAIN parts}
  IN  IF with("present") # {}
      THEN {MakeField("present", value, IF score < 95 THEN score ELSE 95, parts, evidence)}
      ELSE IF with("uncertain") # {}
      THEN {MakeField("uncertain", value, 58, parts, evidence)} ELSE {}

Instants(date, time) ==
  [part \in ToSet(Temporal) |->
     LET v == IF part = "when.date" THEN date ELSE time
     IN  [status |-> IF v = {} THEN "missing" ELSE "present", values |-> v]]

(* What the rules make of what they come across in the text.  The evidence *)
(* of a rule is the phrase it took.                                        *)

Found(status, value, score) == MakeField(status, value, score, <<>>, value)
NotFound == Found("missing", {}, 0)

\* The first of some alternatives <<phrases, status, score>> that has a phrase.
FirstFound(alternatives) ==
  LET k == SelectInSeq(alternatives, LAMBDA x : x[1] # {})
  IN  IF k = 0 THEN NotFound
      ELSE Found(alternatives[k][2], {The(alternatives[k][1])}, alternatives[k][3])

\* What the rules quote without its being in the text, and a value they make up.
StockEvidence == {"Subject", "Date header", "above address reference", "Signature block",
                  "Victim inferred from first-person complaint narration."}
BusJourney == "during a crowded city bus journey"

\* Somebody unknown gets a standard name.  In a complaint told in the first person the
\* victim is the complainant.
RoleNames(h, r) ==
  IF r = "who.accused" THEN h.names[r] \cup {Standard[m] : m \in h.unknowns}
  ELSE IF r = "who.victim" /\ h.names[r] = {} /\ h.firstPerson
  THEN h.names["who.complainant"] ELSE h.names[r]

HeuristicWho(h) ==
  LET inferred(r) == r = "who.victim" /\ h.names[r] # RoleNames(h, r)
      parts == [r \in ToSet(Roles) |-> Component(RoleNames(h, r), inferred(r))]
      evidence == (UNION {h.names[r] : r \in ToSet(Roles)}) \cup h.unknowns
                  \cup {e \in StockEvidence :
                          \/ e = "Signature block" /\ h.signed
                          \/ /\ e = "Victim inferred from first-person complaint narration."
                             /\ inferred("who.victim")}
      field == WhoField(parts, evidence)
  IN  IF field # {} THEN The(field) ELSE MakeField("missing", {}, 0, parts, {})

HeuristicWhat(h) ==
  IF h.subject # {}
  THEN MakeField("present", {The(h.subject)}, 92, <<>>, {"Subject"})
  ELSE FirstFound(<< <<h.whatLabel, "present", 86>>,
                     <<h.event, IF h.strong THEN "present" ELSE "uncertain",
                                IF h.strong THEN 84 ELSE 58>> >>)

\* The date of the header stands in for one the text does not tell.  A date that is
\* only labelled is the value of a field that counts as missing.
HeuristicWhen(h) ==
  LET date   == IF h.date # {} THEN h.date ELSE h.header
      both   == date # {} /\ h.time # {}
      either == date \cup h.time # {}
  IN  MakeField(IF both THEN "present" ELSE IF either THEN "uncertain" ELSE "missing",
                IF h.whenLabel # {} THEN h.whenLabel ELSE date \cup h.time,
                IF both THEN 90 ELSE IF either THEN 62 ELSE 0,
                Instants(date, h.time),
                h.whenLabel \cup h.date \cup h.time
                  \cup (IF date # h.date THEN {"Date header"} ELSE {}))

\* Places are [at, score, above]; the surest is present however unsure it is.
HeuristicWhere(h) ==
  LET best == CHOOSE x \in h.places : \A y \in h.places : y.score <= x.score
  IN  IF h.places = {} THEN NotFound
      ELSE MakeField("present", {best.at}, best.score, <<>>,
                     IF best.above THEN {"above address reference"} ELSE {best.at})

HeuristicWhy(h) == FirstFound(<< <<h.whyLabel \cup h.reason, "present", 82>> >>)

HeuristicHow(h) ==
  IF h.howLabel = {} /\ h.subject # {} /\ h.inBus
  THEN MakeField("present", {BusJourney}, 80, <<>>, {The(h.subject)})
  ELSE FirstFound(<< <<h.howLabel, "present", 82>>, <<h.method, "present", 80>>,
                     <<h.event, IF h.strong THEN "present" ELSE "uncertain",
                                IF h.strong THEN 72 ELSE 56>> >>)

HeuristicFields(h) ==
  [f \in Fields |->
     CASE f = "who"   -> HeuristicWho(h)   [] f = "what" -> HeuristicWhat(h)
       [] f = "when"  -> HeuristicWhen(h)  [] f = "where" -> HeuristicWhere(h)
       [] f = "why"   -> HeuristicWhy(h)   [] f = "how" -> HeuristicHow(h)]

-----------------------------------------------------------------------------
(* Checking the answers of the model.  An answer to a plain question is     *)
(* [value, confidence, evidence], to "when" also [date, time], to "who" a   *)
(* set of names for each role with confidence and evidence.                 *)

LabelScore(label) ==
  CASE label = "high" -> 88 [] label = "medium" -> 68 [] OTHER -> 45

Lexical(v) ==
  IF v \in DOMAIN Lexicon THEN Lexicon[v] ELSE [words |-> {}, dates |-> {}, role |-> {}]

\* The source has so many hundredths of some words.
Overlaps(words, source, threshold) ==
  LET said == UNION {Lexical(x).words : x \in source}
  IN  /\ words # {}
      /\ 100 * Cardinality(words \cap said) >= threshold * Cardinality(words)

Threshold(f) ==
  CASE f = "what" -> 45 [] f = "why" -> 30 [] f = "how" -> 35 [] OTHER -> 50

\* The source has the value, its dates and times, or enough of its words; or the value is
\* a motive of a kind for which something in the source speaks.
Backed(v, f, source) ==
  \/ v \in source
  \/ f = "when" /\ Lexical(v).dates # {} /\ Lexical(v).dates \subseteq source
  \/ /\ f # "when" \/ Lexical(v).dates = {}
     /\ Overlaps(Lexical(v).words, source, Threshold(f))
  \/ f = "why" /\ \E m \in Motives : v \in m.values /\ m.grounds \cap source # {}

\* Of an unknown actor anybody unknown in the source is enough.
BackedRole(v, source) ==
  IF v \in UnknownActors
  THEN UnknownPatterns \cap source # {} \/ Overlaps(Lexical(v).role, source, 50)
  ELSE Backed(v, "who", source)

\* Mutant: a value is taken as the model gives it.
SupportedAsGiven(values, f, source) == values

Supported(values, f, source) ==
  {v \in values : IF f = "who" THEN BackedRole(v, source) ELSE Backed(v, f, source)}

Attempted(answer, f) ==
  answer # None /\ (\/ answer.evidence # {}
                    \/ f = "who" /\ \E r \in ToSet(Roles) : answer[r] # {}
                    \/ f # "who" /\ answer.value # {}
                    \/ f = "when" /\ answer.date \cup answer.time # {})

\* The checks all answers share; the evidence that is found in the source.
Evidenced(answer, source, config) ==
  LET found == answer.evidence \cap source
  IN  [answer |-> [answer EXCEPT !.evidence = found],
       reason |-> IF LabelScore(answer.confidence) < config.minScore
                  THEN "confidence_below_threshold"
                  ELSE IF config.requireEvidence /\ found = {} THEN "evidence_not_found_in_source"
                  ELSE None]

\* What is left of an answer: [answer, reason], the answer {} if rejected.
ValidateField(answer, f, source, config) ==
  LET checked == Evidenced(answer, source, config)
      value   == answer.value \ Undeclared
      stated  == Supported(value, f, source)
      date    == Supported(answer.date, f, source)
      time    == Supported(answer.time, f, source)
      kept    == IF stated # {} THEN stated ELSE date \cup time
      reject(reason) == [answer |-> {}, reason |-> reason]
  IN  IF checked.reason # None THEN reject(checked.reason)
      ELSE IF f = "when"
      THEN IF kept = {} THEN reject("answer_not_supported_by_source")
           ELSE [reason |-> None, answer |->
                   {[checked.answer EXCEPT !.value = kept, !.date = date, !.time = time]}]
      ELSE IF value = {} THEN reject("unknown_or_empty")
      ELSE IF stated = {} THEN reject("answer_not_supported_by_source")
      ELSE [answer |-> {[checked.answer EXCEPT !.value = stated]}, reason |-> None]

ValidateWho(answer, source, config) ==
  LET checked  == Evidenced(answer, source, config)
      accepted == [k \in DOMAIN answer |->
                     IF k \in ToSet(Roles) THEN Supported(answer[k], "who", source)
                     ELSE checked.answer[k]]
  IN  IF checked.reason # None THEN [answer |-> {}, reason |-> checked.reason]
      ELSE IF \A r \in ToSet(Roles) : accepted[r] = {}
      THEN [answer |-> {}, reason |-> "answer_not_supported_by_source"]
      ELSE [answer |-> {accepted}, reason |-> None]

Validate(answers, f, source, config) ==
  IF ~Attempted(answers[f], f) THEN [answer |-> {}, reason |-> "not_attempted"]
  ELSE IF f = "who" THEN ValidateWho(answers[f], source, config)
  ELSE ValidateField(answers[f], f, source, config)

\* Per field the answer that stands, {} for none.
ValidateAnswers(answers, source, config) ==
  [f \in Fields |-> Validate(answers, f, source, config).answer]

-----------------------------------------------------------------------------
(* Merging them into the fields the rules found. *)

FieldFromAnswer(answer, fallback, f) ==
  LET score    == LabelScore(answer.confidence)
      evidence == IF answer.evidence # {} THEN answer.evidence ELSE fallback.evidence
      field(parts) == MakeField(IF score >= 72 THEN "present" ELSE "uncertain",
                                answer.value, score, parts, evidence)
  IN  IF f # "when" THEN field(<<>>)
      ELSE IF answer.date \cup answer.time = {} THEN fallback
      ELSE field(Instants(answer.date, answer.time))

\* Mutant: the roles the model is silent about are emptied.
WhoFromAnswerAlone(answer, fallback) ==
  LET parts == [r \in ToSet(Roles) |-> Component(answer[r], FALSE)]
      field == WhoField(parts, answer.evidence)
  IN  IF field = {} THEN fallback ELSE The(field)

\* A role the model is silent about keeps the names of the rules.
WhoFromAnswer(answer, fallback) ==
  LET part(r) ==
        LET old   == fallback.parts[r]
            c     == Component(IF answer[r] # {} THEN answer[r] ELSE old.values, old.inferred)
            score == IF LabelScore(answer.confidence) > c.score
                     THEN LabelScore(answer.confidence) ELSE c.score
        IN  IF c.status = "missing" THEN c
            ELSE [c EXCEPT !.score = score,
                           !.status = IF @ = "present" /\ score < 72 THEN "uncertain" ELSE @]
      field == WhoField([r \in ToSet(Roles) |-> part(r)],
                        IF answer.evidence # {} THEN answer.evidence ELSE fallback.evidence)
  IN  IF field = {} THEN fallback ELSE The(field)

MergeFields(rules, answers) ==
  [f \in Fields |->
     IF answers[f] = {} THEN rules[f]
     ELSE IF f = "who" THEN WhoFromAnswer(The(answers[f]), rules[f])
     ELSE FieldFromAnswer(The(answers[f]), rules[f], f)]

-----------------------------------------------------------------------------
(* Gaps and questions. *)

With(fields, status) == SelectSeq(FieldOrder, LAMBDA f : fields[f].status = status)

\* The details of the roles and of the time, unless their whole field is missing.
Details(fields, status) ==
  LET of(f, labels) ==
        IF fields[f].status = "missing" THEN <<>>
        ELSE SelectSeq(labels, LAMBDA d : fields[f].parts[d].status = status)
  IN  of("who", Roles) \o of("when", Temporal)

GapSummary(fields, flags) ==
  [missing          |-> With(fields, "missing"),
   uncertain        |-> With(fields, "uncertain"),
   missingDetails   |-> Details(fields, "missing"),
   uncertainDetails |-> Details(fields, "uncertain"),
   completeness     |-> 2 * Len(With(fields, "present")) + Len(With(fields, "uncertain")),
   flags            |-> flags,
   review           |-> With(fields, "present") # FieldOrder \/ flags # {}]

DedupeKeepOrder(s) ==
  LET new == {i \in DOMAIN s : \A j \in 1..(i - 1) : s[j] # s[i]}
      nth(n) == CHOOSE i \in new : Cardinality({j \in new : j < i}) = n - 1
  IN  [n \in 1..Cardinality(new) |-> s[nth(n)]]

First(s, n) == SubSeq(s, 1, IF Len(s) < n THEN Len(s) ELSE n)

\* The model's own questions first; at most six, if there is something to review.
ReviewQuestions(asked, gaps, fields) ==
  LET all == DedupeKeepOrder(asked \o gaps.missingDetails \o gaps.uncertainDetails
                             \o gaps.missing \o gaps.uncertain)
  IN  IF ~gaps.review THEN DedupeKeepOrder(asked)
      ELSE First(IF all = <<>> /\ fields["who"].status # "present" THEN <<"who">> ELSE all, 6)

-----------------------------------------------------------------------------
(* The FIR draft. *)

\* The names of the first role that has some.
RoleValues(fields, roles) ==
  LET k == SelectInSeq(roles, LAMBDA r : fields["who"].parts[r].values # {})
  IN  IF k = 0 THEN {} ELSE fields["who"].parts[roles[k]].values

\* One of the names of complainant or victim, or else one who says "I" in the text.
InformantName(fields, speakers) ==
  LET names == RoleValues(fields, <<"who.complainant", "who.victim">>)
  IN  IF names # {} THEN {The(names)} ELSE IF speakers # {} THEN {The(speakers)} ELSE {}

\* Suggestions of sections [section, fit, score, evidence]: a section keeps its
\* place, the best score and what goes with it, and three pieces of evidence.
MergeSections(suggestions) ==
  LET merge(acc, s) ==
        LET k == SelectInSeq(acc, LAMBDA x : x.section = s.section)
        IN  IF k = 0 THEN Append(acc, s)
            ELSE [acc EXCEPT ![k] =
                    [(IF s.score > @.score THEN s ELSE @) EXCEPT
                       !.evidence = First(DedupeKeepOrder(acc[k].evidence \o s.evidence), 3)]]
  IN  FoldLeft(merge, <<>>, suggestions)

\* Primary sections before related ones, the surest first.
OrderSections(sections) ==
  SortSeq(sections, LAMBDA x, y :
            \/ x.fit = "primary" /\ y.fit # "primary"
            \/ x.fit = y.fit /\ x.score > y.score)

\* The summary the model gives, as it gives it, or else what the fields say.
ComplaintBrief(fields, summary) ==
  IF summary # {} THEN summary
  ELSE RoleValues(fields, <<"who.victim", "who.complainant">>) \cup RoleValues(fields, <<"who.accused">>)
       \cup UNION {fields[f].value : f \in Fields \ {"who"}}

\* An accused nobody names may be labelled as unknown.
FirDraft(fields, questions, suggestions, speakers, unidentified, summary) ==
  LET informant == InformantName(fields, speakers)
      victim    == RoleValues(fields, <<"who.victim", "who.complainant">>)
      accused   == RoleValues(fields, <<"who.accused">>)
      date      == fields["when"].parts["when.date"].values
  IN  [status    |-> "draft_for_police_review",
       informant |-> informant,
       victim    |-> IF victim # {} THEN victim ELSE informant,
       accused   |-> IF accused # {} THEN accused ELSE unidentified,
       witnesses |-> RoleValues(fields, <<"who.witnesses">>),
       date      |-> IF date # {} THEN date ELSE fields["when"].value,
       time      |-> fields["when"].parts["when.time"].values,
       place     |-> fields["where"].value,
       brief     |-> ComplaintBrief(fields, summary),
       sections  |-> OrderSections(MergeSections(suggestions)),
       questions |-> questions]
=============================================================================
