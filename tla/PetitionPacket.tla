--------------------------- MODULE PetitionPacket ---------------------------
(***************************************************************************)
(* The deterministic part of the petition assistance                       *)
(* (petition_assistance.py): from a parsed complaint and the checklist     *)
(* questions to the gaps the petitioner is asked to fill, their tokens,    *)
(* the validation of a packet body, its translation and the final merge.   *)
(* Wording and layout are left out.  Gaps are told apart by the slug of    *)
(* their label, which keeps its Latin letters and digits only: labels in   *)
(* an Indian script all have the slug "detail".  A body is who worded it   *)
(* and which tokens are still written in it.                               *)
(***************************************************************************)
EXTENDS Integers, FiniteSets

CONSTANTS
  CategoryFor,        \* label -> the category its keywords give it
  SlugOf,             \* label -> its slug
  CategoryOrder,      \* category -> its place in the alphabet
  CompoundCategories, \* categories written with an underscore
  BracketedLabels     \* labels that contain a closing bracket

Rank == [mandatory |-> 3, recommended |-> 2, optional |-> 1]

Wordings == {"generated", "edited", "merged"}

-----------------------------------------------------------------------------
(* The facts of a parsed complaint that the checklist looks at:            *)
(* p.present and p.uncertain are the 5W1H fields with that status, p.text  *)
(* the features found in the complaint text, p.offence the inferred type.  *)

FieldIsAnswered(p, field, allowUncertain) ==
  field \in p.present \/ (allowUncertain /\ field \in p.uncertain)

PurposeApplies(q) == q.purpose \cap {"petition", "all"} # {} \/ q.purpose = {}

OffenceApplies(q, p) == q.offence \in {"general", p.offence}

OffencesAbout(topic) ==
  CASE topic = "child"  -> {"pocso"}
    [] topic = "sexual" -> {"sexual_offence", "pocso"}
    [] topic = "caste"  -> {"sc_st_atrocity"}
    [] OTHER            -> {}

\* A question about a topic that neither the text nor the offence supports.
QuestionNotApplicable(q, p) ==
  \E topic \in q.topics : topic \notin p.text /\ p.offence \notin OffencesAbout(topic)

Answer(ok, otherwise) == IF ok THEN "present" ELSE otherwise

EvaluateAccused(q, p) ==
  LET named    == "accused" \in p.present \cup p.uncertain
      detailed == "relation" \in p.text
      spoken   == "accused" \in p.text
  IN  CASE named /\ "accused values" \in p.text -> "present"
        [] named \/ (spoken /\ detailed)        -> Answer(detailed, "uncertain")
        [] "unknown accused" \in p.text /\ q.kind = "accused known" -> "present"
        [] "unknown accused" \in p.text /\ q.kind = "accused description" ->
             Answer("description" \in p.text, "missing")
        [] spoken -> "uncertain"
        [] OTHER  -> "missing"

\* What happened, in which order, what was lost and what proves it.
EvaluateFacts(p, q) ==
  CASE q.kind = "witnesses" ->
         Answer(FieldIsAnswered(p, "witnesses", FALSE), "missing")
    [] q.kind = "chronology" ->
         IF FieldIsAnswered(p, "what", FALSE) /\ "long" \in p.text
         THEN Answer("sequence" \in p.text, "uncertain") ELSE "missing"
    [] q.kind = "acts" -> Answer(FieldIsAnswered(p, "how", TRUE), "missing")
    [] q.kind = "loss" -> Answer(FieldIsAnswered(p, "what", TRUE), "missing")
    [] q.kind = "digital" -> Answer("digital" \in p.text, "uncertain")
    [] q.kind = "property" /\ p.offence = "theft" ->
         IF "property" \in p.text
         THEN Answer("identifier" \in p.text, "uncertain") ELSE "missing"
    [] OTHER -> "not_applicable"

\* When, where and who come first.
EvaluateQuestion(p, q) ==
  CASE QuestionNotApplicable(q, p) -> "not_applicable"
    [] q.kind = "cognizable" -> Answer(FieldIsAnswered(p, "what", TRUE), "missing")
    [] q.kind = "when" -> Answer(/\ FieldIsAnswered(p, "date", FALSE)
                                 /\ FieldIsAnswered(p, "time", TRUE), "missing")
    [] q.kind = "where" ->
         IF FieldIsAnswered(p, "where", FALSE)
         THEN Answer("vague place" \notin p.text, "uncertain") ELSE "missing"
    [] q.kind = "informant" ->
         Answer(/\ FieldIsAnswered(p, "complainant", FALSE)
                /\ {"relation", "age", "phone", "address"} \subseteq p.text,
                "uncertain")
    [] q.kind = "victim" ->
         IF FieldIsAnswered(p, "victim", FALSE) THEN "present"
         ELSE IF FieldIsAnswered(p, "complainant", FALSE) THEN "uncertain"
         ELSE "missing"
    [] q.kind \in {"accused known", "accused description", "accused"} ->
         EvaluateAccused(q, p)
    [] OTHER -> EvaluateFacts(p, q)

Applicable(p, q) == PurposeApplies(q) /\ OffenceApplies(q, p)

\* The active questions that apply; a repeated text counts once, at its first
\* place.  The gravest come first and then the display order, as the order in
\* which DedupeGapFindings compares findings has it.
EvaluateChecklistQuestions(p, questions, active) ==
  LET asked(i) == /\ i \in active
                  /\ Applicable(p, questions[i])
                  /\ \A j \in active :
                       j < i => questions[j].question # questions[i].question
  IN  {[source |-> "checklist", order |-> i, label |-> questions[i].label,
        category |-> questions[i].category, severity |-> questions[i].severity,
        status |-> EvaluateQuestion(p, questions[i])] :
         i \in {k \in DOMAIN questions : asked(k)}}

-----------------------------------------------------------------------------
(* Gaps and tokens. *)

\* The parser's own gaps, one for a category and slug: the first label stands
\* with the gravest status and severity among them; an answered one is no gap.
NormalizeGapFindings(p) ==
  LET raw      == {i \in DOMAIN p.gaps :
                     p.gaps[i].status = "missing" => p.gaps[i].label \notin p.present}
      label(i) == p.gaps[i].label
      like(i)  == {j \in raw : /\ CategoryFor[label(j)] = CategoryFor[label(i)]
                               /\ SlugOf[label(j)] = SlugOf[label(i)]}
      missing(i) == \E j \in like(i) : p.gaps[j].status = "missing"
  IN  {[source |-> "parser", order |-> CategoryOrder[CategoryFor[label(i)]],
        label |-> label(i), category |-> CategoryFor[label(i)],
        severity |-> IF missing(i) THEN "mandatory" ELSE "recommended",
        status |-> IF missing(i) THEN "missing" ELSE "uncertain"] :
         i \in {j \in raw : \A k \in like(j) : j <= k}}

ChecklistGapFindings(evaluations) ==
  {e \in evaluations : e.status \in {"missing", "uncertain"}}

SameGap(f, g) == SlugOf[f.label] = SlugOf[g.label]

\* The parser's findings come before the checklist's.
ComesFirst(f, g) ==
  \/ f.source = "parser" /\ g.source = "checklist"
  \/ f.source = g.source /\ f.order < g.order

\* Mutant: of the findings of one gap the first stands, however grave the others.
DedupeFirst(findings) ==
  {f \in findings : \A g \in findings \ {f} : SameGap(f, g) => ComesFirst(f, g)}

\* Of the findings of one gap the first of the highest severity stands.
DedupeGapFindings(findings) ==
  {f \in findings :
     \A g \in findings \ {f} : SameGap(f, g) =>
        \/ Rank[g.severity] < Rank[f.severity]
        \/ Rank[g.severity] = Rank[f.severity] /\ ComesFirst(f, g)}

GapsOf(p, evaluations) ==
  DedupeGapFindings(NormalizeGapFindings(p) \cup ChecklistGapFindings(evaluations))

\* A placeholder names its gap and how grave it is; the number in the category
\* keeps tokens apart.
Token(f) == [label |-> f.label, category |-> f.category, severity |-> f.severity]

CreatePlaceholders(gaps) == {Token(f) : f \in gaps}

\* PLACEHOLDER_PATTERN: capitals only, and no bracket in the label.
MatchesPattern(token) ==
  /\ token.category \notin CompoundCategories
  /\ token.label \notin BracketedLabels

-----------------------------------------------------------------------------
(* Bodies: generated, validated, translated, merged. *)

HasBasisText(p) == p.basis \in {"refined", "raw"}

GenerateEnglishPacket(tokens) == [words |-> "generated", holes |-> tokens]

\* What the validation of a fresh packet makes of it.
ValidatePacketBody(body, tokens, p) ==
  LET unmatched == {t \in tokens : ~MatchesPattern(t)}
      complete  == tokens \subseteq body.holes /\ unmatched = {} /\ HasBasisText(p)
  IN  [complete |-> complete,
       unsupported |-> IF complete THEN 0 ELSE Cardinality(unmatched)]

\* Mutant: an edit that keeps the placeholders keeps the lineage.
ValidationOfHoles(text, current, tokens) ==
  LET lost     == tokens \ text.holes
      complete == lost = {} /\ current.lineage /\ current.unsupported = 0
  IN  [complete |-> complete, unsupported |-> Cardinality(lost)]

\* What saving an officer's text over a draft makes of it.
DraftValidationFromEdit(text, current, tokens) ==
  LET lost     == tokens \ text.holes
      changed  == text # current.text
      complete == ~changed /\ lost = {} /\ current.lineage /\ current.unsupported = 0
  IN  [complete |-> complete,
       unsupported |-> IF complete THEN 0
                       ELSE Cardinality(lost) + (IF changed THEN 1 ELSE 0)]

FinalAcceptable == {"accepted", "accepted_unknown", "needs_follow_up"}

\* Every placeholder whose value is final is written into the text; the
\* others stay unresolved.
MergeFinalPetitionText(text, values) ==
  LET resolved == {t \in DOMAIN values : values[t] \in FinalAcceptable}
  IN  [text |-> [words |-> IF text.holes \cap resolved = {} THEN text.words
                           ELSE "merged",
                 holes |-> text.holes \ resolved],
       unresolved |-> DOMAIN values \ resolved]

\* The tokens a translation is told to keep: those the pattern finds.
ProtectedTokens(text) == {h \in text.holes : MatchesPattern(h)}

\* The protected tokens that come back: an English target is not sent out, any
\* other answer may have lost some of them.
TranslatePetitionPacket(text, language) ==
  IF language = "english" THEN {ProtectedTokens(text)}
  ELSE SUBSET ProtectedTokens(text)

\* What a translation may leave as the semantic status.
TranslationOutcomes(text, language, translator) ==
  IF ~translator
  THEN {IF language = "english" THEN "not_required" ELSE "english_only_issue"}
  ELSE {IF kept = ProtectedTokens(text) THEN "pending" ELSE "placeholder_failed" :
          kept \in TranslatePetitionPacket(text, language)}
=============================================================================
