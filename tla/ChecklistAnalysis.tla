------------------------- MODULE ChecklistAnalysis -------------------------
(***************************************************************************)
(* The checklist analysis that app.py adds to every parsed complaint: the  *)
(* questions of the newest active checklist are put to it, findings that   *)
(* read alike are merged, and what is left is counted and scored.  How one *)
(* question is answered from the text is in PetitionPacket; here an answer *)
(* is given by Verdict.                                                    *)
(***************************************************************************)
EXTENDS Integers, FiniteSets

CONSTANTS
  Questions,  \* checklist questions, numbered in display order
  Ask,        \* Ask[q]: its text, category, severity and purposes
  Verdict,    \* Verdict[parse][q]: the status and the missing detail it finds
  Versions    \* versions of the checklist

ASSUME QuestionsAssumption ==
  /\ Questions \subseteq Nat /\ IsFiniteSet(Questions)
  /\ Versions \subseteq Nat \ {0}

Actionable == {"missing", "uncertain"}

SeverityRank == [mandatory |-> 3, recommended |-> 2, optional |-> 1]

\* No other severity is saved with a question.
ASSUME SeverityAssumption == \A q \in Questions : Ask[q].severity \in DOMAIN SeverityRank

\* A question's version, 0 while there is no such row, and whether it is active.
QuestionRow == [version : Versions, active : BOOLEAN]

Active(table) == {q \in Questions : table[q].version > 0 /\ table[q].active}

\* Only the active questions of the highest active version are fetched.
LatestActive(table) ==
  {q \in Active(table) :
     \A p \in Active(table) : table[p].version <= table[q].version}

\* A text that was seen is not asked again, and a question made for another
\* purpose is not answered.  The findings are a set: the code lists them sorted, the gravest
\* first, and merges them in that order.
EvaluateChecklistQuestions(parse, questions) ==
  {[question |-> q, category |-> Ask[q].category, severity |-> Ask[q].severity,
    status |-> Verdict[parse][q].status, detail |-> Verdict[parse][q].detail] :
     q \in {r \in questions :
              /\ "petition" \in Ask[r].purposes
              /\ \A p \in questions : p < r => Ask[p].text # Ask[r].text}}

ReadsLike(e, f) ==
  /\ {e.status, f.status} \subseteq Actionable
  /\ e.detail # "" /\ e.detail = f.detail
  /\ e.category = f.category

\* Mutant: of the findings that read alike the first in display order stays.
DedupeByOrder(evaluations) ==
  {e \in evaluations :
     \A f \in evaluations \ {e} : ReadsLike(e, f) => f.question > e.question}

\* Of the findings that read alike the gravest stays, the first of these.
DedupeEvaluations(evaluations) ==
  {e \in evaluations :
     \A f \in evaluations \ {e} :
       ReadsLike(e, f) =>
         \/ SeverityRank[f.severity] < SeverityRank[e.severity]
         \/ SeverityRank[f.severity] = SeverityRank[e.severity] /\ f.question > e.question}

Count(evaluations, statuses) ==
  Cardinality({e \in evaluations : e.status \in statuses})

\* The score is the part of the applicable findings that is present.  What was
\* judged before findings were merged is kept as history.  (The code also copies the first
\* twelve items to top_findings, for display.)
BuildChecklistAnalysis(evaluations) ==
  LET public     == DedupeEvaluations(evaluations)
      items      == {e \in public : e.status \in Actionable}
      applicable == Count(public, Actionable \cup {"present"})
      mandatory  == Cardinality({e \in items :
                      SeverityRank[e.severity] >= SeverityRank.mandatory})
  IN  [status      |-> IF public = {} THEN "empty" ELSE "ready",
       present     |-> Count(public, {"present"}),
       applicable  |-> applicable,
       mandatory   |-> mandatory,
       recommended |-> Cardinality(items) - mandatory,
       evaluations |-> public,
       judged      |-> evaluations]

\* A fresh parse has none; one that could not be made stands as unavailable.
Unanalysed(status) ==
  [status |-> status, present |-> 0, applicable |-> 0, mandatory |-> 0,
   recommended |-> 0, evaluations |-> {}, judged |-> {}]

NoAnalysis == Unanalysed("none")

\* Every analysis there can be: of any parse by any questions.
Analyses ==
  {NoAnalysis, Unanalysed("unavailable")} \cup
  {BuildChecklistAnalysis(EvaluateChecklistQuestions(parse, questions)) :
     parse \in DOMAIN Verdict, questions \in SUBSET Questions}

\* enrich_parsed_output_with_checklist: a failure keeps the analysis there was.
Enriched(output, table, works) ==
  [output EXCEPT !.analysis =
     IF works
     THEN BuildChecklistAnalysis(
            EvaluateChecklistQuestions(output.from, LatestActive(table)))
     ELSE IF @ = NoAnalysis THEN Unanalysed("unavailable") ELSE @]

-----------------------------------------------------------------------------
\* Each question that found something missing has an action item that reads the
\* same and is at least as grave, and the counts account for the items.
AsksEveryGap(a) ==
  /\ \A e \in a.judged : e.status \in Actionable =>
       \E f \in a.evaluations :
         /\ f = e \/ ReadsLike(e, f)
         /\ SeverityRank[f.severity] >= SeverityRank[e.severity]
  /\ a.mandatory + a.recommended = a.applicable - a.present
=============================================================================
