-------------------------- MODULE MCParseHistory --------------------------
EXTENDS ParseHistory, TLC
CONSTANTS r1, r2, b1, b2

MCRecords == {r1, r2}
MCStored == {r2}
Symmetry == Permutations({b1, b2})
\* Two questions that find the same detail missing, the graver one second, and
\* one an administrator adds, for a list of its own.
MCQuestions == 1..3
MCEdited == {3}
Question(text, severity) ==
  [text |-> text, category |-> "evidence", severity |-> severity, purposes |-> {"petition"}]
MCAsk == <<Question("receipts", "recommended"), Question("ownership", "mandatory"),
           Question("witnesses", "mandatory")>>
Found(status, detail) == [status |-> status, detail |-> detail]
MCVerdict ==
  [upload  |-> <<Found("missing", "property"), Found("missing", "property"),
                 Found("present", "")>>,
   reparse |-> <<Found("present", ""), Found("uncertain", "property"),
                 Found("not_applicable", "")>>]
\* What an analysis says decides nothing else, and a batch is done with what it
\* read of the rows behind it: states that differ in these alone are searched
\* once for each list of questions in force.
Seen(output) == <<output.from, output.ranked>>
Told ==
  <<[r \in Records |-> IF Exists(r) THEN [row[r] EXCEPT !.output = Seen(@)] ELSE NoRow],
    [r \in Records |-> [upload[r] EXCEPT !.output = Seen(@)]],
    [b \in Batches |->
       [batch[b] EXCEPT !.held = Seen(@),
                        !.snap = [r \in batch[b].todo \cap DOMAIN @ |-> Seen(@[r])]]]>>
View == <<Told, file, doc, user, LatestActive(table), faults, history>>
=============================================================================
