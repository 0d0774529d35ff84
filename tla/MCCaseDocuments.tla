-------------------------- MODULE MCCaseDocuments --------------------------
(* Instances of CaseDocuments for TLC. *)
EXTENDS CaseDocuments, TLC

CONSTANTS scan, copyOfScan

\* Two file names with the same last component.
LastComponent(name) == IF name = copyOfScan THEN scan ELSE name

Symmetry == Permutations(Requests) \cup Permutations(Contents)

=============================================================================
