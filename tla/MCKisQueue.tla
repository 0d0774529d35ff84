----------------------------- MODULE MCKisQueue -----------------------------
(* Instances of KisQueue for TLC. *)
EXTENDS KisQueue, TLC

Symmetry == Permutations(Workers) \cup Permutations(Handlers)

=============================================================================
