----------------------------- MODULE MCKisStore -----------------------------
(* Instances of KisStore for TLC. *)
EXTENDS KisStore, TLC

Symmetry == Permutations(Requests)

=============================================================================
