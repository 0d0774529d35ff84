---------------------------- MODULE MCAuditTrail ----------------------------
(* Instances of AuditTrail for TLC. *)
EXTENDS AuditTrail, TLC

Symmetry == Permutations(Entries) \cup Permutations(Writers)

=============================================================================
