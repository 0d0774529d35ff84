--------------------------- MODULE MCKisKnowledge ---------------------------
(* Instances of KisKnowledge for TLC. *)
EXTENDS KisKnowledge, TLC

CONSTANTS rec, doc, theft, Theft

\* Objects that differ in case share a node.
NodeOfClaim(claim) == IF claim = Theft THEN theft ELSE claim

ExtractedFrom(r) == <<theft, Theft>>

\* The text of the record names the title of the document.
LinksFrom(t) == IF t = rec THEN {doc} ELSE {}

ClientSymmetry == Permutations(Clients)

=============================================================================
