--------------------------- MODULE MCCaseRegister ---------------------------
(* Instances of CaseRegister for TLC. *)
EXTENDS CaseRegister, TLC

CONSTANTS s1, s2

AForm(type, station, crime) ==
  [type |-> type, crime |-> crime, petition |-> None, station |-> station]

\* Numbers left to the register, a number of the client's own, and a petition that
\* already has a crime number.
SomeForms ==
  {AForm("FIR", s1, None), AForm("Suo_Motu", s1, 2), AForm("Petition", s1, None),
   AForm("Petition", s2, 1)}

\* The same crime number at two stations.
TwoForms == {AForm("FIR", s1, 1), AForm("FIR", s2, 1)}

Symmetry == Permutations(Cases) \cup Permutations(Handlers)

=============================================================================
