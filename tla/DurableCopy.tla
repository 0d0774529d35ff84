---------------------------- MODULE DurableCopy ----------------------------
(***************************************************************************)
(* What the knowledge service promises about its data: it is in memory,    *)
(* the database has a copy of what was in memory at some moment of this    *)
(* life of the service, or the copy this life began with, and the next     *)
(* life begins from the copy.  The copy need not be the latest one.        *)
(***************************************************************************)
CONSTANTS
  Contents,  \* what can be in memory
  Empty      \* what is in memory when there is no copy

VARIABLES
  memory,  \* what is in memory
  copy,    \* the copy in the database, or Empty
  past     \* what was in memory in this life, and the copy it began with

vars == <<memory, copy, past>>

Init == memory = Empty /\ copy = Empty /\ past = {Empty}

Change ==
  /\ memory' \in Contents
  /\ past' = past \cup {memory'}
  /\ copy' = copy

Write ==
  /\ copy' \in past
  /\ UNCHANGED <<memory, past>>

\* The next life begins from the copy, or with nothing.
Begin ==
  /\ memory' \in {copy, Empty}
  /\ past' = {memory', copy}
  /\ copy' = copy

Next == Change \/ Write \/ Begin

Spec == Init /\ [][Next]_vars

=============================================================================
