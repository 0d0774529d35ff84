---------------------------- MODULE ExclusiveJobs ----------------------------
(***************************************************************************)
(* What a lease on a shared queue promises, without rows, leases or time:  *)
(* a job is in the hands of at most one worker, a worker has at most one   *)
(* job, a job is taken only while nobody has it, and it never passes from  *)
(* one worker to another in a single step.                                 *)
(***************************************************************************)
CONSTANTS Jobs, Workers, Nobody

VARIABLE holder   \* holder[j]: the worker that has job j, or Nobody

Init == holder = [j \in Jobs |-> Nobody]

Take(w, j) ==
  /\ holder[j] = Nobody
  /\ \A i \in Jobs : holder[i] # w
  /\ holder' = [holder EXCEPT ![j] = w]

\* Jobs are given back, or taken away: several when leases run out together.
Release(S) ==
  holder' = [j \in Jobs |-> IF j \in S THEN Nobody ELSE holder[j]]

Next ==
  \/ \E w \in Workers, j \in Jobs : Take(w, j)
  \/ \E S \in SUBSET Jobs : Release(S)

Spec == Init /\ [][Next]_holder

=============================================================================
