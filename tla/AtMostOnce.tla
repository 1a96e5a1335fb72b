----------------------------- MODULE AtMostOnce -----------------------------
(***************************************************************************)
(* What the dispatchers promise of every job (a handler for an event, an   *)
(* entry for a fire time): it is begun once and never given back, and it   *)
(* runs only after it was begun, and once.  That it was begun is kept in   *)
(* the database and outlives the process; a job whose process dies before  *)
(* it runs is lost, not retried.                                           *)
(***************************************************************************)
EXTENDS Naturals

CONSTANT Jobs

VARIABLES
    begun,          \* the jobs that were begun
    runs            \* how often each of them ran

\* A store may hold the jobs of an earlier version of the program, which had run.
Init ==
    /\ begun \subseteq Jobs
    /\ runs = [job \in Jobs |-> IF job \in begun THEN 1 ELSE 0]

Begin(job) ==
    /\ job \notin begun
    /\ begun' = begun \cup {job}
    /\ UNCHANGED runs

Run(job) ==
    /\ job \in begun
    /\ runs[job] = 0
    /\ runs' = [runs EXCEPT ![job] = 1]
    /\ UNCHANGED begun

Next == \E job \in Jobs : Begin(job) \/ Run(job)

Spec == Init /\ [][Next]_<<begun, runs>>
=============================================================================
