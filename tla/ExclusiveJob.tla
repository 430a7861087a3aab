--------------------------- MODULE ExclusiveJob ---------------------------
(***************************************************************************)
(* What modules/notifier promises of the jobs it schedules: at any moment  *)
(* at most one run of a job is under way, over all notifier processes.     *)
(* Runs begin when nobody runs the job and end one at a time; how the      *)
(* processes agree on it (the in-process guard, the Redis lock) is not     *)
(* visible here.                                                           *)
(***************************************************************************)
CONSTANTS Job,      \* names of the jobs
          Runner    \* whoever may run a job

VARIABLE runners    \* runners[j]: who runs job j at this moment

Init == runners = [j \in Job |-> {}]

(* Somebody starts the job that nobody runs. *)
Begin(j, r) ==
    /\ runners[j] = {}
    /\ runners' = [runners EXCEPT ![j] = {r}]

(* A run ends, normally or with an error. *)
End(j, r) ==
    /\ r \in runners[j]
    /\ runners' = [runners EXCEPT ![j] = @ \ {r}]

(* A process disappears in the middle of the runs it carries. *)
Death(gone) ==
    /\ \E j \in Job : gone \cap runners[j] # {}
    /\ runners' = [j \in Job |-> runners[j] \ gone]

Next ==
    \/ \E j \in Job, r \in Runner : Begin(j, r) \/ End(j, r)
    \/ \E gone \in SUBSET UNION {runners[j] : j \in Job} : Death(gone)

Spec == Init /\ [][Next]_runners
===========================================================================
