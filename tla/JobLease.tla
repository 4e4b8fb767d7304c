------------------------------ MODULE JobLease ------------------------------
(***************************************************************************)
(* What the job queue promises, without rows, heartbeats or transactions:  *)
(* a job is leased to one worker at a time, at most MaxAttempts times, and *)
(* once it is closed it is never leased again.                             *)
(***************************************************************************)
EXTENDS Integers

CONSTANTS Jobs, Workers, MaxAttempts

VARIABLES
    state,      \* "absent", "waiting", "held" or "closed"
    grants,     \* how often the job has been leased
    holders     \* the workers that are working on the job

vars == <<state, grants, holders>>

Init ==
    /\ state = [j \in Jobs |-> "absent"]
    /\ grants = [j \in Jobs |-> 0]
    /\ holders = [j \in Jobs |-> {}]

Submit(j) ==
    /\ state[j] = "absent"
    /\ state' = [state EXCEPT ![j] = "waiting"]
    /\ UNCHANGED <<grants, holders>>

Grant(w, j) ==
    /\ state[j] = "waiting" /\ holders[j] = {} /\ grants[j] < MaxAttempts
    /\ state' = [state EXCEPT ![j] = "held"]
    /\ grants' = [grants EXCEPT ![j] = @ + 1]
    /\ holders' = [holders EXCEPT ![j] = {w}]

\* The holder dies; the lease is still out.
Lose(j) ==
    /\ state[j] = "held" /\ holders[j] # {}
    /\ holders' = [holders EXCEPT ![j] = {}]
    /\ UNCHANGED <<state, grants>>

\* The lease ends, returned by its holder or taken back after a loss, with attempts left.
GiveBack(j) ==
    /\ state[j] = "held" /\ grants[j] < MaxAttempts
    /\ state' = [state EXCEPT ![j] = "waiting"]
    /\ holders' = [holders EXCEPT ![j] = {}]
    /\ UNCHANGED grants

Close(j) ==
    /\ state[j] \in {"waiting", "held"}
    /\ state' = [state EXCEPT ![j] = "closed"]
    /\ holders' = [holders EXCEPT ![j] = {}]
    /\ UNCHANGED grants

Next ==
    \E j \in Jobs :
        \/ Submit(j) \/ Lose(j) \/ GiveBack(j) \/ Close(j)
        \/ \E w \in Workers : Grant(w, j)

Spec == Init /\ [][Next]_vars
=============================================================================
