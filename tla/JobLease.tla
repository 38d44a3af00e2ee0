------------------------------ MODULE JobLease ------------------------------
(***************************************************************************)
(* What the election of JobLeader promises: a lease on the right to run    *)
(* the scheduled jobs.  A process is granted the right only when nobody    *)
(* has it and no lease is running, it gives the right back before its      *)
(* lease is over, and the right never passes from one process to the next  *)
(* in a single step.                                                       *)
(***************************************************************************)
EXTENDS Integers

CONSTANTS
    Procs,
    Lease,      \* the longest time a lease is written for
    Slack       \* how much shorter it may be

VARIABLES
    holders,    \* the processes that run the jobs
    left        \* what remains of the lease, not positive when there is none

leaseVars == <<holders, left>>

Fresh == (Lease - Slack)..Lease

Init == holders = {} /\ left = -Slack

\* The lease is free or over.
Grant(p) ==
    /\ holders = {} /\ left <= 0
    /\ holders' = {p} /\ left' \in Fresh

\* A lease is written for a process that does not get to know of it.
Waste ==
    /\ holders = {} /\ left <= 0
    /\ left' \in Fresh /\ UNCHANGED holders

Extend(p) ==
    /\ holders = {p} /\ left > 0
    /\ left' \in Fresh /\ UNCHANGED holders

\* The process stops running the jobs; what remains of the lease goes by.
GiveUp(p) ==
    /\ holders = {p}
    /\ holders' = {} /\ UNCHANGED left

GiveBack ==
    /\ holders = {}
    /\ left' = -Slack /\ UNCHANGED holders

\* Time passes, but never to the end of the lease of a process that runs the jobs.
Pass ==
    /\ left' = IF left = -Slack THEN left ELSE left - 1
    /\ holders # {} => left' > 0
    /\ UNCHANGED holders

Next == \/ \E p \in Procs : Grant(p) \/ Extend(p) \/ GiveUp(p)
        \/ Waste \/ GiveBack \/ Pass

Spec == Init /\ [][Next]_leaseVars
=============================================================================
