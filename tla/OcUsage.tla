------------------------------- MODULE OcUsage -------------------------------
(***************************************************************************)
(* The accounting of the traffic that OC reports for the user mappings:    *)
(* app/node/oc_usage.py and app/jobs/record_oc_usages.py.                  *)
(*                                                                         *)
(* OC keeps one cumulative counter per account.  A run of the job loads    *)
(* the active mappings, reads the counter of each, and accounts what it    *)
(* read against the mapping's last_cumulative_traffic, in one transaction  *)
(* that locks the row.  A counter below the last value is taken for one    *)
(* that started again.  Runs belong to the process that leads the jobs     *)
(* (module JobLeader): a process that loses the lead starts no run, but    *)
(* the run it is in goes on.                                               *)
(*                                                                         *)
(* Bytes are counted before the panel's multiplier.                        *)
(***************************************************************************)
EXTENDS Integers

CONSTANTS
    Mappings,    \* OCUserMapping rows
    Processes,   \* processes that may lead the jobs
    MaxTraffic,  \* bound: what an account transfers
    MaxResets,   \* bound: counters that start again
    MaxChanges,  \* bound: changes of the leader
    MaxFailures  \* bound: failed reads, failed transactions and crashes

ASSUME OcUsageAssumption ==
    /\ Processes # {}
    /\ MaxTraffic \in Nat /\ MaxResets \in Nat /\ MaxChanges \in Nat /\ MaxFailures \in Nat

VARIABLES
    sent,     \* sent[m]: what the account of m has really transferred
    remote,   \* remote[m]: the counter OC reports
    active,   \* active[m]: the mapping's status is "active"
    last,     \* last[m]: last_cumulative_traffic
    billed,   \* billed[m]: what m added to used_traffic of its user and of the user's admin
    step,     \* step[p][m]: what p's run still has to do for m
    value,    \* value[p][m]: the counter p's run has read
    runner,   \* the process whose scheduler runs, the leader
    resets, changes, failures

usageVars == <<sent, remote, active, last, billed, step, value, runner, resets, changes, failures>>

UsageInit ==
    /\ sent = [m \in Mappings |-> 0]
    /\ remote = [m \in Mappings |-> 0]
    /\ active = [m \in Mappings |-> TRUE]
    /\ last = [m \in Mappings |-> 0]
    /\ billed = [m \in Mappings |-> 0]
    /\ step = [p \in Processes |-> [m \in Mappings |-> "done"]]
    /\ value = [p \in Processes |-> [m \in Mappings |-> 0]]
    /\ runner \in Processes
    /\ resets = 0 /\ changes = 0 /\ failures = 0

Failure == failures < MaxFailures /\ failures' = failures + 1

-----------------------------------------------------------------------------
(* A run of record_oc_usages_job *)

\* _oc_usage_running, in the process and by max_instances.
Collecting(p) == \E m \in Mappings : step[p][m] # "done"

\* The scheduler fires: the active mappings are loaded.
StartRun(p) ==
    /\ p = runner /\ ~Collecting(p)
    /\ \E m \in Mappings : active[m]
    /\ step' = [step EXCEPT ![p] = [m \in Mappings |-> IF active[m] THEN "fetch" ELSE "done"]]
    /\ UNCHANGED <<sent, remote, active, last, billed, value, runner, resets, changes, failures>>

\* fetch_oc_user_usage: the counter, or None whatever the reason.
Fetch(p, m) ==
    /\ step[p][m] = "fetch"
    /\ \/ /\ step' = [step EXCEPT ![p][m] = "account"]
          /\ value' = [value EXCEPT ![p][m] = remote[m]]
          /\ UNCHANGED failures
       \/ step' = [step EXCEPT ![p][m] = "done"] /\ Failure /\ UNCHANGED value
    /\ UNCHANGED <<sent, remote, active, last, billed, runner, resets, changes>>

\* Mutant of StartedAgain: so is a counter that did not move.
StartedAgainOrSame(v, previous) == v <= previous

\* A counter below the baseline is taken for a reset at OC.
StartedAgain(v, previous) == v < previous

\* raw_delta.
Delta(v, previous) == CASE v > previous              -> v - previous
                        [] StartedAgain(v, previous) -> v
                        [] OTHER                     -> 0

\* Mutant of RolledBack: the baseline is stored in a transaction of its own.
BaselineStored(p, m) == last' = [last EXCEPT ![m] = value[p][m]] /\ UNCHANGED billed

\* The transaction of account_mapping_usage failed: neither the row nor the users changed.
RolledBack(p, m) == UNCHANGED <<last, billed>>

\* Mutant of AfterFailure: a mapping that failed is never finished, nor is its run.
NeverFinished == "stuck"

\* return_exceptions, and the flag cleared whatever happens.
AfterFailure == "done"

\* account_mapping_usage.
Account(p, m) ==
    /\ step[p][m] = "account"
    /\ \/ /\ active[m]
          /\ last' = [last EXCEPT ![m] = value[p][m]]
          /\ billed' = [billed EXCEPT ![m] = @ + Delta(value[p][m], last[m])]
          /\ step' = [step EXCEPT ![p][m] = "done"] /\ UNCHANGED failures
       \/ /\ ~active[m] /\ UNCHANGED <<last, billed, failures>>
          /\ step' = [step EXCEPT ![p][m] = "done"]
       \/ /\ RolledBack(p, m) /\ Failure
          /\ step' = [step EXCEPT ![p][m] = AfterFailure]
    /\ UNCHANGED <<sent, remote, active, value, runner, resets, changes>>

RunDies(p) ==
    /\ Collecting(p) /\ Failure
    /\ step' = [step EXCEPT ![p] = [m \in Mappings |-> "done"]]
    /\ UNCHANGED <<sent, remote, active, last, billed, value, runner, resets, changes>>

-----------------------------------------------------------------------------
(* What happens around the runs *)

Traffic(m) ==
    /\ sent[m] < MaxTraffic
    /\ sent' = [sent EXCEPT ![m] = @ + 1]
    /\ remote' = [remote EXCEPT ![m] = @ + 1]
    /\ UNCHANGED <<active, last, billed, step, value, runner, resets, changes, failures>>

\* The counter starts again: OC resets it, or the mapping gets another identity.
Reset(m) ==
    /\ resets < MaxResets /\ resets' = resets + 1
    /\ remote' = [remote EXCEPT ![m] = 0]
    /\ UNCHANGED <<sent, active, last, billed, step, value, runner, changes, failures>>

\* The outbox (module OcSync) deactivates the mapping or activates it again.
SetActive(m, a) ==
    /\ active' = [active EXCEPT ![m] = a]
    /\ UNCHANGED <<sent, remote, last, billed, step, value, runner, resets, changes, failures>>

\* scheduler.pause in the old leader leaves its running job alone.
ChangeLeader(p) ==
    /\ p # runner /\ runner' = p
    /\ changes < MaxChanges /\ changes' = changes + 1
    /\ UNCHANGED <<sent, remote, active, last, billed, step, value, resets, failures>>

Run(p) == StartRun(p) \/ (\E m \in Mappings : Fetch(p, m) \/ Account(p, m))

UsageNext == \/ \E p \in Processes : Run(p) \/ RunDies(p) \/ ChangeLeader(p)
             \/ \E m \in Mappings :
                    Traffic(m) \/ Reset(m) \/ SetActive(m, TRUE) \/ SetActive(m, FALSE)

UsageSpec == UsageInit /\ [][UsageNext]_usageVars

\* The job fires at its interval, requests time out and transactions end.
UsageFairness ==
    \A p \in Processes :
        /\ WF_usageVars(StartRun(p))
        /\ \A m \in Mappings : WF_usageVars(Fetch(p, m)) /\ WF_usageVars(Account(p, m))

UsageFairSpec == UsageSpec /\ UsageFairness

-----------------------------------------------------------------------------
(* Properties *)

UsageTypeOK ==
    /\ sent \in [Mappings -> 0..MaxTraffic] /\ remote \in [Mappings -> Nat]
    /\ active \in [Mappings -> BOOLEAN]
    /\ last \in [Mappings -> Nat] /\ billed \in [Mappings -> Nat]
    /\ step \in [Processes -> [Mappings -> {"done", "fetch", "account"}]]
    /\ value \in [Processes -> [Mappings -> Nat]]
    /\ runner \in Processes
    /\ resets \in 0..MaxResets /\ changes \in 0..MaxChanges /\ failures \in 0..MaxFailures

\* Traffic below the baseline has been billed: as long as no counter starts again, nothing is
\* lost, whatever reads and transactions fail and however many leaders' runs overlap.
NothingLost == resets = 0 => \A m \in Mappings : billed[m] >= last[m]

\* A user is never billed for more than was transferred, counters that start again included,
\* as long as one process keeps the lead.
NothingDoubled == changes = 0 => \A m \in Mappings : billed[m] <= sent[m]

\* What the documentation promises of concurrent runs: traffic is accounted once.
AccountedOnce == \A m \in Mappings : billed[m] <= sent[m]

\* The accounting catches up with a mapping that stays active and whose account goes quiet.
CatchesUp ==
    \A m \in Mappings : <>[](active[m]) => <>[](last[m] = remote[m])

=============================================================================
