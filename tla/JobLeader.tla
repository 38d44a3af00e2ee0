------------------------------ MODULE JobLeader ------------------------------
(***************************************************************************)
(* The election of the process that runs the scheduled jobs of a role:     *)
(* app/nats/leader.py, with the hooks of app/app_factory.py that start,    *)
(* pause and resume the scheduler.                                         *)
(*                                                                         *)
(* One key of a NATS KV bucket holds the lease: a token and the time it    *)
(* expires at.  A process reads the key and writes it back naming the      *)
(* revision it read.  Time passes in steps of one second; every time is    *)
(* kept relative to now: key.left is what remains of the lease (negative   *)
(* once it is over), age[p] how long ago p took the "now" it works with.   *)
(*                                                                         *)
(* A KV call of a process takes effect when its step does, up to CallTime  *)
(* seconds after it was started.                                           *)
(***************************************************************************)
EXTENDS Integers, FiniteSets

CONSTANTS
    Procs,        \* processes that share the role
    Tokens,       \* lease tokens (uuids)
    None,
    Lease,        \* DEFAULT_LEASE_SECONDS (15)
    Interval,     \* HEARTBEAT_INTERVAL (5)
    RetryDelay,   \* HEARTBEAT_RETRY_DELAY (1)
    MaxRetries,   \* HEARTBEAT_MAX_RETRIES (3)
    CallTime,     \* the longest a KV call takes
    MaxFaults     \* bound of the checked instance: failed calls, stops and crashes

ASSUME JobLeaderAssumption ==
    /\ None \notin Tokens
    /\ Lease \in Nat \ {0} /\ Interval \in Nat /\ RetryDelay \in Nat
    /\ MaxRetries \in Nat \ {0} /\ CallTime \in Nat /\ MaxFaults \in Nat

\* A lease covers one heartbeat interval and the retries that follow a failure, the KV calls of
\* both, and the age of the "now" a thief writes it with.
RoomForCalls ==
    Interval + (MaxRetries - 1) * RetryDelay + (2 * MaxRetries + 3) * CallTime < Lease

VARIABLES
    key,      \* the lease key: token (None when there is no key) and time left
    pc,       \* pc[p]: what p is doing
    leader,   \* leader[p]: _is_leader
    token,    \* token[p]: _token
    draft,    \* draft[p]: the token of the payload p is about to write
    seen,     \* seen[p]: the key p read last, against the key as it is now
    wait,     \* wait[p]: seconds left of p's sleep, or left to p's call
    age,      \* age[p]: seconds since p took "now"
    fails,    \* fails[p]: consecutive_failures
    sched,    \* sched[p]: state of p's scheduler
    faults    \* budget spent

vars == <<key, pc, leader, token, draft, seen, wait, age, fails, sched, faults>>

MaxAge == 3 * CallTime
NoKey  == [tok |-> None, left |-> -MaxAge]

Sleeping == {"reclaim", "beat"}
Calling  == {"create", "read", "steal", "check", "renew", "release", "delete"}
Steps    == {"down", "conceding"} \cup Sleeping \cup Calling

Init ==
    /\ key = NoKey
    /\ pc = [p \in Procs |-> "down"]
    /\ leader = [p \in Procs |-> FALSE]
    /\ token = [p \in Procs |-> None]
    /\ draft = [p \in Procs |-> None]
    /\ seen = [p \in Procs |-> "stale"]
    /\ wait = [p \in Procs |-> 0]
    /\ age = [p \in Procs |-> 0]
    /\ fails = [p \in Procs |-> 0]
    /\ sched = [p \in Procs |-> "stopped"]
    /\ faults = 0

-----------------------------------------------------------------------------
(* The key *)

Absent == key.tok = None

\* The revision p names: of the key it read if nobody wrote since, none if there was no key.
Read(p, what) == seen' = [seen EXCEPT ![p] = what]

\* Every write gives the key a new revision, so what anyone had read is now old.
NewRevision == seen' = [q \in Procs |-> IF seen[q] = "current" THEN "stale" ELSE seen[q]]

\* Mutant of RevisionHolds: the write does not name the revision.
AnyRevision(p) == TRUE

\* kv_cas_json: create when no revision is named, else update with last=revision.
RevisionHolds(p) == \/ seen[p] = "current"
                    \/ seen[p] = "absent" /\ Absent

Write(t, left) == key' = [tok |-> t, left |-> left] /\ NewRevision

-----------------------------------------------------------------------------
(* What a process does next *)

Call(p, what)   == pc' = [pc EXCEPT ![p] = what] /\ wait' = [wait EXCEPT ![p] = CallTime]
Sleep(p, what, t) == pc' = [pc EXCEPT ![p] = what] /\ wait' = [wait EXCEPT ![p] = t]
NowIs(p)        == age' = [age EXCEPT ![p] = 0]

\* Mutant of Resumed: the scheduler of a process that did not win when it started is not started.
OnlyPaused(p) == IF sched[p] = "paused" THEN "running" ELSE sched[p]

\* _resume_jobs_on_leadership_gained: a paused scheduler resumes, another one starts.
Resumed(p) == "running"

\* try_become_leader succeeded: the heartbeat starts, the scheduler starts or resumes.
Won(p) ==
    /\ leader' = [leader EXCEPT ![p] = TRUE]
    /\ token' = [token EXCEPT ![p] = draft[p]]
    /\ draft' = [draft EXCEPT ![p] = None]
    /\ fails' = [fails EXCEPT ![p] = 0]
    /\ sched' = [sched EXCEPT ![p] = Resumed(p)]
    /\ Sleep(p, "beat", Interval)

\* It did not: the reclaim loop sleeps before it tries again.
Lost(p) ==
    /\ draft' = [draft EXCEPT ![p] = None]
    /\ Sleep(p, "reclaim", Interval)
    /\ UNCHANGED <<leader, token, fails, sched>>

\* _concede_leadership, up to its callback.
Concede(p) ==
    /\ leader' = [leader EXCEPT ![p] = FALSE]
    /\ token' = [token EXCEPT ![p] = None]
    /\ fails' = [fails EXCEPT ![p] = 0]
    /\ Sleep(p, "conceding", 0)
    /\ UNCHANGED <<draft, sched>>

\* Mutant of Exhausted: the heartbeat never gives up on errors.
NeverExhausted(n) == FALSE

Exhausted(n) == n >= MaxRetries

\* Mutant of RetryWait: every renewal waits for the next heartbeat.
WholeInterval == Interval

\* After a failure the next renewal does not wait for a full interval.
RetryWait == RetryDelay

\* A renewal failed: retried soon, conceded after MaxRetries in a row.
RenewalFailed(p) ==
    IF Exhausted(fails[p] + 1) THEN Concede(p)
    ELSE /\ fails' = [fails EXCEPT ![p] = @ + 1]
         /\ Sleep(p, "beat", RetryWait)
         /\ UNCHANGED <<leader, token, draft, sched>>

Fault == faults < MaxFaults /\ faults' = faults + 1
NoFault == UNCHANGED faults

-----------------------------------------------------------------------------
(* try_become_leader *)

\* A uuid that occurs nowhere else.
Unused(t) == t # key.tok /\ \A q \in Procs : t \notin {token[q], draft[q]}

\* A process starts, or its reclaim loop wakes: a token is drawn and "now" is taken.
Try(p) ==
    /\ \/ pc[p] = "down"
       \/ pc[p] = "reclaim" /\ wait[p] = 0
    /\ \E t \in Tokens : Unused(t)
    /\ draft' = [draft EXCEPT ![p] = CHOOSE t \in Tokens : Unused(t)]
    /\ Call(p, "create") /\ NowIs(p)
    /\ UNCHANGED <<key, leader, token, seen, fails, sched, faults>>

\* kv.create of the key; any failure leads to the read.
Create(p) ==
    /\ pc[p] = "create"
    /\ \/ /\ Absent /\ Write(draft[p], Lease - age[p]) /\ Won(p) /\ NoFault
          /\ UNCHANGED age
       \/ /\ \/ ~Absent /\ NoFault /\ UNCHANGED <<key, seen>>
             \/ Absent /\ Fault /\ UNCHANGED <<key, seen>>
             \/ Absent /\ Fault /\ Write(draft[p], Lease - age[p])
          /\ Call(p, "read")
          /\ UNCHANGED <<leader, token, draft, age, fails, sched>>

\* expires_at <= now, with the "now" taken before the create.
Expired(p) == key.left + age[p] <= 0

ReadKey(p) ==
    /\ pc[p] = "read"
    /\ \/ /\ Absent \/ Expired(p)
          /\ Read(p, IF Absent THEN "absent" ELSE "current")
          /\ Call(p, "steal") /\ NoFault
          /\ UNCHANGED <<leader, token, draft, fails, sched>>
       \/ /\ ~Absent /\ ~Expired(p) /\ Lost(p) /\ NoFault
          /\ UNCHANGED seen
       \/ Fault /\ Lost(p) /\ UNCHANGED seen
    /\ UNCHANGED <<key, age>>

Steal(p) ==
    /\ pc[p] = "steal"
    /\ \/ RevisionHolds(p) /\ Write(draft[p], Lease - age[p]) /\ Won(p) /\ NoFault
       \/ RevisionHolds(p) /\ Write(draft[p], Lease - age[p]) /\ Lost(p) /\ Fault
       \/ ~RevisionHolds(p) /\ Lost(p) /\ NoFault /\ UNCHANGED <<key, seen>>
       \/ RevisionHolds(p) /\ Lost(p) /\ Fault /\ UNCHANGED <<key, seen>>
    /\ UNCHANGED age

-----------------------------------------------------------------------------
(* _heartbeat_loop *)

Beat(p) ==
    /\ pc[p] = "beat" /\ wait[p] = 0
    /\ Call(p, "check")
    /\ UNCHANGED <<key, leader, token, draft, seen, age, fails, sched, faults>>

\* The key is read: gone or another's means concede; else a payload is made with a new now.
Check(p) ==
    /\ pc[p] = "check"
    /\ \/ /\ key.tok = token[p] /\ Read(p, "current")
          /\ Call(p, "renew") /\ NowIs(p) /\ NoFault
          /\ UNCHANGED <<leader, token, draft, fails, sched>>
       \/ /\ key.tok # token[p] /\ Concede(p) /\ NoFault
          /\ UNCHANGED <<seen, age>>
       \/ Fault /\ RenewalFailed(p) /\ UNCHANGED <<seen, age>>
    /\ UNCHANGED key

Renew(p) ==
    /\ pc[p] = "renew"
    /\ \/ /\ RevisionHolds(p) /\ Write(token[p], Lease - age[p]) /\ NoFault
          /\ fails' = [fails EXCEPT ![p] = 0]
          /\ Sleep(p, "beat", Interval)
          /\ UNCHANGED <<leader, token, draft, sched>>
       \/ RevisionHolds(p) /\ Write(token[p], Lease - age[p]) /\ Fault /\ RenewalFailed(p)
       \/ ~RevisionHolds(p) /\ RenewalFailed(p) /\ NoFault /\ UNCHANGED <<key, seen>>
       \/ RevisionHolds(p) /\ RenewalFailed(p) /\ Fault /\ UNCHANGED <<key, seen>>
    /\ UNCHANGED age

\* _pause_jobs_on_leadership_lost: the scheduler pauses, the reclaim loop starts.
Pause(p) ==
    /\ pc[p] = "conceding"
    /\ sched' = [sched EXCEPT ![p] = "paused"]
    /\ Sleep(p, "reclaim", Interval)
    /\ UNCHANGED <<key, leader, token, draft, seen, age, fails, faults>>

-----------------------------------------------------------------------------
(* stop_job_leader, and a process that dies *)

\* Shutdown: the scheduler stops, both tasks are cancelled, a lease still held is given back.
Stop(p) ==
    /\ pc[p] \notin {"down", "conceding", "release", "delete"} /\ Fault
    /\ leader' = [leader EXCEPT ![p] = FALSE]
    /\ draft' = [draft EXCEPT ![p] = None]
    /\ fails' = [fails EXCEPT ![p] = 0]
    /\ sched' = [sched EXCEPT ![p] = "stopped"]
    /\ IF token[p] = None THEN Sleep(p, "down", 0) ELSE Call(p, "release")
    /\ UNCHANGED <<key, token, seen, age>>

Gone(p) == token' = [token EXCEPT ![p] = None] /\ Sleep(p, "down", 0)

Release(p) ==
    /\ pc[p] = "release"
    /\ \/ /\ key.tok = token[p] /\ Read(p, "current")
          /\ Call(p, "delete") /\ NoFault /\ UNCHANGED token
       \/ key.tok # token[p] /\ Gone(p) /\ NoFault /\ UNCHANGED seen
       \/ Fault /\ Gone(p) /\ UNCHANGED seen
    /\ UNCHANGED <<key, leader, draft, age, fails, sched>>

\* kv.delete with last=revision; whatever happens the process goes away.
Delete(p) ==
    /\ pc[p] = "delete" /\ Gone(p)
    /\ \/ RevisionHolds(p) /\ key' = NoKey /\ NewRevision /\ NoFault
       \/ ~RevisionHolds(p) /\ UNCHANGED <<key, seen>> /\ NoFault
       \/ RevisionHolds(p) /\ UNCHANGED <<key, seen>> /\ Fault
    /\ UNCHANGED <<leader, draft, age, fails, sched>>

Crash(p) ==
    /\ pc[p] # "down" /\ Fault
    /\ leader' = [leader EXCEPT ![p] = FALSE]
    /\ draft' = [draft EXCEPT ![p] = None]
    /\ fails' = [fails EXCEPT ![p] = 0]
    /\ sched' = [sched EXCEPT ![p] = "stopped"]
    /\ Gone(p)
    /\ UNCHANGED <<key, seen, age>>

\* A second passes: no sleep is overslept, no call outlasts CallTime.
Tick ==
    /\ \A p \in Procs : /\ pc[p] \in Sleeping \cup Calling => wait[p] > 0
                        /\ pc[p] # "conceding"
    /\ key' = [key EXCEPT !.left = IF Absent \/ @ = -MaxAge THEN @ ELSE @ - 1]
    /\ wait' = [p \in Procs |-> IF pc[p] = "down" THEN 0 ELSE wait[p] - 1]
    /\ age' = [p \in Procs |-> IF pc[p] \in {"create", "read", "steal", "renew"}
                               THEN age[p] + 1 ELSE 0]
    /\ UNCHANGED <<pc, leader, token, draft, seen, fails, sched, faults>>

\* Steps of a running process.
Step(p) == \/ pc[p] # "down" /\ Try(p)
           \/ Create(p) \/ ReadKey(p) \/ Steal(p)
           \/ Beat(p) \/ Check(p) \/ Renew(p) \/ Pause(p)
           \/ Release(p) \/ Delete(p)

Start(p) == pc[p] = "down" /\ Try(p)

Next == \/ \E p \in Procs : Step(p) \/ Start(p) \/ Stop(p) \/ Crash(p)
        \/ Tick

Spec == Init /\ [][Next]_vars

\* The event loop of every process runs and time passes.
Fairness == WF_vars(Tick) /\ \A p \in Procs : WF_vars(Step(p))

FairSpec == Spec /\ Fairness

-----------------------------------------------------------------------------
(* Properties *)

TypeOK ==
    /\ key \in [tok : Tokens \cup {None}, left : (-MaxAge)..Lease]
    /\ pc \in [Procs -> Steps]
    /\ leader \in [Procs -> BOOLEAN]
    /\ token \in [Procs -> Tokens \cup {None}]
    /\ draft \in [Procs -> Tokens \cup {None}]
    /\ seen \in [Procs -> {"current", "stale", "absent"}]
    /\ wait \in [Procs -> Nat] /\ age \in [Procs -> Nat]
    /\ fails \in [Procs -> 0..(MaxRetries - 1)]
    /\ sched \in [Procs -> {"stopped", "running", "paused"}]
    /\ faults \in 0..MaxFaults

\* The scheduled jobs have a single runner: at no moment are the schedulers of two processes
\* running, whatever calls fail and whoever stops or dies.
OneScheduler ==
    \A p, q \in Procs : sched[p] = "running" /\ sched[q] = "running" => p = q

\* A lease that has time left is never taken over: a renewal that lands between a
\* challenger's read and its write makes that write fail.
TakenOnlyExpired ==
    [][key.tok # None /\ key'.tok \notin {key.tok, None} => key.left <= 0]_vars

\* Once processes stay up and calls stop failing, some process runs the jobs again and again:
\* an abandoned lease expires and nobody's reclaim loop gets stuck.
SchedulerRecovers ==
    \A p \in Procs :
        <>[](pc[p] \notin {"down", "release", "delete"}) =>
            []<>(\E q \in Procs : leader[q] /\ sched[q] = "running")

\* The lease in the key and the schedulers that run under it.
Running == {p \in Procs : sched[p] = "running"}

L == INSTANCE JobLease WITH Slack <- MaxAge, holders <- Running, left <- key.left

\* The election implements a lease: a scheduler is only started on a lease that nobody else
\* can hold, and it is paused or stopped before that lease runs out.
LeaseKept == L!Spec
=============================================================================
