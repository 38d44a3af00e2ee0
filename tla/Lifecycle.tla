----------------------------- MODULE Lifecycle ------------------------------
(***************************************************************************)
(* The lifecycle document of one node: NatsNodeLifecycleCoordinator of     *)
(* app/node/nats_memory.py, and the health checks of                       *)
(* app/jobs/node_checker.py that report into it.                           *)
(*                                                                         *)
(* A start or stop acquires the lease with a new epoch, keeps it alive     *)
(* with heartbeats and releases it.  A check reads the epoch and reports   *)
(* with it what it observes; an attachment observes the node after that    *)
(* read, the periodic health check before it.  Every call reads the        *)
(* document and writes it back if its revision is still the one that was   *)
(* read; a write that seems to have failed is tried again from the read.   *)
(***************************************************************************)
EXTENDS Integers

CONSTANTS
    Tasks,      \* lifecycle operations and checks of the node, in any process
    MaxGrants,  \* bound: leases
    MaxClears,  \* bound: removals of the document
    MaxLost     \* bound: writes whose answer is lost

ASSUME LifecycleAssumption == MaxGrants \in Nat /\ MaxClears \in Nat /\ MaxLost \in Nat

VARIABLES
    doc,      \* epoch, the lease (0 is none) and whether it is over, what was observed last
    task,     \* task[t]: its call, its epoch and lease, and the document it has read
    grants,   \* leases so far; the number stands for the token
    clears, lost

lifecycleVars == <<doc, task, grants, clears, lost>>

Observed  == {"unknown", "starting", "stopping", "healthy", "broken"}
CallNames == {"acquire", "beat", "release", "report", "clear"}

NoDoc == [epoch |-> 0, lease |-> 0, over |-> FALSE, observed |-> "unknown"]
Idle  == [at |-> "idle", epoch |-> 0, lease |-> 0, born |-> 0, seen |-> "no"]

LifecycleInit ==
    /\ doc = NoDoc
    /\ task = [t \in Tasks |-> Idle]
    /\ grants = 0 /\ clears = 0 /\ lost = 0

-----------------------------------------------------------------------------
(* Calls *)

Calls(t, what) == task' = [task EXCEPT ![t].at = what, ![t].seen = "no"]
Ends(t)        == task' = [task EXCEPT ![t] = Idle]

\* The read of a call, which goes on if the document allows it.
Reads(t, what, allowed) ==
    /\ task[t].at = what /\ task[t].seen = "no"
    /\ IF allowed THEN task' = [task EXCEPT ![t].seen = "current"] ELSE Ends(t)
    /\ UNCHANGED <<doc, grants, clears, lost>>

\* Mutant of DocumentHolds: the write names no revision.
AnyDocument(t) == task[t].seen # "no"

DocumentHolds(t) == task[t].seen = "current"

\* The write of a call lands: the documents that others have read are no longer current.
Lands(t, what, d, after) ==
    /\ task[t].at = what /\ DocumentHolds(t)
    /\ doc' = d
    /\ task' = [u \in Tasks |->
          IF u = t THEN after ELSE [task[u] EXCEPT !.seen = IF @ = "current" THEN "stale" ELSE @]]

\* Its answer may be lost: it is taken for a failed write and the call starts again.
Writes(t, what, d, after) ==
    \/ Lands(t, what, d, after) /\ UNCHANGED lost
    \/ Lands(t, what, d, [task[t] EXCEPT !.seen = "no"]) /\ lost < MaxLost /\ lost' = lost + 1

\* kv_cas_json is refused: the call starts again, unless it has done so often enough.
Refused(t) ==
    /\ task[t].seen = "stale"
    /\ Ends(t) \/ (task[t].at # "clear" /\ Calls(t, task[t].at))
    /\ UNCHANGED <<doc, grants, clears, lost>>

-----------------------------------------------------------------------------
(* Operations *)

Begin(t, what) ==
    /\ task[t].at = "idle" /\ Calls(t, what)
    /\ UNCHANGED <<doc, grants, clears, lost>>

\* try_acquire.
ReadsFree(t) == Reads(t, "acquire", doc.lease = 0 \/ doc.over)

\* Mutant of NextEpoch: a new lease goes on with the epoch of the last one.
SameEpoch == IF doc.epoch = 0 THEN 1 ELSE doc.epoch

NextEpoch == doc.epoch + 1

Acquires(t) ==
    /\ grants < MaxGrants /\ grants' = grants + 1
    /\ \E observed \in {"starting", "stopping", doc.observed} :
           Writes(t, "acquire",
                  [epoch |-> NextEpoch, lease |-> grants', over |-> FALSE, observed |-> observed],
                  [at |-> "held", epoch |-> NextEpoch, lease |-> grants', born |-> grants',
                   seen |-> "no"])
    /\ UNCHANGED clears

\* The holder, which may find that its lease is somebody else's.
Holds(t, what) ==
    /\ task[t].at = "held" /\ Calls(t, what)
    /\ UNCHANGED <<doc, grants, clears, lost>>

ReadsOwn(t, what) == Reads(t, what, doc.lease = task[t].lease)

\* heartbeat.
Beats(t) ==
    /\ Writes(t, "beat", [doc EXCEPT !.over = FALSE], [task[t] EXCEPT !.at = "held", !.seen = "no"])
    /\ UNCHANGED <<grants, clears>>

\* release, with the state the operation ends in.
Releases(t) ==
    /\ \E observed \in Observed :
           Writes(t, "release",
                  [epoch |-> task[t].epoch, lease |-> 0, over |-> FALSE, observed |-> observed],
                  Idle)
    /\ UNCHANGED <<grants, clears>>

\* get_state of a check; its report comes as late as the calls to the node in between take.
ReadsState(t) ==
    /\ task[t].at = "idle" /\ doc.epoch > 0
    /\ task' = [task EXCEPT ![t] = [Idle EXCEPT !.at = "report", !.epoch = doc.epoch,
                                                !.born = grants]]
    /\ UNCHANGED <<doc, grants, clears, lost>>

\* update_observed with the epoch that was read.
ReadsEpoch(t) == Reads(t, "report", doc.epoch = task[t].epoch)

Reports(t) ==
    /\ \E observed \in {"healthy", "broken"} :
           Writes(t, "report", [doc EXCEPT !.observed = observed], Idle)
    /\ UNCHANGED <<grants, clears>>

\* clear, when the node is removed or set up anew: one attempt.
ReadsAny(t) == Reads(t, "clear", doc.epoch > 0)

Clears(t) ==
    /\ clears < MaxClears /\ clears' = clears + 1
    /\ Lands(t, "clear", NoDoc, Idle)
    /\ UNCHANGED <<grants, lost>>

\* A call raises, or the process of the task ends.
Dies(t) ==
    /\ task[t].at # "idle" /\ Ends(t)
    /\ UNCHANGED <<doc, grants, clears, lost>>

\* expires_at passes.
LeaseEnds ==
    /\ doc.lease # 0 /\ ~doc.over
    /\ doc' = [doc EXCEPT !.over = TRUE]
    /\ UNCHANGED <<task, grants, clears, lost>>

LifecycleNext ==
    \/ \E t \in Tasks :
          \/ Begin(t, "acquire") \/ ReadsFree(t) \/ Acquires(t)
          \/ Holds(t, "beat") \/ ReadsOwn(t, "beat") \/ Beats(t)
          \/ Holds(t, "release") \/ ReadsOwn(t, "release") \/ Releases(t)
          \/ ReadsState(t) \/ ReadsEpoch(t) \/ Reports(t)
          \/ Begin(t, "clear") \/ ReadsAny(t) \/ Clears(t)
          \/ Refused(t) \/ Dies(t)
    \/ LeaseEnds

LifecycleSpec == LifecycleInit /\ [][LifecycleNext]_lifecycleVars

-----------------------------------------------------------------------------
(* Properties *)

LifecycleTypeOK ==
    /\ doc \in [epoch : 0..MaxGrants, lease : 0..MaxGrants, over : BOOLEAN, observed : Observed]
    /\ task \in [Tasks -> [at : {"idle", "held"} \cup CallNames, epoch : 0..MaxGrants,
                           lease : 0..MaxGrants, born : 0..MaxGrants,
                           seen : {"no", "current", "stale"}]]
    /\ grants \in 0..MaxGrants /\ clears \in 0..MaxClears /\ lost \in 0..MaxLost

\* What is overtaken stays silent: as long as the node is not removed, a heartbeat or a release
\* changes the document only for the lease acquired last, and a report only if no lease was
\* acquired since the check read the epoch, whatever expires, is retried or loses its answer.
OvertakenSilent ==
    [][\A t \in Tasks :
          (Beats(t) \/ Releases(t) \/ Reports(t)) /\ clears = 0 => task[t].born = grants
      ]_lifecycleVars
=============================================================================
