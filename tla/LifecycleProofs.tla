-------------------------- MODULE LifecycleProofs ---------------------------
(***************************************************************************)
(* What is overtaken by a later lease stays silent, for any number of      *)
(* tasks, leases, lost answers and processes that die.                     *)
(*                                                                         *)
(* As long as the document is not removed its epoch counts the leases.     *)
(* Who holds a lease carries its number as epoch and token, and a check    *)
(* the number of leases there were when it read the epoch; a document that *)
(* is still current still says what allowed the call that read it.         *)
(***************************************************************************)
EXTENDS Lifecycle, TLAPS

DocType  == [epoch : 0..MaxGrants, lease : 0..MaxGrants, over : BOOLEAN, observed : Observed]
TaskType == [at : {"idle", "held"} \cup CallNames, epoch : 0..MaxGrants, lease : 0..MaxGrants,
             born : 0..MaxGrants, seen : {"no", "current", "stale"}]

\* The numbers task r carries.
Numbered(r) ==
    /\ r.at \in {"held", "beat", "release"} => r.born > 0 /\ r.lease = r.born /\ r.epoch = r.born
    /\ r.at = "report" => r.born = r.epoch

\* What task r has read and is still current allows its call.
Allowed(r) ==
    /\ r.seen = "current" /\ r.at \in {"beat", "release"} => doc.lease = r.lease
    /\ r.seen = "current" /\ r.at = "report" => doc.epoch = r.epoch

Fits(r) == r.epoch <= grants /\ (clears = 0 => Numbered(r) /\ Allowed(r))

Counted(d) == d.epoch <= grants /\ (clears = 0 => d.epoch = grants /\ d.lease \in {0, grants})

Counters == grants \in 0..MaxGrants /\ clears \in 0..MaxClears /\ lost \in 0..MaxLost

LifecycleInv ==
    /\ Counters /\ doc \in DocType /\ task \in [Tasks -> TaskType]
    /\ Counted(doc)
    /\ \A t \in Tasks : Fits(task[t])

LEMMA InvTypes == LifecycleInv => LifecycleTypeOK
  BY DEF LifecycleInv, LifecycleTypeOK, Counters, DocType, TaskType

-----------------------------------------------------------------------------
(* The two kinds of steps *)

\* A step that writes nothing and leaves task t with the record r.
LEMMA QuietStep ==
    ASSUME LifecycleInv, NEW t \in Tasks, NEW r \in TaskType, Fits(r),
           task' = [task EXCEPT ![t] = r], UNCHANGED <<doc, grants, clears, lost>>
    PROVE  LifecycleInv'
  BY DEF LifecycleInv, Counters, Counted, Fits, Numbered, Allowed

\* A write of task t that lands.
LEMMA WriteStep ==
    ASSUME LifecycleAssumption, LifecycleInv, Counters', grants <= grants', clears <= clears',
           NEW t \in Tasks, NEW what, NEW d \in DocType, NEW r \in TaskType, Lands(t, what, d, r),
           d.epoch <= grants', clears' = 0 => d.epoch = grants' /\ d.lease \in {0, grants'},
           r.seen = "no", r.epoch <= grants', clears' = 0 => Numbered(r)
    PROVE  LifecycleInv'
  <1>1. doc' \in DocType /\ Counted(doc)'
    BY DEF Lands, Counted
  <1>2. ASSUME NEW u \in Tasks PROVE task'[u] \in TaskType /\ Fits(task[u])'
    <2>1. CASE u = t
      BY <2>1 DEF Lands, Fits, Numbered, Allowed
    <2>2. CASE u # t
      <3>1. /\ task[u] \in TaskType /\ Fits(task[u]) /\ task'[u].seen # "current"
            /\ task'[u] = [task[u] EXCEPT !.seen = task'[u].seen]
            /\ task'[u].seen \in {"no", "current", "stale"}
        BY <2>2 DEF Lands, LifecycleInv, TaskType
      <3>2. task'[u] \in TaskType /\ Numbered(task'[u]) = Numbered(task[u])
        BY <3>1 DEF TaskType, Numbered
      <3>3. task[u].epoch = task'[u].epoch /\ task[u].epoch \in Int
        BY <3>1 DEF TaskType
      <3>q. QED
        BY <3>1, <3>2, <3>3 DEF Fits, Allowed, Counters, LifecycleInv, Numbered
    <2>q. QED
      BY <2>1, <2>2
  <1>3. task' \in [Tasks -> TaskType]
    BY <1>2 DEF Lands
  <1>q. QED
    BY <1>1, <1>2, <1>3 DEF LifecycleInv

\* A write whose answer arrives or is lost.
LEMMA AnsweredStep ==
    ASSUME LifecycleAssumption, LifecycleInv, grants' \in grants..MaxGrants, UNCHANGED clears,
           NEW t \in Tasks, NEW what \in CallNames, NEW d \in DocType, NEW r \in TaskType,
           Writes(t, what, d, r), d.epoch <= grants',
           clears = 0 => d.epoch = grants' /\ d.lease \in {0, grants'},
           r.seen = "no", r.epoch <= grants', clears = 0 => Numbered(r)
    PROVE  LifecycleInv'
  <1>1. Counters' /\ grants <= grants' /\ clears <= clears'
    BY DEF LifecycleInv, Counters, Writes, LifecycleAssumption
  <1>2. clears' = 0 => d.epoch = grants' /\ d.lease \in {0, grants'}
    OBVIOUS
  <1>3. CASE Lands(t, what, d, r)
    BY <1>1, <1>2, <1>3, WriteStep
  <1>4. CASE Lands(t, what, d, [task[t] EXCEPT !.seen = "no"])
    <2> DEFINE again == [task[t] EXCEPT !.seen = "no"]
    <2>1. again \in TaskType /\ again.seen = "no" /\ again.epoch = task[t].epoch
      BY DEF LifecycleInv, TaskType
    <2>2. Fits(task[t]) /\ task[t].epoch \in Int /\ grants \in Int
      BY DEF LifecycleInv, TaskType, Counters
    <2>3. again.epoch <= grants' /\ (clears' = 0 => Numbered(again))
      BY <1>1, <2>1, <2>2 DEF Fits, Numbered, LifecycleInv, TaskType, Counters
    <2>q. QED
      BY <1>1, <1>2, <1>4, <2>1, <2>3, WriteStep
  <1>q. QED
    BY <1>3, <1>4 DEF Writes

-----------------------------------------------------------------------------
(* The operations *)

\* What a task is and does next fits if its call was allowed.
LEMMA TaskFacts ==
    ASSUME LifecycleInv, NEW t \in Tasks
    PROVE  /\ task[t] \in TaskType /\ Fits(task[t]) /\ doc \in DocType /\ Counted(doc)
           /\ Idle \in TaskType /\ Fits(Idle)
  <1>1. task[t] \in TaskType /\ Fits(task[t]) /\ doc \in DocType /\ Counted(doc)
    BY DEF LifecycleInv
  <1>2. Idle \in TaskType
    BY LifecycleAssumption DEF LifecycleAssumption, LifecycleInv, TaskType, Idle, Counters,
                              CallNames
  <1>3. Fits(Idle)
    BY DEF LifecycleInv, Idle, Fits, Numbered, Allowed, Counters
  <1>q. QED
    BY <1>1, <1>2, <1>3

\* Reads, refusals, new calls and tasks that die.
LEMMA QuietSteps ==
    ASSUME LifecycleAssumption, LifecycleInv, NEW t \in Tasks,
           \/ Begin(t, "acquire") \/ Begin(t, "clear") \/ Holds(t, "beat") \/ Holds(t, "release")
           \/ ReadsFree(t) \/ ReadsOwn(t, "beat") \/ ReadsOwn(t, "release")
           \/ ReadsState(t) \/ ReadsEpoch(t) \/ ReadsAny(t) \/ Refused(t) \/ Dies(t)
    PROVE  LifecycleInv'
  <1>1. UNCHANGED <<doc, grants, clears, lost>>
    BY DEF Begin, Holds, ReadsFree, ReadsOwn, ReadsState, ReadsEpoch, ReadsAny, Refused, Dies, Reads
  <1>2. CASE task' = [task EXCEPT ![t] = Idle]
    BY <1>1, <1>2, TaskFacts, QuietStep
  <1>3. CASE Begin(t, "acquire") \/ Begin(t, "clear")
             \/ Holds(t, "beat") \/ Holds(t, "release")
    <2>1. PICK what \in CallNames : /\ task' = [task EXCEPT ![t] = [task[t] EXCEPT !.at = what,
                                                                                 !.seen = "no"]]
                                    /\ \/ what \in {"acquire", "clear"}
                                       \/ what \in {"beat", "release"} /\ task[t].at = "held"
      BY <1>3, TaskFacts DEF Begin, Holds, Calls, CallNames, LifecycleInv
    <2> DEFINE r == [task[t] EXCEPT !.at = what, !.seen = "no"]
    <2>2. r \in TaskType /\ Fits(r)
      BY <2>1, TaskFacts DEF TaskType, Fits, Numbered, Allowed
    <2>q. QED
      BY <1>1, <2>1, <2>2, QuietStep
  <1>4. CASE Refused(t)
    <2> DEFINE r == [task[t] EXCEPT !.at = task[t].at, !.seen = "no"]
    <2>1. r \in TaskType /\ Fits(r)
      BY TaskFacts DEF TaskType, Fits, Numbered, Allowed
    <2>2. task' = [task EXCEPT ![t] = r] \/ task' = [task EXCEPT ![t] = Idle]
      BY <1>4 DEF Refused, Calls, Ends, LifecycleInv
    <2>q. QED
      BY <1>1, <1>2, <2>1, <2>2, QuietStep
  <1>5. CASE ReadsState(t)
    <2> DEFINE r == [Idle EXCEPT !.at = "report", !.epoch = doc.epoch, !.born = grants]
    <2>1. r \in TaskType /\ Fits(r)
      BY TaskFacts DEF TaskType, DocType, CallNames, Counted, Fits, Numbered, Allowed, Idle,
                       LifecycleInv, Counters
    <2>q. QED
      BY <1>1, <1>5, <2>1, QuietStep DEF ReadsState
  <1>6. CASE ReadsFree(t) \/ ReadsOwn(t, "beat") \/ ReadsOwn(t, "release")
             \/ ReadsEpoch(t) \/ ReadsAny(t)
    <2> DEFINE r == [task[t] EXCEPT !.seen = "current"]
    <2>1. CASE task' = [task EXCEPT ![t] = r] /\ Allowed(r)
      <3>1. r \in TaskType /\ Fits(r)
        BY <2>1, TaskFacts DEF TaskType, Fits, Numbered
      <3>q. QED
        BY <1>1, <2>1, <3>1, QuietStep
    <2>2. \/ task' = [task EXCEPT ![t] = Idle]
          \/ task' = [task EXCEPT ![t] = r] /\ Allowed(r)
      BY <1>6, TaskFacts DEF ReadsFree, ReadsOwn, ReadsEpoch, ReadsAny, Reads, Ends, Allowed,
                             LifecycleInv, TaskType
    <2>q. QED
      BY <1>2, <2>1, <2>2
  <1>q. QED
    BY <1>2, <1>3, <1>4, <1>5, <1>6 DEF Dies, Ends

\* Writes.
LEMMA WritingSteps ==
    ASSUME LifecycleAssumption, LifecycleInv, NEW t \in Tasks,
           Acquires(t) \/ Beats(t) \/ Releases(t) \/ Reports(t) \/ Clears(t)
    PROVE  LifecycleInv'
  <1> USE TaskFacts
  <1>1. CASE Acquires(t)
    <2>1. PICK observed \in {"starting", "stopping", doc.observed} :
             Writes(t, "acquire",
                    [epoch |-> NextEpoch, lease |-> grants', over |-> FALSE, observed |-> observed],
                    [at |-> "held", epoch |-> NextEpoch, lease |-> grants', born |-> grants',
                     seen |-> "no"])
      BY <1>1 DEF Acquires
    <2> DEFINE d == [epoch |-> NextEpoch, lease |-> grants', over |-> FALSE, observed |-> observed]
               r == [at |-> "held", epoch |-> NextEpoch, lease |-> grants', born |-> grants',
                     seen |-> "no"]
    <2>2. /\ grants' = grants + 1 /\ grants' \in grants..MaxGrants /\ UNCHANGED clears
          /\ NextEpoch <= grants' /\ NextEpoch \in 0..MaxGrants /\ grants' \in 0..MaxGrants
          /\ clears = 0 => NextEpoch = grants' /\ grants' > 0
      BY <1>1 DEF Acquires, NextEpoch, Counted, DocType, LifecycleInv, Counters,
                  LifecycleAssumption
    <2>3. d \in DocType /\ d.epoch = NextEpoch /\ d.lease = grants'
      BY <2>2 DEF DocType, Observed
    <2>4. r \in TaskType /\ r.seen = "no" /\ r.epoch = NextEpoch /\ (clears = 0 => Numbered(r))
      BY <2>2 DEF TaskType, Numbered
    <2>q. QED
      BY <2>1, <2>2, <2>3, <2>4, AnsweredStep DEF CallNames
  <1>2. CASE Beats(t)
    <2> DEFINE d == [doc EXCEPT !.over = FALSE]
               r == [task[t] EXCEPT !.at = "held", !.seen = "no"]
    <2>1. Writes(t, "beat", d, r) /\ UNCHANGED <<grants, clears>> /\ task[t].at = "beat"
      BY <1>2 DEF Beats, Writes, Lands
    <2>2. d \in DocType /\ d.epoch = doc.epoch /\ d.lease = doc.lease
      BY DEF DocType
    <2>3. r \in TaskType /\ r.seen = "no" /\ r.epoch = task[t].epoch /\ (clears = 0 => Numbered(r))
      BY <2>1 DEF TaskType, Numbered, Fits
    <2>4. grants' \in grants..MaxGrants /\ d.epoch <= grants' /\ r.epoch <= grants'
          /\ (clears = 0 => d.epoch = grants' /\ d.lease \in {0, grants'})
      BY <2>1, <2>2, <2>3 DEF Fits, Counted, LifecycleInv, Counters
    <2>q. QED
      BY <2>1, <2>2, <2>3, <2>4, AnsweredStep DEF CallNames
  <1>3. CASE Releases(t)
    <2>1. PICK observed \in Observed :
             Writes(t, "release",
                    [epoch |-> task[t].epoch, lease |-> 0, over |-> FALSE, observed |-> observed],
                    Idle)
      BY <1>3 DEF Releases
    <2> DEFINE d == [epoch |-> task[t].epoch, lease |-> 0, over |-> FALSE, observed |-> observed]
    <2>2. UNCHANGED <<grants, clears>> /\ task[t].at = "release" /\ task[t].seen = "current"
      BY <1>3 DEF Releases, Writes, Lands, DocumentHolds
    <2>3. d \in DocType /\ d.epoch = task[t].epoch /\ d.lease = 0
      BY DEF DocType, TaskType, LifecycleInv, Counters
    <2>4. clears = 0 => task[t].epoch = grants
      BY <2>2 DEF Fits, Numbered, Allowed, Counted, LifecycleInv, Counters, TaskType
    <2>5. Idle.seen = "no" /\ Idle.epoch = 0 /\ Numbered(Idle)
      BY DEF Idle, Numbered
    <2>q. QED
      BY <2>1, <2>2, <2>3, <2>4, <2>5, AnsweredStep DEF CallNames, Fits, LifecycleInv, Counters
  <1>4. CASE Reports(t)
    <2>1. PICK observed \in {"healthy", "broken"} :
             Writes(t, "report", [doc EXCEPT !.observed = observed], Idle)
      BY <1>4 DEF Reports
    <2> DEFINE d == [doc EXCEPT !.observed = observed]
    <2>2. UNCHANGED <<grants, clears>>
      BY <1>4 DEF Reports
    <2>3. d \in DocType /\ d.epoch = doc.epoch /\ d.lease = doc.lease
      BY DEF DocType, Observed
    <2>4. Idle.seen = "no" /\ Idle.epoch = 0 /\ Numbered(Idle)
      BY DEF Idle, Numbered
    <2>5. grants' \in grants..MaxGrants /\ d.epoch <= grants' /\ Idle.epoch <= grants'
          /\ (clears = 0 => d.epoch = grants' /\ d.lease \in {0, grants'})
      BY <2>2, <2>3, <2>4 DEF Counted, LifecycleInv, Counters
    <2>q. QED
      BY <2>1, <2>2, <2>3, <2>4, <2>5, AnsweredStep DEF CallNames
  <1>5. CASE Clears(t)
    <2>1. Lands(t, "clear", NoDoc, Idle) /\ UNCHANGED <<grants, lost>> /\ clears' = clears + 1
          /\ clears < MaxClears
      BY <1>5 DEF Clears
    <2>2. Counters' /\ grants <= grants' /\ clears <= clears' /\ clears' # 0
      BY <2>1 DEF LifecycleInv, Counters, LifecycleAssumption
    <2>3. NoDoc \in DocType /\ NoDoc.epoch <= grants'
      BY <2>1 DEF NoDoc, DocType, Observed, LifecycleInv, Counters
    <2>4. Idle.seen = "no" /\ Idle.epoch <= grants'
      BY <2>1 DEF Idle, LifecycleInv, Counters
    <2>q. QED
      BY <2>1, <2>2, <2>3, <2>4, WriteStep
  <1>q. QED
    BY <1>1, <1>2, <1>3, <1>4, <1>5

LEMMA InvStart == LifecycleAssumption /\ LifecycleInit => LifecycleInv
  BY DEF LifecycleAssumption, LifecycleInit, LifecycleInv, Counters, DocType, TaskType, NoDoc,
         Idle, Observed, Counted, Fits, Numbered, Allowed

LEMMA InvStep ==
    ASSUME LifecycleAssumption, LifecycleInv, [LifecycleNext]_lifecycleVars
    PROVE  LifecycleInv'
  <1>1. CASE LeaseEnds
    BY <1>1 DEF LeaseEnds, LifecycleInv, Counters, DocType, Counted, Fits, Numbered, Allowed
  <1>2. CASE UNCHANGED lifecycleVars
    BY <1>2 DEF lifecycleVars, LifecycleInv, Counters, Counted, Fits, Numbered, Allowed
  <1>q. QED
    BY <1>1, <1>2, QuietSteps, WritingSteps DEF LifecycleNext

-----------------------------------------------------------------------------
(* The theorems *)

\* The lifecycle's variables keep their types: no epoch is ahead of the leases, even when the
\* document has been removed and the epochs start again (nats_memory.py, NatsNodeLifecycle).
THEOREM LifecycleTypeCorrect == LifecycleSpec => []LifecycleTypeOK
  <1>q. QED
    BY LifecycleAssumption, InvStart, InvStep, InvTypes, PTL DEF LifecycleSpec

LEMMA SilentStep ==
    ASSUME LifecycleInv, NEW t \in Tasks, Beats(t) \/ Releases(t) \/ Reports(t), clears = 0
    PROVE  task[t].born = grants
  <1>1. task[t].at \in {"beat", "release", "report"} /\ task[t].seen = "current"
    BY DEF Beats, Releases, Reports, Writes, Lands, DocumentHolds
  <1>q. QED
    BY <1>1, TaskFacts DEF Fits, Numbered, Allowed, Counted, TaskType, DocType, LifecycleInv,
                           Counters

\* An operation whose lease was taken over, and a check that read the epoch before the last
\* lease, change nothing as long as the node is not removed (heartbeat, release,
\* update_observed), for any number of tasks, leases and lost answers.
THEOREM OvertakenIsSilent == LifecycleSpec => OvertakenSilent
  <1>1. LifecycleInv /\ [LifecycleNext]_lifecycleVars
          => [\A t \in Tasks : (Beats(t) \/ Releases(t) \/ Reports(t)) /\ clears = 0
                  => task[t].born = grants]_lifecycleVars
    BY SilentStep
  <1>q. QED
    BY <1>1, LifecycleAssumption, InvStart, InvStep, PTL DEF LifecycleSpec, OvertakenSilent
=============================================================================
