---------------------------- MODULE OcSyncProofs ----------------------------
(***************************************************************************)
(* Theorems about OcSync, for every value of its constants.                *)
(***************************************************************************)
EXTENDS OcSync, FiniteSetTheorems, TLAPS

Working == wpc \in {"put", "commit", "delete", "commitDelete", "fail"}
Calling == wpc \in {"put", "commit", "delete", "commitDelete"}

(* External ids never leave their user, and a transaction writes jobs of its user. *)
Owned ==
    /\ \A u \in Users : mapping[u].ext[1] = u
    /\ \A u \in Users : mapping[u].status # "none" => mapping[u].ext \in Ext
    /\ \A i \in JobIds : jobs[i].ext[1] = jobs[i].user
    /\ \A s \in Slots, u \in Users : req[s].plan[u].ext[1] = u
    /\ \A s \in Slots, u \in Users :
          req[s].plan[u].job # 0 =>
              /\ jobs[req[s].plan[u].job].user = u
              /\ jobs[req[s].plan[u].job].status # "free"

(* A loaded job stays pending until the worker itself ends it, and its copy keeps the
   columns that no transaction writes. *)
Loaded ==
    /\ \A i \in DOMAIN copy :
          /\ i \in JobIds
          /\ jobs[i].status = "pending"
          /\ copy[i].user = jobs[i].user
          /\ copy[i].att = jobs[i].att
          /\ copy[i].ext[1] = copy[i].user
    /\ Working => cur \in DOMAIN copy
    /\ Calling => wext \in Ext /\ wext[1] = copy[cur].user
    /\ wpc # "fail" => wanswer \in {"none", "url", "nourl"}

(* Mappings of a removed panel or user are gone for good. *)
Cascaded ==
    /\ panel = "removed" => \A u \in Users : mapping[u].status = "none"
    /\ \A u \in Users : want[u] = "gone" => mapping[u].status = "none"
    /\ \A s \in Slots : req[s].kind = "event" => req[s].want # "gone"

Shape == TypeOK /\ AttemptsBounded /\ Owned /\ Loaded /\ Cascaded

(* What the worker is about to confirm is what OC has. *)
Confirming ==
    /\ wpc = "commit" => remote[wext] = Put(copy[cur])
    /\ (wpc \in {"put", "commit"} /\ ~wrot) =>
          LET u == copy[cur].user IN
          \/ mapping[u].status # "none" /\ mapping[u].ext = wext
          \/ mapping[u].status = "none" /\ (panel = "removed" \/ want[u] = "gone")

(* Nobody has disconnected the Telegram connection or is about to. *)
Connected == conn = TRUE /\ \A s \in Slots : req[s].kind # "disconnect"

AppliedInv == Shape /\ Confirming /\ Connected /\ ActiveMappingApplied

(* Without rotation a user has one external id for ever. *)
OneIdentity ==
    /\ wrot = FALSE
    /\ \A u \in Users : mapping[u].status # "none" => mapping[u].ext = <<u, 1>>
    /\ \A u \in Users : \/ fresh[u] = 0 \/ mapping[u].status # "none"
                        \/ panel = "removed" \/ want[u] = "gone"
    /\ \A i \in JobIds : jobs[i].ext \in {<<jobs[i].user, 0>>, <<jobs[i].user, 1>>}
    /\ \A s \in Slots, u \in Users : req[s].plan[u].ext \in {<<u, 0>>, <<u, 1>>}
    /\ \A i \in DOMAIN copy : copy[i].ext \in {<<copy[i].user, 0>>, <<copy[i].user, 1>>}
    /\ Calling => wext = <<copy[cur].user, 1>>

(* A delete about to be confirmed took effect, and no put is under way for a deleted mapping. *)
GoneCalls ==
    /\ wpc = "commitDelete" => remote[wext] = "absent"
    /\ wpc \in {"put", "commit"} => mapping[copy[cur].user].status # "deleted"

GoneInv == Shape /\ OneIdentity /\ GoneCalls /\ DeletedMappingGone

LEMMA NoneTypes ==
    /\ AnyUser \in Users
    /\ \A u \in Users : NoExt(u) \in Ext0 /\ NoExt(u)[1] = u
    /\ \A u \in Users : NoMapping(u) \in Mapping
    /\ NoJob \in Job /\ NoSnap \in Snap
    /\ \A u \in Users : NoPlan(u) \in Plan
    /\ Idle \in Request
<1>1. AnyUser \in Users
    BY OcSyncAssumption DEF OcSyncAssumption, AnyUser
<1>2. 0 \in 0..MaxExt /\ 0 \in 0..MaxRev /\ 0 \in 0..MaxAttempts /\ 0 \in 0..MaxJobs
    BY OcSyncAssumption DEF OcSyncAssumption
<1>3. \A u \in Users : NoExt(u) \in Ext0 /\ NoExt(u)[1] = u
    BY <1>2 DEF NoExt, Ext0
<1>4. \A u \in Users : NoMapping(u) \in Mapping
    BY <1>3 DEF NoMapping, Mapping
<1>5. NoJob \in Job
    BY <1>1, <1>2, <1>3 DEF NoJob, Job
<1>6. NoSnap \in Snap
    BY <1>1, <1>4 DEF NoSnap, Snap
<1>7. \A u \in Users : NoPlan(u) \in Plan
    BY <1>2, <1>3 DEF NoPlan, Plan
<1>8. Idle \in Request
    BY <1>7 DEF Idle, Request, Wants
<1> QED BY <1>1, <1>3, <1>4, <1>5, <1>6, <1>7, <1>8

(* The worker's own variables, as TypeOK has them. *)
WorkerTypes ==
    /\ wpc \in {"idle", "next", "put", "commit", "delete", "commitDelete", "fail"}
    /\ DOMAIN copy \subseteq JobIds /\ copy \in [DOMAIN copy -> Job]
    /\ cur \in 0..MaxJobs
    /\ wext \in Ext0 /\ wrot \in BOOLEAN /\ wsnap \in Snap
    /\ wanswer \in {"none", "url", "nourl", "retry", "permanent", "inactive"}

LEMMA InitShape == Init => Shape
<1> SUFFICES ASSUME Init PROVE Shape OBVIOUS
<1> USE DEF Init
<1>1. TypeOK
  <2>1. want \in [Users -> Wants] /\ conn \in BOOLEAN
      BY DEF Wants
  <2>2. mapping \in [Users -> Mapping] /\ jobs \in [JobIds -> Job] /\ req \in [Slots -> Request]
      BY NoneTypes
  <2>3. /\ fresh \in [Users -> 0..MaxExt]
        /\ faults \in 0..MaxFaults /\ events \in 0..MaxEvents /\ cur \in 0..MaxJobs
      BY OcSyncAssumption DEF OcSyncAssumption
  <2>4. remote \in [Ext -> Content]
      BY DEF Content
  <2>5. DOMAIN copy \subseteq JobIds /\ copy \in [DOMAIN copy -> Job]
      BY DEF NoCopy
  <2>6. wext \in Ext0 /\ wrot \in BOOLEAN /\ wsnap \in Snap
      BY NoneTypes
  <2> QED BY <2>1, <2>2, <2>3, <2>4, <2>5, <2>6 DEF TypeOK
<1>2. AttemptsBounded
    BY OcSyncAssumption DEF OcSyncAssumption, AttemptsBounded, NoJob
<1>3. Owned
    BY NoneTypes DEF Owned, NoMapping, NoJob, Idle, NoPlan, NoExt
<1>4. Loaded
    BY DEF Loaded, Working, Calling, NoCopy
<1>5. Cascaded
  <2>1. \A u \in Users : NoMapping(u).status = "none"
      BY DEF NoMapping
  <2>2. Idle.kind = "idle"
      BY DEF Idle
  <2> QED BY <2>1, <2>2 DEF Cascaded
<1> QED BY <1>1, <1>2, <1>3, <1>4, <1>5 DEF Shape

-----------------------------------------------------------------------------
(* What a request plans while it reads. *)

LEMMA MayFindJobs ==
    ASSUME TypeOK, NEW u \in Users, NEW j \in MayFind(u)
    PROVE  /\ j \in 0..MaxJobs
           /\ j # 0 => j \in JobIds /\ jobs[j].user = u /\ jobs[j].status = "pending"
BY OcSyncAssumption DEF OcSyncAssumption, TypeOK, MayFind, PendingOf, Pending, JobIds

(* A plan is well formed, concerns ids of its own user and rewrites one of the user's jobs. *)
LEMMA PlanShape ==
    ASSUME TypeOK, Owned, NEW u \in Users, NEW j \in MayFind(u), NEW w \in Wants, NEW kind,
           PlanFor(kind, u, w, j).rev <= MaxRev
    PROVE  LET p == PlanFor(kind, u, w, j) IN
           /\ p \in Plan
           /\ p.ext[1] = u
           /\ p.job # 0 => p.job \in JobIds /\ jobs[p.job].user = u /\ jobs[p.job].status = "pending"
<1>1. /\ j \in 0..MaxJobs
      /\ j # 0 => j \in JobIds /\ jobs[j].user = u /\ jobs[j].status = "pending"
    BY MayFindJobs
<1>2. /\ mapping[u] \in Mapping /\ mapping[u].ext \in Ext0 /\ mapping[u].ext[1] = u
      /\ j # 0 => jobs[j] \in Job /\ jobs[j].rev \in 0..MaxRev
    BY <1>1 DEF TypeOK, Owned, Mapping, Job
<1>3. NoPlan(u) \in Plan /\ NoPlan(u).ext[1] = u /\ NoPlan(u).job = 0
    BY NoneTypes DEF NoPlan, NoExt
<1>4. ASSUME DeletePlan(u, j).rev <= MaxRev
      PROVE  /\ DeletePlan(u, j) \in Plan /\ DeletePlan(u, j).ext[1] = u
             /\ DeletePlan(u, j).job \in {0, j}
    BY <1>1, <1>2, <1>3, <1>4, OcSyncAssumption DEF OcSyncAssumption, DeletePlan, Plan
<1>5. ASSUME NEW c \in Configs, PutPlan(u, c, j).rev <= MaxRev
      PROVE  /\ PutPlan(u, c, j) \in Plan /\ PutPlan(u, c, j).ext[1] = u
             /\ PutPlan(u, c, j).job = j
  <2>1. RotationMarker(u, j) \in BOOLEAN
      BY <1>1, <1>2 DEF RotationMarker, Job
  <2>2. PutOperation(mapping[u]) \in {"create", "update", "delete"}
      BY DEF PutOperation
  <2> QED BY <1>1, <1>2, <1>5, <2>1, <2>2, NoneTypes, OcSyncAssumption
          DEF OcSyncAssumption, PutPlan, Plan
<1> QED BY <1>1, <1>3, <1>4, <1>5 DEF PlanFor, SyncPlan

-----------------------------------------------------------------------------
(* Steps of the worker. *)

(* The variables the worker does not own, as TypeOK has them. *)
OtherTypes ==
    /\ want \in [Users -> Wants]
    /\ panel \in {"connected", "blocked", "removed"} /\ conn \in BOOLEAN
    /\ mapping \in [Users -> Mapping]
    /\ jobs \in [JobIds -> Job]
    /\ fresh \in [Users -> 0..MaxExt]
    /\ req \in [Slots -> Request]
    /\ remote \in [Ext -> Content]
    /\ faults \in 0..MaxFaults /\ events \in 0..MaxEvents

LEMMA TypeParts == TypeOK <=> OtherTypes /\ WorkerTypes
BY DEF TypeOK, OtherTypes, WorkerTypes

(* Leaving job i keeps the rest of the batch as it was. *)
LEMMA DoneKeepsLoaded ==
    ASSUME TypeOK, Loaded, NEW i \in DOMAIN copy, Done(i),
           \A k \in JobIds \ {i} : jobs'[k] = jobs[k]
    PROVE  WorkerTypes' /\ Loaded'
<1>1. /\ copy' = [k \in DOMAIN copy \ {i} |-> copy[k]]
      /\ wpc' \in {"idle", "next"} /\ cur' = 0 /\ wext' = NoExt(AnyUser) /\ wrot' = FALSE
      /\ wsnap' = NoSnap /\ wanswer' = "none"
    BY DEF Done
<1>2. 0 \in 0..MaxJobs
    BY OcSyncAssumption DEF OcSyncAssumption
<1>3. DOMAIN copy \subseteq JobIds /\ copy \in [DOMAIN copy -> Job]
    BY DEF TypeOK
<1>4. WorkerTypes'
    BY <1>1, <1>2, <1>3, NoneTypes DEF WorkerTypes
<1>5. Loaded'
    BY <1>1, <1>3 DEF Loaded, Working, Calling
<1> QED BY <1>4, <1>5

LEMMA DropKeepsLoaded == DropBatch => WorkerTypes' /\ Loaded'
<1> SUFFICES ASSUME DropBatch PROVE WorkerTypes' /\ Loaded' OBVIOUS
<1>1. 0 \in 0..MaxJobs
    BY OcSyncAssumption DEF OcSyncAssumption
<1> QED BY <1>1, NoneTypes DEF DropBatch, NoCopy, WorkerTypes, Loaded, Working, Calling

(* The worker changes the status and the counters of jobs, never whose they are. *)
LEMMA OwnedKept ==
    ASSUME TypeOK, Owned, req' = req,
           \A i \in JobIds : /\ jobs'[i].user = jobs[i].user /\ jobs'[i].ext[1] = jobs[i].user
                             /\ jobs[i].status # "free" => jobs'[i].status # "free",
           \A u \in Users : /\ mapping'[u].ext[1] = u
                            /\ mapping'[u].status # "none" => mapping'[u].ext \in Ext
    PROVE  Owned'
<1>1. \A i \in JobIds : jobs'[i].ext[1] = jobs'[i].user
    BY DEF Owned
<1>2. \A s \in Slots, u \in Users : req[s].plan[u].job # 0 => req[s].plan[u].job \in JobIds
    BY OcSyncAssumption DEF OcSyncAssumption, TypeOK, Request, Plan, JobIds
<1>3. \A s \in Slots, u \in Users :
          req'[s].plan[u].job # 0 =>
              /\ jobs'[req'[s].plan[u].job].user = u
              /\ jobs'[req'[s].plan[u].job].status # "free"
    BY <1>2 DEF Owned
<1> QED BY <1>1, <1>3 DEF Owned

(* A step that only moves the worker on to or through a request. *)
LEMMA CallShape ==
    ASSUME Shape, WorkerTypes', Loaded', UNCHANGED <<want, panel, conn, mapping, jobs, req>>,
           fresh' \in [Users -> 0..MaxExt], remote' \in [Ext -> Content],
           faults' \in 0..MaxFaults, events' = events
    PROVE  Shape'
<1>1. TypeOK'
    BY TypeParts DEF Shape, OtherTypes, TypeOK, WorkerTypes
<1>2. AttemptsBounded' /\ Cascaded'
    BY DEF Shape, AttemptsBounded, Cascaded
<1>3. Owned'
    BY DEF Shape, Owned
<1> QED BY <1>1, <1>2, <1>3 DEF Shape

(* A step that ends job i: with its status, or the attempt counted. *)
LEMMA EndShape ==
    ASSUME Shape, NEW i \in DOMAIN copy, Done(i), NEW j \in Job,
           jobs' = [jobs EXCEPT ![i] = j], j.status # "free",
           j.user = jobs[i].user, j.ext[1] = jobs[i].user,
           j.status = "pending" => j.att < MaxAttempts,
           mapping' \in [Users -> Mapping],
           \A u \in Users : /\ mapping'[u].ext[1] = u
                            /\ mapping'[u].status # "none" => mapping'[u].ext \in Ext
                            /\ mapping[u].status = "none" => mapping'[u].status = "none",
           panel' \in {"connected", "blocked", "removed"},
           panel' = "removed" => panel = "removed",
           UNCHANGED <<want, conn, fresh, req, remote, faults, events>>
    PROVE  Shape'
<1>1. i \in JobIds /\ jobs \in [JobIds -> Job]
    BY DEF Shape, TypeOK
<1>2. WorkerTypes' /\ Loaded'
    BY <1>1, DoneKeepsLoaded DEF Shape
<1>3. TypeOK'
    BY <1>1, <1>2, TypeParts DEF Shape, OtherTypes, TypeOK, WorkerTypes
<1>4. AttemptsBounded'
  <2>1. \A k \in JobIds : k # i => jobs'[k] = jobs[k]
      BY <1>1
  <2>2. jobs'[i] = j
      BY <1>1
  <2>3. j.att <= MaxAttempts
      BY OcSyncAssumption DEF OcSyncAssumption, Job
  <2> QED BY <2>1, <2>2, <2>3 DEF Shape, AttemptsBounded
<1>5. Owned'
  <2>1. \A k \in JobIds : k # i => jobs'[k] = jobs[k]
      BY <1>1
  <2>2. \A k \in JobIds : /\ jobs'[k].user = jobs[k].user /\ jobs'[k].ext[1] = jobs[k].user
                          /\ jobs[k].status # "free" => jobs'[k].status # "free"
      BY <1>1, <2>1 DEF Shape, Owned
  <2> QED BY <2>2, OwnedKept DEF Shape
<1>6. Cascaded'
    BY DEF Shape, Cascaded
<1> QED BY <1>2, <1>3, <1>4, <1>5, <1>6 DEF Shape

(* Facts every step of the worker on a loaded job uses. *)
LEMMA LoadedJob ==
    ASSUME Shape, NEW i \in DOMAIN copy
    PROVE  /\ i \in JobIds /\ jobs[i] \in Job /\ jobs[i].status = "pending"
           /\ jobs[i].att < MaxAttempts /\ jobs[i].ext[1] = jobs[i].user
           /\ copy[i] \in Job /\ copy[i].user = jobs[i].user /\ copy[i].user \in Users
           /\ copy[i].att = jobs[i].att /\ copy[i].ext[1] = copy[i].user
BY DEF Shape, TypeOK, AttemptsBounded, Owned, Loaded, Job

LEMMA MappingTypes ==
    ASSUME Shape
    PROVE  /\ mapping \in [Users -> Mapping]
           /\ \A u \in Users : /\ mapping[u].ext[1] = u /\ mapping[u].ext \in Ext0
                               /\ mapping[u].status # "none" => mapping[u].ext \in Ext
BY DEF Shape, TypeOK, Owned, Mapping

LEMMA BeginShape ==
    ASSUME Shape, NEW i \in JobIds, Begin(i) \/ BeginFails(i)
    PROVE  Shape'
<1> USE DEF IsNext
<1>1. CASE SkipStale(i)
  <2>1. i \in DOMAIN copy
      BY <1>1 DEF SkipStale
  <2> DEFINE j == [jobs[i] EXCEPT !.status = "completed"]
  <2>2. j \in Job /\ j.status = "completed" /\ j.user = jobs[i].user /\ j.ext[1] = jobs[i].user
      BY <2>1, LoadedJob DEF Job
  <2>3. jobs' = [jobs EXCEPT ![i] = j]
      BY <1>1, <2>1, LoadedJob DEF SkipStale, Complete
  <2> HIDE DEF j
  <2> QED BY <1>1, <2>1, <2>2, <2>3, MappingTypes, EndShape DEF SkipStale, Shape, TypeOK
<1>2. CASE SkipUnconnected(i)
  <2>1. i \in DOMAIN copy
      BY <1>2 DEF SkipUnconnected
  <2> DEFINE j == IF Unchanged(i) THEN [jobs[i] EXCEPT !.status = "completed"] ELSE jobs[i]
  <2>2. /\ j \in Job /\ j.status \in {"pending", "completed"} /\ j.user = jobs[i].user
        /\ j.ext[1] = jobs[i].user /\ j.att < MaxAttempts
      BY <2>1, LoadedJob DEF Job
  <2>3. jobs' = [jobs EXCEPT ![i] = j]
      BY <1>2, <2>1, LoadedJob DEF SkipUnconnected, Complete, Shape, TypeOK
  <2> HIDE DEF j
  <2> QED BY <1>2, <2>1, <2>2, <2>3, MappingTypes, EndShape DEF SkipUnconnected, Shape, TypeOK
<1>3. CASE BeginPut(i)
  <2>1. i \in DOMAIN copy
      BY <1>3 DEF BeginPut
  <2>2. /\ mapping[copy[i].user].status # "none"
        /\ mapping[copy[i].user].ext \in Ext /\ mapping[copy[i].user].ext[1] = copy[i].user
        /\ mapping[copy[i].user] \in Mapping
      BY <1>3, <2>1, LoadedJob, MappingTypes DEF BeginPut, IsStale
  <2>3. WorkerTypes'
      BY <1>3, <2>1, <2>2 DEF BeginPut, Shape, TypeOK, WorkerTypes, Snap, Mapping, JobIds
  <2>4. Loaded'
      BY <1>3, <2>1, <2>2 DEF BeginPut, dbVars, Shape, Loaded, Working, Calling
  <2> QED BY <1>3, <2>3, <2>4, CallShape DEF BeginPut, NoFault, dbVars, Shape, TypeOK
<1>4. CASE BeginDelete(i)
  <2>1. i \in DOMAIN copy
      BY <1>4 DEF BeginDelete
  <2>2. copy[i].ext \in Ext /\ copy[i].ext \in Ext0
      BY <1>4, <2>1, LoadedJob, OcSyncAssumption
      DEF OcSyncAssumption, BeginDelete, Job, Ext, Ext0, NoExt
  <2>3. WorkerTypes'
      BY <1>4, <2>1, <2>2 DEF BeginDelete, Shape, TypeOK, WorkerTypes, JobIds
  <2>4. Loaded'
      BY <1>4, <2>1, <2>2, LoadedJob DEF BeginDelete, dbVars, Shape, Loaded, Working, Calling
  <2> QED BY <1>4, <2>3, <2>4, CallShape DEF BeginDelete, NoFault, dbVars, Shape, TypeOK
<1>5. CASE BeginMalformed(i)
  <2>1. WorkerTypes'
      BY <1>5 DEF BeginMalformed, Raise, Shape, TypeOK, WorkerTypes, JobIds
  <2>2. Loaded'
      BY <1>5 DEF BeginMalformed, Raise, dbVars, Shape, Loaded, Working, Calling
  <2> QED BY <1>5, <2>1, <2>2, CallShape DEF BeginMalformed, NoFault, dbVars, Shape, TypeOK
<1>6. CASE BeginFails(i)
  <2>1. WorkerTypes'
      BY <1>6 DEF BeginFails, Raise, Shape, TypeOK, WorkerTypes, JobIds
  <2>2. Loaded'
      BY <1>6 DEF BeginFails, Raise, dbVars, Shape, Loaded, Working, Calling
  <2>3. faults' \in 0..MaxFaults
      BY <1>6, OcSyncAssumption DEF OcSyncAssumption, BeginFails, Fault, Shape, TypeOK
  <2> QED BY <1>6, <2>1, <2>2, <2>3, CallShape DEF BeginFails, dbVars, Shape, TypeOK
<1> QED BY <1>1, <1>2, <1>3, <1>4, <1>5, <1>6 DEF Begin

LEMMA LoadShape == Shape /\ Load => Shape'
<1> SUFFICES ASSUME Shape, Load PROVE Shape' OBVIOUS
<1> DEFINE D == {j \in Pending : Cardinality({k \in Pending : k < j}) < BatchLimit}
<1>1. D \subseteq JobIds /\ \A i \in D : jobs[i] \in Job /\ jobs[i].status = "pending"
    BY DEF Pending, Shape, TypeOK
<1>2. copy' = [i \in D |-> jobs[i]]
    BY DEF Load
<1> HIDE DEF D
<1>3. WorkerTypes'
    BY <1>1, <1>2 DEF Load, Shape, TypeOK, WorkerTypes
<1>4. Loaded'
    BY <1>1, <1>2 DEF Load, dbVars, Shape, Owned, Loaded, Working, Calling
<1> QED BY <1>3, <1>4, CallShape DEF Load, dbVars, Shape, TypeOK

(* A step that spends a fault or none. *)
LEMMA FaultTypes ==
    ASSUME TypeOK, NEW f, Fault(f) \/ NoFault
    PROVE  faults' \in 0..MaxFaults
BY OcSyncAssumption DEF OcSyncAssumption, TypeOK, Fault, NoFault

LEMMA PutContent ==
    ASSUME Shape, Working
    PROVE  Put(copy[cur]) \in Content /\ "bare" \in Content /\ "absent" \in Content
BY LoadedJob DEF Shape, Loaded, Put, Job, Content

LEMMA RequestShape ==
    ASSUME Shape, PutAccepted \/ PutFails \/ Rotate \/ PutBlocked \/ DeleteAccepted \/ DeleteFails
    PROVE  Shape'
<1>1. CASE PutAccepted
  <2>1. WorkerTypes'
      BY <1>1 DEF PutAccepted, Shape, TypeOK, WorkerTypes
  <2>2. Loaded'
      BY <1>1 DEF PutAccepted, dbVars, Shape, Loaded, Working, Calling
  <2>3. faults' \in 0..MaxFaults
      BY <1>1, FaultTypes DEF PutAccepted, Shape
  <2>4. remote' \in [Ext -> Content]
      BY <1>1, PutContent DEF PutAccepted, Working, Shape, TypeOK
  <2> QED BY <1>1, <2>1, <2>2, <2>3, <2>4, CallShape DEF PutAccepted, dbVars, Shape, TypeOK
<1>2. CASE PutFails
  <2>1. WorkerTypes'
      BY <1>2 DEF PutFails, Raise, Shape, TypeOK, WorkerTypes
  <2>2. Loaded'
      BY <1>2 DEF PutFails, Raise, dbVars, Shape, Loaded, Working, Calling
  <2>3. faults' \in 0..MaxFaults
      BY <1>2, FaultTypes DEF PutFails, Shape
  <2>4. wext \in Ext /\ remote[wext] \in Content
      BY <1>2 DEF PutFails, Shape, Loaded, Calling, TypeOK
  <2>5. remote' \in [Ext -> Content]
      BY <1>2, <2>4, PutContent DEF PutFails, Working, Shape, TypeOK
  <2> QED BY <1>2, <2>1, <2>2, <2>3, <2>5, CallShape DEF PutFails, dbVars, Shape, TypeOK
<1>3. CASE Rotate
  <2> DEFINE u == copy[cur].user
  <2>1. u \in Users /\ fresh[u] \in 0..MaxExt /\ fresh[u] < MaxExt
      BY <1>3, LoadedJob DEF Rotate, Shape, Loaded, Working, TypeOK
  <2>2. fresh[u] + 1 \in 1..MaxExt /\ fresh[u] + 1 \in 0..MaxExt
      BY <2>1, OcSyncAssumption DEF OcSyncAssumption
  <2>3. wext' = <<u, fresh[u] + 1>> /\ wext' \in Ext /\ wext' \in Ext0 /\ wext'[1] = u
      BY <1>3, <2>1, <2>2 DEF Rotate, Ext, Ext0
  <2>4. WorkerTypes'
      BY <1>3, <2>3 DEF Rotate, Shape, TypeOK, WorkerTypes
  <2>5. Loaded'
      BY <1>3, <2>3 DEF Rotate, Shape, Loaded, Working, Calling
  <2>6. faults' \in 0..MaxFaults
      BY <1>3, FaultTypes DEF Rotate, Shape
  <2>7. fresh' \in [Users -> 0..MaxExt]
      BY <1>3, <2>1, <2>2 DEF Rotate, Shape, TypeOK
  <2> QED BY <1>3, <2>4, <2>5, <2>6, <2>7, CallShape DEF Rotate, Shape, TypeOK
<1>4. CASE PutBlocked
  <2>1. WorkerTypes'
      BY <1>4 DEF PutBlocked, Raise, Shape, TypeOK, WorkerTypes
  <2>2. Loaded'
      BY <1>4 DEF PutBlocked, Raise, dbVars, Shape, Loaded, Working, Calling
  <2>3. faults' \in 0..MaxFaults
      BY <1>4, FaultTypes DEF PutBlocked, Shape
  <2> QED BY <1>4, <2>1, <2>2, <2>3, CallShape DEF PutBlocked, dbVars, Shape, TypeOK
<1>5. CASE DeleteAccepted
  <2>1. WorkerTypes'
      BY <1>5 DEF DeleteAccepted, Shape, TypeOK, WorkerTypes
  <2>2. Loaded'
      BY <1>5 DEF DeleteAccepted, dbVars, Shape, Loaded, Working, Calling
  <2>3. faults' \in 0..MaxFaults
      BY <1>5, FaultTypes DEF DeleteAccepted, Shape
  <2>4. remote' \in [Ext -> Content]
      BY <1>5, PutContent DEF DeleteAccepted, Working, Shape, TypeOK
  <2> QED BY <1>5, <2>1, <2>2, <2>3, <2>4, CallShape DEF DeleteAccepted, dbVars, Shape, TypeOK
<1>6. CASE DeleteFails
  <2>1. WorkerTypes'
      BY <1>6 DEF DeleteFails, Raise, Shape, TypeOK, WorkerTypes
  <2>2. Loaded'
      BY <1>6 DEF DeleteFails, Raise, dbVars, Shape, Loaded, Working, Calling
  <2>3. faults' \in 0..MaxFaults
      BY <1>6, FaultTypes DEF DeleteFails, Shape
  <2>4. remote' \in [Ext -> Content]
      BY <1>6, PutContent DEF DeleteFails, Working, Shape, TypeOK
  <2> QED BY <1>6, <2>1, <2>2, <2>3, <2>4, CallShape DEF DeleteFails, dbVars, Shape, TypeOK
<1> QED BY <1>1, <1>2, <1>3, <1>4, <1>5, <1>6

LEMMA DropShape ==
    ASSUME Shape, DropBatch, UNCHANGED <<dbVars, req, remote, events>>, faults' \in 0..MaxFaults
    PROVE  Shape'
BY DropKeepsLoaded, CallShape DEF dbVars, Shape, TypeOK

LEMMA EndingShape ==
    ASSUME Shape, \/ DiscardStale \/ ConfirmPut \/ ConfirmAborts \/ ConfirmDelete
                  \/ RecordFailure \/ RecordAborts \/ Crash
    PROVE  Shape'
<1> DEFINE u == copy[cur].user
<1>0. ASSUME Working
      PROVE  /\ cur \in DOMAIN copy /\ cur \in JobIds /\ jobs[cur] \in Job
             /\ jobs[cur].status = "pending" /\ jobs[cur].att < MaxAttempts
             /\ jobs[cur].ext[1] = jobs[cur].user
             /\ copy[cur] \in Job /\ u \in Users /\ copy[cur].att = jobs[cur].att
             /\ mapping[u] \in Mapping /\ mapping[u].ext[1] = u
  <2>1. cur \in DOMAIN copy
      BY <1>0 DEF Shape, Loaded
  <2> QED BY <2>1, LoadedJob, MappingTypes
<1>1. CASE DiscardStale
  <2>1. jobs' = [jobs EXCEPT ![cur] = jobs[cur]]
      BY <1>1 DEF DiscardStale, dbVars, Shape, TypeOK
  <2> QED BY <1>0, <1>1, <2>1, MappingTypes, EndShape
          DEF DiscardStale, dbVars, Working, Shape, TypeOK
<1>2. CASE ConfirmPut
  <2> DEFINE j == IF wrot THEN Rotated(jobs[cur]) ELSE [jobs[cur] EXCEPT !.status = "completed"]
             m == [status |-> "active", ext |-> IF wrot THEN wext ELSE mapping[u].ext,
                   synced |-> SyncedBy(copy[cur]), url |-> mapping[u].url \/ wanswer = "url"]
  <2>1. Working /\ Calling
      BY <1>2 DEF ConfirmPut, Working, Calling
  <2>2. /\ j \in Job /\ j.status = "completed" /\ j.user = jobs[cur].user
        /\ j.ext[1] = jobs[cur].user
      BY <1>0, <2>1, LoadedJob DEF Job, Rotated
  <2>3. jobs' = [jobs EXCEPT ![cur] = j]
      BY <1>0, <1>2, <2>1 DEF ConfirmPut, Shape, TypeOK
  <2>4. m.ext \in Ext /\ m.ext \in Ext0 /\ m.ext[1] = u
      BY <1>0, <1>2, <2>1, MappingTypes DEF ConfirmPut, Shape, Loaded, TypeOK
  <2>5. m \in Mapping
      BY <1>0, <1>2, <2>1, <2>4 DEF Mapping, SyncedBy, Job, Shape, TypeOK
  <2>6. mapping' = [mapping EXCEPT ![u] = m] /\ mapping[u].status # "none"
      BY <1>2 DEF ConfirmPut
  <2>7. mapping' \in [Users -> Mapping] /\ m.status = "active"
      BY <2>5, <2>6, MappingTypes
  <2> HIDE DEF j, m, u
  <2>8. \A v \in Users : /\ mapping'[v].ext[1] = v
                         /\ mapping'[v].status # "none" => mapping'[v].ext \in Ext
                         /\ mapping[v].status = "none" => mapping'[v].status = "none"
      BY <2>4, <2>6, MappingTypes
  <2>9. /\ panel' \in {"connected", "blocked", "removed"}
        /\ panel' = "removed" => panel = "removed"
      BY <1>2 DEF ConfirmPut, Shape, TypeOK
  <2> QED BY <1>0, <1>2, <2>1, <2>2, <2>3, <2>7, <2>8, <2>9, EndShape DEF ConfirmPut
<1>3. CASE ConfirmAborts
    BY <1>3, DropShape DEF ConfirmAborts, Shape, TypeOK
<1>4. CASE ConfirmDelete
  <2> DEFINE j == [jobs[cur] EXCEPT !.status = "completed"]
             m == [status |-> "deleted", ext |-> mapping[u].ext, synced |-> "empty",
                   url |-> FALSE]
  <2>1. Working
      BY <1>4 DEF ConfirmDelete, Working
  <2>2. /\ j \in Job /\ j.status = "completed" /\ j.user = jobs[cur].user
        /\ j.ext[1] = jobs[cur].user
      BY <1>0, <2>1 DEF Job
  <2>3. jobs' = [jobs EXCEPT ![cur] = j]
      BY <1>0, <1>4, <2>1 DEF ConfirmDelete, Complete
  <2>4. mapping' = mapping \/ (mapping' = [mapping EXCEPT ![u] = m] /\ mapping[u].status # "none")
      BY <1>4 DEF ConfirmDelete
  <2>5. m \in Mapping /\ m.ext = mapping[u].ext
      BY <1>0, <2>1 DEF Mapping
  <2> HIDE DEF j, m, u
  <2>6. mapping' \in [Users -> Mapping]
      BY <2>4, <2>5, MappingTypes
  <2>7. \A v \in Users : /\ mapping'[v].ext[1] = v
                         /\ mapping'[v].status # "none" => mapping'[v].ext \in Ext
                         /\ mapping[v].status = "none" => mapping'[v].status = "none"
      BY <2>4, <2>5, MappingTypes
  <2> QED BY <1>0, <1>4, <2>1, <2>2, <2>3, <2>6, <2>7, EndShape
          DEF ConfirmDelete, Shape, TypeOK
<1>5. CASE RecordFailure
  <2> DEFINE att == copy[cur].att + 1
             over == wanswer # "retry" \/ Exhausted(att)
             j == [jobs[cur] EXCEPT !.att = att, !.status = IF over THEN "failed" ELSE @]
  <2>1. Working
      BY <1>5 DEF RecordFailure, Working
  <2>2. att \in 0..MaxAttempts /\ (~over => att < MaxAttempts)
      BY <1>0, <2>1, OcSyncAssumption DEF OcSyncAssumption, Job, Exhausted
  <2>3. /\ j \in Job /\ j.status = (IF over THEN "failed" ELSE "pending")
        /\ j.user = jobs[cur].user /\ j.ext[1] = jobs[cur].user /\ j.att = att
      BY <1>0, <2>1, <2>2 DEF Job
  <2>4. jobs' = [jobs EXCEPT ![cur] = j]
      BY <1>0, <1>5, <2>1 DEF RecordFailure, Shape, TypeOK
  <2>5. /\ panel' \in {"connected", "blocked", "removed"}
        /\ panel' = "removed" => panel = "removed"
      BY <1>5 DEF RecordFailure, Shape, TypeOK
  <2>6. j.status # "free" /\ (j.status = "pending" => j.att < MaxAttempts)
      BY <2>2, <2>3
  <2> HIDE DEF j, u
  <2> QED BY <1>0, <1>5, <2>1, <2>3, <2>4, <2>5, <2>6, MappingTypes, EndShape
          DEF RecordFailure
<1>6. CASE RecordAborts
    BY <1>6, DropShape DEF RecordAborts, Shape, TypeOK
<1>7. CASE Crash
    BY <1>7, DropShape, FaultTypes DEF Crash, Shape
<1> QED BY <1>1, <1>2, <1>3, <1>4, <1>5, <1>6, <1>7

-----------------------------------------------------------------------------
(* Steps of a request and of the environment. *)

(* A step that leaves the worker, the jobs and the mappings alone. *)
LEMMA RequestStepShape ==
    ASSUME Shape, OtherTypes',
           UNCHANGED <<jobs, mapping, workerVars>>,
           panel' = "removed" => panel = "removed",
           \A u \in Users : want'[u] = "gone" => want[u] = "gone",
           \A s \in Slots, u \in Users :
              /\ req'[s].plan[u].ext[1] = u
              /\ req'[s].plan[u].job # 0 =>
                    /\ jobs[req'[s].plan[u].job].user = u
                    /\ jobs[req'[s].plan[u].job].status # "free",
           \A s \in Slots : req'[s].kind = "event" => req'[s].want # "gone"
    PROVE  Shape'
<1>1. TypeOK'
    BY TypeParts DEF Shape, TypeOK, OtherTypes, WorkerTypes, workerVars
<1>2. AttemptsBounded'
    BY DEF Shape, AttemptsBounded
<1>3. Owned'
    BY DEF Shape, Owned
<1>4. Loaded'
    BY DEF Shape, Loaded, Working, Calling, workerVars
<1>5. Cascaded'
    BY DEF Shape, Cascaded
<1> QED BY <1>1, <1>2, <1>3, <1>4, <1>5 DEF Shape

LEMMA OpenShape ==
    ASSUME Shape, NEW s \in Slots, NEW w \in Wants, NEW who \in SUBSET Users,
           NEW kind \in {"tick", "event", "removeUser", "removePanel", "disconnect"},
           Open(s, kind, who, w), events' \in 0..MaxEvents, kind = "event" => w # "gone"
    PROVE  Shape'
<1>1. PICK first \in [who -> 0..MaxJobs] :
          LET plan == [u \in Users |-> IF u \in who THEN PlanFor(kind, u, w, first[u])
                                       ELSE NoPlan(u)]
          IN  /\ \A u \in who : first[u] \in MayFind(u)
              /\ WithinBounds(plan)
              /\ req' = [req EXCEPT ![s] =
                            [kind |-> kind, who |-> who, want |-> w, plan |-> plan]]
    BY DEF Open
<1> DEFINE plan == [u \in Users |-> IF u \in who THEN PlanFor(kind, u, w, first[u])
                                    ELSE NoPlan(u)]
           r == [kind |-> kind, who |-> who, want |-> w, plan |-> plan]
<1>2. \A u \in Users : /\ plan[u] \in Plan /\ plan[u].ext[1] = u
                       /\ plan[u].job # 0 => /\ plan[u].job \in JobIds
                                             /\ jobs[plan[u].job].user = u
                                             /\ jobs[plan[u].job].status # "free"
  <2> SUFFICES ASSUME NEW u \in Users
               PROVE  /\ plan[u] \in Plan /\ plan[u].ext[1] = u
                      /\ plan[u].job # 0 => /\ plan[u].job \in JobIds
                                            /\ jobs[plan[u].job].user = u
                                            /\ jobs[plan[u].job].status # "free"
      OBVIOUS
  <2>1. CASE u \in who
    <3>1. plan[u] = PlanFor(kind, u, w, first[u]) /\ first[u] \in MayFind(u)
        BY <1>1, <2>1
    <3>2. plan[u].rev <= MaxRev
        BY <1>1 DEF WithinBounds
    <3> QED BY <3>1, <3>2, PlanShape DEF Shape
  <2>2. CASE u \notin who
      BY <2>2, NoneTypes DEF NoPlan, NoExt
  <2> QED BY <2>1, <2>2
<1>3. plan \in [Users -> Plan]
    BY <1>2
<1>4. req' = [req EXCEPT ![s] = r]
    BY <1>1
<1>5. r \in Request /\ r.plan = plan /\ r.kind = kind /\ r.want = w
    BY <1>3 DEF Request
<1> HIDE DEF plan, r
<1>6. OtherTypes'
    BY <1>4, <1>5 DEF Open, dbVars, Shape, TypeOK, OtherTypes
<1>7. \A t \in Slots : req'[t] = IF t = s THEN r ELSE req[t]
    BY <1>4 DEF Shape, TypeOK
<1>8. \A t \in Slots, u \in Users :
          /\ req'[t].plan[u].ext[1] = u
          /\ req'[t].plan[u].job # 0 =>
                /\ jobs[req'[t].plan[u].job].user = u
                /\ jobs[req'[t].plan[u].job].status # "free"
    BY <1>2, <1>5, <1>7 DEF Shape, Owned
<1>9. \A t \in Slots : req'[t].kind = "event" => req'[t].want # "gone"
    BY <1>5, <1>7 DEF Shape, Cascaded
<1> QED BY <1>6, <1>8, <1>9, RequestStepShape DEF Open, dbVars

LEMMA EventTypes ==
    ASSUME TypeOK, NEW k, ApiRequest(k)
    PROVE  events' \in 0..MaxEvents
BY OcSyncAssumption DEF OcSyncAssumption, ApiRequest, TypeOK

LEMMA ReadShape ==
    ASSUME Shape, NEW s \in Writers, Api(s)
    PROVE  Shape'
<1>0. s \in Slots /\ "lost" \in Wants
    BY DEF Slots, Wants
<1>1. events' \in 0..MaxEvents
    BY EventTypes DEF Api, ReadEvent, ReadRemoveUser, ReadRemovePanel, ReadDisconnect, Shape
<1>2. ASSUME NEW u \in Users, NEW w \in Wants, ReadEvent(s, u, w) PROVE Shape'
    BY <1>0, <1>1, <1>2, OpenShape DEF ReadEvent
<1>3. ASSUME NEW u \in Users, ReadRemoveUser(s, u) PROVE Shape'
    BY <1>0, <1>1, <1>3, OpenShape DEF ReadRemoveUser
<1>4. CASE ReadRemovePanel(s)
    BY <1>0, <1>1, <1>4, OpenShape DEF ReadRemovePanel
<1>5. CASE ReadDisconnect(s)
    BY <1>0, <1>1, <1>5, OpenShape DEF ReadDisconnect
<1> QED BY <1>2, <1>3, <1>4, <1>5 DEF Api

LEMMA TickShape ==
    ASSUME Shape, NEW u \in Users, ReadTick(u)
    PROVE  Shape'
<1>1. Tick \in Slots /\ want[u] \in Wants /\ {u} \in SUBSET Users
    BY DEF Slots, Shape, TypeOK
<1> QED BY <1>1, OpenShape DEF ReadTick, Shape, TypeOK

LEMMA EnvironmentShape == Shape /\ Environment => Shape'
<1> SUFFICES ASSUME Shape, Environment PROVE Shape' OBVIOUS
<1>1. \A s \in Slots, u \in Users :
          /\ req[s].plan[u].ext[1] = u
          /\ req[s].plan[u].job # 0 => /\ jobs[req[s].plan[u].job].user = u
                                       /\ jobs[req[s].plan[u].job].status # "free"
    BY DEF Shape, Owned
<1>6. \A s \in Slots : req[s].kind = "event" => req[s].want # "gone"
    BY DEF Shape, Cascaded
<1>2. events' \in 0..MaxEvents
    BY EventTypes DEF Environment, Edit, PanelSync, Reconnect, Shape
<1>3. ASSUME NEW u \in Users, NEW w \in Wants, Edit(u, w) PROVE Shape'
    BY <1>1, <1>2, <1>3, <1>6, RequestStepShape DEF Edit, Shape, TypeOK, OtherTypes
<1>4. ASSUME NEW st \in {"connected", "blocked"}, PanelSync(st) PROVE Shape'
    BY <1>1, <1>2, <1>4, <1>6, RequestStepShape DEF PanelSync, Shape, TypeOK, OtherTypes
<1>5. CASE Reconnect
    BY <1>1, <1>2, <1>5, <1>6, RequestStepShape DEF Reconnect, Shape, TypeOK, OtherTypes
<1> QED BY <1>3, <1>4, <1>5 DEF Environment

LEMMA IdlePlan ==
    Idle.kind = "idle" /\ \A u \in Users : Idle.plan[u].ext[1] = u /\ Idle.plan[u].job = 0
<1>0. Idle.kind = "idle"
    BY DEF Idle
<1>1. \A u \in Users : Idle.plan[u] = NoPlan(u)
    BY DEF Idle
<1>2. \A u \in Users : NoPlan(u).ext = NoExt(u) /\ NoPlan(u).job = 0
    BY DEF NoPlan
<1> QED BY <1>0, <1>1, <1>2, NoneTypes

LEMMA RollbackShape ==
    ASSUME Shape, NEW s \in Slots, Rollback(s)
    PROVE  Shape'
<1>1. \A t \in Slots : req'[t] = IF t = s THEN Idle ELSE req[t]
    BY DEF Rollback, Shape, TypeOK
<1>2. \A t \in Slots, u \in Users :
          /\ req'[t].plan[u].ext[1] = u
          /\ req'[t].plan[u].job # 0 => /\ jobs[req'[t].plan[u].job].user = u
                                        /\ jobs[req'[t].plan[u].job].status # "free"
    BY <1>1, IdlePlan DEF Shape, Owned
<1>3. \A t \in Slots : req'[t].kind = "event" => req'[t].want # "gone"
    BY <1>1, IdlePlan DEF Shape, Cascaded
<1>4. OtherTypes'
    BY NoneTypes DEF Rollback, dbVars, Shape, TypeOK, OtherTypes
<1> QED BY <1>2, <1>3, <1>4, RequestStepShape DEF Rollback, dbVars

(* What a commit may do to a row: nothing, fill a free one, or rewrite the one its plan found. *)
LEMMA CommitJobs ==
    ASSUME Shape, NEW s \in Slots, Commit(s), NEW i \in JobIds
    PROVE  \/ jobs'[i] = jobs[i]
           \/ /\ jobs[i].status = "free"
              /\ \E u \in Users : /\ req[s].plan[u].act # "none"
                                  /\ jobs'[i] = InsertedJob(u, req[s].plan[u])
           \/ \E u \in Users : /\ req[s].plan[u].act # "none"
                               /\ req[s].plan[u].job = i /\ jobs[i].user = u
                               /\ jobs[i].status # "free"
                               /\ jobs'[i] = RewrittenJob(jobs[i], req[s].plan[u])
<1> DEFINE r == req[s]
<1>1. PICK f \in NewIds(r) :
          jobs' = [k \in JobIds |->
              IF \E u \in Inserted(r) : f[u] = k
              THEN LET u == CHOOSE v \in Inserted(r) : f[v] = k
                   IN  InsertedJob(u, r.plan[u])
              ELSE IF \E u \in Touched(r) \ Inserted(r) : r.plan[u].job = k
              THEN LET u == CHOOSE v \in Touched(r) \ Inserted(r) : r.plan[v].job = k
                   IN  RewrittenJob(jobs[k], r.plan[u])
              ELSE jobs[k]]
    BY DEF Commit
<1>2. CASE \E u \in Inserted(r) : f[u] = i
  <2> DEFINE u == CHOOSE v \in Inserted(r) : f[v] = i
  <2>1. u \in Inserted(r) /\ f[u] = i
      BY <1>2
  <2>2. u \in Users /\ r.plan[u].act # "none"
      BY <2>1 DEF Inserted, Touched
  <2>3. jobs'[i] = InsertedJob(u, r.plan[u])
      BY <1>1, <1>2
  <2>4. jobs[i].status # "free" => i < f[u]
      BY <2>1 DEF NewIds
  <2>5. jobs[i].status = "free"
      BY <2>1, <2>4, OcSyncAssumption DEF OcSyncAssumption, JobIds
  <2> QED BY <2>2, <2>3, <2>5
<1>3. CASE /\ ~\E u \in Inserted(r) : f[u] = i
           /\ \E u \in Touched(r) \ Inserted(r) : r.plan[u].job = i
  <2> DEFINE u == CHOOSE v \in Touched(r) \ Inserted(r) : r.plan[v].job = i
  <2>1. u \in Touched(r) \ Inserted(r) /\ r.plan[u].job = i
      BY <1>3
  <2>2. u \in Users /\ r.plan[u].act # "none" /\ r.plan[u].job # 0
      BY <2>1 DEF Inserted, Touched
  <2>3. jobs'[i] = RewrittenJob(jobs[i], r.plan[u])
      BY <1>1, <1>3
  <2> HIDE DEF u
  <2>4. jobs[i].user = u /\ jobs[i].status # "free"
      BY <2>1, <2>2 DEF Shape, Owned
  <2> QED BY <2>1, <2>2, <2>3, <2>4
<1>4. CASE /\ ~\E u \in Inserted(r) : f[u] = i
           /\ ~\E u \in Touched(r) \ Inserted(r) : r.plan[u].job = i
    BY <1>1, <1>4
<1> QED BY <1>2, <1>3, <1>4

LEMMA InsertedType ==
    ASSUME NEW u \in Users, NEW p \in Plan, p.ext[1] = u
    PROVE  LET j == InsertedJob(u, p) IN
           /\ j \in Job /\ j.status = "pending" /\ j.user = u /\ j.ext = p.ext /\ j.att = 0
           /\ j.op = p.op /\ j.cfg = p.cfg /\ j.rot = p.rot /\ j.rev = p.rev
BY OcSyncAssumption DEF OcSyncAssumption, InsertedJob, Job, Plan

LEMMA RewrittenType ==
    ASSUME NEW p \in Plan, NEW j \in Job
    PROVE  LET k == RewrittenJob(j, p) IN
           /\ k \in Job /\ k.status = j.status /\ k.user = j.user /\ k.att = j.att
           /\ k.ext \in {j.ext, p.ext}
BY DEF RewrittenJob, Job, Plan

(* The consequence for the state and the owner of a row. *)
LEMMA CommitKeepsJob ==
    ASSUME Shape, NEW s \in Slots, Commit(s), NEW i \in JobIds
    PROVE  /\ jobs'[i] \in Job /\ jobs'[i].ext[1] = jobs'[i].user
           /\ jobs[i].status # "free" =>
                /\ jobs'[i].status = jobs[i].status /\ jobs'[i].user = jobs[i].user
                /\ jobs'[i].att = jobs[i].att
           /\ jobs[i].status = "free" /\ jobs'[i] # jobs[i] =>
                jobs'[i].status = "pending" /\ jobs'[i].att = 0
<1>1. /\ jobs[i] \in Job /\ jobs[i].ext[1] = jobs[i].user
      /\ \A u \in Users : req[s].plan[u] \in Plan /\ req[s].plan[u].ext[1] = u
    BY DEF Shape, TypeOK, Owned, Request
<1>2. CASE jobs'[i] = jobs[i]
    BY <1>1, <1>2
<1>3. CASE /\ jobs[i].status = "free"
           /\ \E u \in Users : /\ req[s].plan[u].act # "none"
                               /\ jobs'[i] = InsertedJob(u, req[s].plan[u])
    BY <1>1, <1>3, InsertedType
<1>4. CASE \E u \in Users : /\ req[s].plan[u].act # "none"
                            /\ req[s].plan[u].job = i /\ jobs[i].user = u
                            /\ jobs[i].status # "free"
                            /\ jobs'[i] = RewrittenJob(jobs[i], req[s].plan[u])
    BY <1>1, <1>4, RewrittenType
<1> QED BY <1>2, <1>3, <1>4, CommitJobs

(* What a commit does to a mapping: nothing, drop it, create it, or reopen it. *)
LEMMA CommitMapping ==
    ASSUME Shape, NEW s \in Slots, Commit(s), NEW u \in Users
    PROVE  /\ mapping'[u] \in Mapping /\ mapping'[u].ext[1] = u
           /\ mapping'[u].status # "none" => mapping'[u].ext \in Ext
           /\ \/ mapping'[u] = mapping[u] /\ u \notin Dropped(req[s])
              \/ mapping'[u] = NoMapping(u) /\ u \in Dropped(req[s])
              \/ /\ mapping[u].status = "none" /\ panel # "removed" /\ want[u] # "gone"
                 /\ u \notin Dropped(req[s])
                 /\ mapping'[u].status = "pending" /\ mapping'[u].ext = <<u, fresh[u] + 1>>
                 /\ req[s].plan[u].isNew
              \/ /\ mapping[u].status # "none" /\ u \notin Dropped(req[s])
                 /\ mapping'[u].status = "pending" /\ mapping'[u].ext = mapping[u].ext
<1>1. /\ mapping[u] \in Mapping /\ mapping[u].ext[1] = u
      /\ mapping[u].status # "none" => mapping[u].ext \in Ext
      /\ NoMapping(u) \in Mapping /\ NoMapping(u).ext[1] = u /\ NoMapping(u).status = "none"
    BY MappingTypes, NoneTypes DEF NoMapping
<1>2. mapping'[u] = WrittenMapping(u, req[s])
    BY DEF Commit
<1>3. /\ req[s].plan[u].isNew =>
            mapping[u].status = "none" /\ panel # "removed" /\ want[u] # "gone"
      /\ req[s].plan[u].toPending => mapping[u].status # "none"
    BY DEF Commit, RollsBack
<1>4. CASE u \in Dropped(req[s])
    BY <1>1, <1>2, <1>4 DEF WrittenMapping
<1>5. CASE u \notin Dropped(req[s]) /\ req[s].plan[u].isNew
  <2>1. fresh[u] \in 0..MaxExt /\ fresh[u] < MaxExt
      BY <1>5 DEF Commit, Shape, TypeOK
  <2>2. fresh[u] + 1 \in 1..MaxExt /\ fresh[u] + 1 \in 0..MaxExt
      BY <2>1, OcSyncAssumption DEF OcSyncAssumption
  <2>3. <<u, fresh[u] + 1>> \in Ext /\ <<u, fresh[u] + 1>> \in Ext0
      BY <2>2 DEF Ext, Ext0
  <2> DEFINE m == [status |-> "pending", ext |-> <<u, fresh[u] + 1>>, synced |-> "null",
                   url |-> FALSE]
  <2>4. mapping'[u] = m
      BY <1>2, <1>5 DEF WrittenMapping, NoMapping
  <2>5. m \in Mapping /\ m.status = "pending" /\ m.ext = <<u, fresh[u] + 1>> /\ m.ext[1] = u
      BY <2>3 DEF Mapping
  <2> HIDE DEF m
  <2> QED BY <1>3, <1>5, <2>3, <2>4, <2>5
<1>6. CASE /\ u \notin Dropped(req[s]) /\ ~req[s].plan[u].isNew
           /\ req[s].plan[u].toPending
  <2>1. mapping'[u] = [mapping[u] EXCEPT !.status = "pending"]
      BY <1>2, <1>6 DEF WrittenMapping
  <2> QED BY <1>1, <1>3, <1>6, <2>1 DEF Mapping
<1>7. CASE /\ u \notin Dropped(req[s]) /\ ~req[s].plan[u].isNew
           /\ ~req[s].plan[u].toPending
    BY <1>1, <1>2, <1>7 DEF WrittenMapping
<1> QED BY <1>4, <1>5, <1>6, <1>7

LEMMA CommitShape ==
    ASSUME Shape, NEW s \in Slots, Commit(s)
    PROVE  Shape'
<1> DEFINE r == req[s]
<1>1. /\ r \in Request /\ r.want \in Wants /\ "gone" \in Wants
      /\ r.kind = "event" => r.want # "gone"
    BY DEF Shape, TypeOK, Request, Wants, Cascaded
<1>2. jobs' \in [JobIds -> Job]
  <2>1. jobs' = [i \in JobIds |-> jobs'[i]]
      BY DEF Commit
  <2> QED BY <2>1, CommitKeepsJob
<1>3. mapping' \in [Users -> Mapping]
  <2>1. mapping' = [u \in Users |-> WrittenMapping(u, r)]
      BY DEF Commit
  <2>2. \A u \in Users : mapping'[u] \in Mapping
      BY CommitMapping
  <2> QED BY <2>1, <2>2
<1>4. fresh' \in [Users -> 0..MaxExt]
  <2>1. \A u \in Users : r.plan[u].isNew => fresh[u] + 1 \in 0..MaxExt
      BY OcSyncAssumption DEF OcSyncAssumption, Commit, Shape, TypeOK
  <2> QED BY <2>1 DEF Commit, Shape, TypeOK
<1>5. /\ want' \in [Users -> Wants] /\ conn' \in BOOLEAN
      /\ panel' \in {"connected", "blocked", "removed"}
    BY <1>1 DEF Commit, Shape, TypeOK
<1>6. req' \in [Slots -> Request] /\ \A t \in Slots : req'[t] = IF t = s THEN Idle ELSE req[t]
    BY NoneTypes DEF Commit, Shape, TypeOK
<1>7. TypeOK'
    BY <1>2, <1>3, <1>4, <1>5, <1>6 DEF Commit, workerVars, Shape, TypeOK
<1>8. AttemptsBounded'
    BY CommitKeepsJob, OcSyncAssumption DEF OcSyncAssumption, Shape, AttemptsBounded
<1>9. Owned'
  <2>1. \A u \in Users : /\ mapping'[u].ext[1] = u
                         /\ mapping'[u].status # "none" => mapping'[u].ext \in Ext
      BY CommitMapping
  <2>2. \A i \in JobIds : jobs'[i].ext[1] = jobs'[i].user
      BY CommitKeepsJob
  <2>3. \A t \in Slots, u \in Users :
            req[t].plan[u].job # 0 => /\ req[t].plan[u].job \in JobIds
                                      /\ jobs'[req[t].plan[u].job].user = u
                                      /\ jobs'[req[t].plan[u].job].status # "free"
    <3> SUFFICES ASSUME NEW t \in Slots, NEW u \in Users, req[t].plan[u].job # 0
                 PROVE  /\ req[t].plan[u].job \in JobIds
                        /\ jobs'[req[t].plan[u].job].user = u
                        /\ jobs'[req[t].plan[u].job].status # "free"
        OBVIOUS
    <3> DEFINE i == req[t].plan[u].job
    <3>1. i \in 0..MaxJobs
        BY DEF Shape, TypeOK, Request, Plan
    <3>2. i \in JobIds
        BY <3>1, OcSyncAssumption DEF OcSyncAssumption, JobIds
    <3>3. jobs[i].user = u /\ jobs[i].status # "free"
        BY DEF Shape, Owned
    <3> HIDE DEF i
    <3>4. jobs'[i].user = u /\ jobs'[i].status # "free"
        BY <3>2, <3>3, CommitKeepsJob
    <3> QED BY <3>2, <3>4 DEF i
  <2> QED BY <1>6, <2>1, <2>2, <2>3, IdlePlan DEF Shape, Owned
<1>10. Loaded'
  <2>1. \A i \in DOMAIN copy : /\ i \in JobIds /\ jobs[i].status = "pending"
                              /\ copy[i].user = jobs[i].user /\ copy[i].att = jobs[i].att
                              /\ copy[i].ext[1] = copy[i].user
      BY DEF Shape, Loaded
  <2>2. \A i \in DOMAIN copy : /\ jobs'[i].status = "pending"
                              /\ copy[i].user = jobs'[i].user /\ copy[i].att = jobs'[i].att
      BY <2>1, CommitKeepsJob
  <2> QED BY <2>1, <2>2 DEF Commit, workerVars, Shape, Loaded, Working, Calling
<1>11. Cascaded'
  <2>0. \A u \in Users : NoMapping(u).status = "none"
      BY DEF NoMapping
  <2>1. ASSUME panel' = "removed", NEW u \in Users PROVE mapping'[u].status = "none"
    <3>1. panel = "removed" \/ u \in Dropped(r)
        BY <2>1 DEF Commit, Dropped
    <3> QED BY <2>0, <3>1, CommitMapping DEF Shape, Cascaded
  <2>2. ASSUME NEW u \in Users, want'[u] = "gone" PROVE mapping'[u].status = "none"
    <3>1. want[u] = "gone" \/ u \in Dropped(r)
        BY <1>1, <2>2 DEF Commit, Dropped
    <3> QED BY <2>0, <3>1, CommitMapping DEF Shape, Cascaded
  <2>3. \A t \in Slots : req'[t].kind = "event" => req'[t].want # "gone"
      BY <1>6, IdlePlan DEF Shape, Cascaded
  <2> QED BY <2>1, <2>2, <2>3 DEF Cascaded
<1> QED BY <1>7, <1>8, <1>9, <1>10, <1>11 DEF Shape

LEMMA StepShape == Shape /\ [Next]_vars => Shape'
<1> SUFFICES ASSUME Shape, [Next]_vars PROVE Shape' OBVIOUS
<1>1. CASE Worker
    BY <1>1, LoadShape, BeginShape, RequestShape, EndingShape DEF Worker
<1>2. CASE WorkerFaults
    BY <1>2, BeginShape, RequestShape, EndingShape DEF WorkerFaults
<1>3. ASSUME NEW s \in Writers, Api(s) PROVE Shape'
    BY <1>3, ReadShape
<1>4. ASSUME NEW u \in Users, ReadTick(u) PROVE Shape'
    BY <1>4, TickShape
<1>5. ASSUME NEW s \in Slots, Commit(s) \/ Rollback(s) PROVE Shape'
    BY <1>5, CommitShape, RollbackShape
<1>6. CASE Environment
    BY <1>6, EnvironmentShape
<1>7. CASE UNCHANGED vars
  <2>1. OtherTypes'
      BY <1>7 DEF vars, dbVars, Shape, TypeOK, OtherTypes
  <2> QED BY <1>7, <2>1, RequestStepShape DEF vars, dbVars, Shape, Owned, Cascaded
<1> QED BY <1>1, <1>2, <1>3, <1>4, <1>5, <1>6, <1>7 DEF Next

(* Every variable keeps its type: among others no job is rewritten into a row that does not *)
(* exist and no operation works on an id outside its user's.                                *)
THEOREM TypeCorrect == Spec => []TypeOK
<1>1. Shape => TypeOK
    BY DEF Shape
<1> QED BY InitShape, StepShape, <1>1, PTL DEF Spec

(* Whatever fails, crashes or is rewritten, a job is tried at most MaxAttempts times and no *)
(* pending job has used its attempts up (retry branch of process_oc_sync).                  *)
THEOREM AttemptsAreBounded == Spec => []AttemptsBounded
<1>1. Shape => AttemptsBounded
    BY DEF Shape
<1> QED BY InitShape, StepShape, <1>1, PTL DEF Spec

(* A mapping that a commit creates is there afterwards, unless the commit drops it again. *)
LEMMA CommitIsNew ==
    ASSUME NEW s \in Slots, Commit(s), NEW u \in Users,
           req[s].plan[u].isNew, u \notin Dropped(req[s])
    PROVE  mapping'[u].status = "pending"
<1>1. mapping'[u] = [NoMapping(u) EXCEPT !.status = "pending", !.ext = <<u, fresh[u] + 1>>]
    BY DEF Commit, WrittenMapping
<1> QED BY <1>1 DEF NoMapping

-----------------------------------------------------------------------------
(* A deleted mapping has no user left on OC, as long as no identity is rotated.              *)

LEMMA InitGone == Init => GoneInv
<1> SUFFICES ASSUME Init PROVE GoneInv OBVIOUS
<1>1. \A u \in Users : /\ NoMapping(u).status = "none" /\ NoPlan(u).ext = <<u, 0>>
                       /\ Idle.plan[u] = NoPlan(u)
    BY DEF NoMapping, NoPlan, NoExt, Idle
<1>2. NoJob.ext = <<NoJob.user, 0>>
    BY DEF NoJob, NoExt
<1>3. OneIdentity
    BY <1>1, <1>2 DEF Init, OneIdentity, Calling, NoCopy
<1>4. DeletedMappingGone /\ GoneCalls
    BY <1>1 DEF Init, DeletedMappingGone, GoneCalls
<1> QED BY <1>3, <1>4, InitShape DEF GoneInv

(* Steps of the worker that leave its job: no put or delete is under way afterwards. *)
LEMMA EndGone ==
    ASSUME GoneInv, wrot' = FALSE, wpc' \in {"idle", "next", "fail"},
           UNCHANGED <<req, fresh, want>>,
           DOMAIN copy' \subseteq DOMAIN copy, \A i \in DOMAIN copy' : copy'[i] = copy[i],
           \A i \in JobIds : jobs'[i].ext = jobs[i].ext /\ jobs'[i].user = jobs[i].user,
           panel = "removed" => panel' = "removed",
           \A e \in Ext : remote'[e] = remote[e] \/ remote'[e] = "absent"
                          \/ (wpc = "put" /\ e = wext),
           \A u \in Users : \/ mapping'[u] = mapping[u]
                            \/ /\ mapping[u].status # "none" /\ mapping'[u].ext = mapping[u].ext
                               /\ mapping'[u].status = "active"
                            \/ /\ mapping[u].status # "none" /\ mapping'[u].ext = mapping[u].ext
                               /\ mapping'[u].status = "deleted" /\ remote'[<<u, 1>>] = "absent"
    PROVE  OneIdentity' /\ GoneCalls' /\ DeletedMappingGone'
<1>1. OneIdentity'
  <2>1. /\ \A u \in Users : mapping'[u].status # "none" => mapping'[u].ext = <<u, 1>>
        /\ \A u \in Users : \/ fresh'[u] = 0 \/ mapping'[u].status # "none"
                            \/ panel' = "removed" \/ want'[u] = "gone"
      BY DEF GoneInv, OneIdentity
  <2>2. \A i \in JobIds : jobs'[i].ext \in {<<jobs'[i].user, 0>>, <<jobs'[i].user, 1>>}
      BY DEF GoneInv, OneIdentity
  <2>3. \A i \in DOMAIN copy' : copy'[i].ext \in {<<copy'[i].user, 0>>, <<copy'[i].user, 1>>}
      BY DEF GoneInv, OneIdentity
  <2> QED BY <2>1, <2>2, <2>3 DEF GoneInv, OneIdentity, Calling
<1>2. DeletedMappingGone'
  <2> SUFFICES ASSUME NEW u \in Users, mapping'[u].status = "deleted"
               PROVE  remote'[mapping'[u].ext] = "absent"
      BY DEF DeletedMappingGone
  <2>1. CASE mapping'[u] = mapping[u]
    <3>1. remote[mapping[u].ext] = "absent" /\ mapping[u].ext = <<u, 1>> /\ mapping[u].ext \in Ext
        BY <2>1, MappingTypes DEF GoneInv, DeletedMappingGone, OneIdentity
    <3>2. wpc = "put" => wext # <<u, 1>>
      <4>1. SUFFICES ASSUME wpc = "put" PROVE wext # <<u, 1>>
          OBVIOUS
      <4>2. copy[cur].user # u
          BY <2>1, <4>1 DEF GoneInv, GoneCalls
      <4>3. wext = <<copy[cur].user, 1>>
          BY <4>1 DEF GoneInv, OneIdentity, Calling
      <4> QED BY <4>2, <4>3
    <3> QED BY <2>1, <3>1, <3>2
  <2>2. CASE mapping'[u] # mapping[u]
    <3>1. remote'[<<u, 1>>] = "absent" /\ mapping'[u].ext = <<u, 1>>
        BY <2>2 DEF GoneInv, OneIdentity
    <3> QED BY <3>1
  <2> QED BY <2>1, <2>2
<1>3. GoneCalls'
    BY DEF GoneCalls
<1> QED BY <1>1, <1>2, <1>3

LEMMA WorkerEndGone ==
    ASSUME GoneInv, \/ \E i \in JobIds : SkipStale(i) \/ SkipUnconnected(i) \/ BeginMalformed(i)
                                         \/ BeginFails(i)
                    \/ PutFails \/ PutBlocked \/ DeleteFails
                    \/ DiscardStale \/ ConfirmPut \/ ConfirmAborts \/ ConfirmDelete
                    \/ RecordFailure \/ RecordAborts \/ Crash
    PROVE  OneIdentity' /\ GoneCalls' /\ DeletedMappingGone'
<1>0. wrot = FALSE /\ jobs \in [JobIds -> Job]
    BY DEF GoneInv, OneIdentity, Shape, TypeOK
<1>1. ASSUME NEW i \in JobIds, SkipStale(i) \/ SkipUnconnected(i)
      PROVE  OneIdentity' /\ GoneCalls' /\ DeletedMappingGone'
  <2>1. Complete(i) \/ jobs' = jobs
      BY <1>1 DEF SkipStale, SkipUnconnected
  <2>2. ASSUME Complete(i), NEW k \in JobIds
        PROVE  jobs'[k].ext = jobs[k].ext /\ jobs'[k].user = jobs[k].user
      BY <1>0, <2>2 DEF Complete, Job
  <2> QED BY <1>1, <2>1, <2>2, EndGone DEF SkipStale, SkipUnconnected, Done
<1>2. ASSUME NEW i \in JobIds, BeginMalformed(i) \/ BeginFails(i)
      PROVE  OneIdentity' /\ GoneCalls' /\ DeletedMappingGone'
    BY <1>0, <1>2, EndGone DEF BeginMalformed, BeginFails, Raise, dbVars
<1>3. CASE PutFails
  <2>1. \A e \in Ext : remote'[e] = remote[e] \/ (wpc = "put" /\ e = wext)
      BY <1>3 DEF PutFails, GoneInv, Shape, TypeOK
  <2>2. wpc' = "fail"
      BY <1>3 DEF PutFails, Raise
  <2> QED BY <1>0, <1>3, <2>1, <2>2, EndGone DEF PutFails, dbVars
<1>4. CASE PutBlocked
    BY <1>0, <1>4, EndGone DEF PutBlocked, Raise, dbVars
<1>5. CASE DeleteFails
  <2>1. \A e \in Ext : remote'[e] = remote[e] \/ remote'[e] = "absent"
      BY <1>5 DEF DeleteFails, GoneInv, Shape, TypeOK
  <2>2. wpc' = "fail"
      BY <1>5 DEF DeleteFails, Raise
  <2> QED BY <1>0, <1>5, <2>1, <2>2, EndGone DEF DeleteFails, dbVars
<1>6. CASE DiscardStale
    BY <1>6, EndGone DEF DiscardStale, Done, dbVars
<1>7. CASE ConfirmPut
  <2>1. \A k \in JobIds : jobs'[k].ext = jobs[k].ext /\ jobs'[k].user = jobs[k].user
      BY <1>0, <1>7 DEF ConfirmPut
  <2>2. \A u \in Users : \/ mapping'[u] = mapping[u]
                         \/ /\ mapping[u].status # "none" /\ mapping'[u].ext = mapping[u].ext
                            /\ mapping'[u].status = "active"
      BY <1>0, <1>7, MappingTypes DEF ConfirmPut, GoneInv
  <2>3. panel = "removed" => panel' = "removed"
    <3>1. cur \in DOMAIN copy
        BY <1>7 DEF ConfirmPut, GoneInv, Shape, Loaded, Working
    <3>2. copy[cur].user \in Users
        BY <3>1, LoadedJob DEF GoneInv
    <3> QED BY <1>7, <3>2 DEF ConfirmPut, GoneInv, Shape, Cascaded
  <2> QED BY <1>7, <2>1, <2>2, <2>3, EndGone DEF ConfirmPut, Done
<1>8. CASE ConfirmAborts
    BY <1>8, EndGone DEF ConfirmAborts, DropBatch, NoCopy, dbVars
<1>9. CASE ConfirmDelete
  <2> DEFINE u == copy[cur].user
  <2>1. \A k \in JobIds : jobs'[k].ext = jobs[k].ext /\ jobs'[k].user = jobs[k].user
      BY <1>0, <1>9 DEF ConfirmDelete, Complete
  <2>2. remote[<<u, 1>>] = "absent"
      BY <1>9 DEF ConfirmDelete, GoneInv, GoneCalls, OneIdentity, Calling
  <2>3. \A v \in Users : \/ mapping'[v] = mapping[v]
                         \/ /\ v = u /\ mapping[v].status # "none"
                            /\ mapping'[v].ext = mapping[v].ext /\ mapping'[v].status = "deleted"
      BY <1>9, MappingTypes DEF ConfirmDelete, GoneInv
  <2> HIDE DEF u
  <2> QED BY <1>9, <2>1, <2>2, <2>3, EndGone DEF ConfirmDelete, Done
<1>10. CASE RecordFailure
  <2>1. \A k \in JobIds : jobs'[k].ext = jobs[k].ext /\ jobs'[k].user = jobs[k].user
      BY <1>0, <1>10 DEF RecordFailure
  <2> QED BY <1>10, <2>1, EndGone DEF RecordFailure, Done
<1>11. CASE RecordAborts
    BY <1>11, EndGone DEF RecordAborts, DropBatch, NoCopy, dbVars
<1>12. CASE Crash
    BY <1>12, EndGone DEF Crash, DropBatch, NoCopy, dbVars
<1> QED BY <1>1, <1>2, <1>3, <1>4, <1>5, <1>6, <1>7, <1>8, <1>9, <1>10, <1>11, <1>12

(* Steps of the worker towards and through a request. *)
LEMMA WorkerCallGone ==
    ASSUME GoneInv, \/ Load \/ PutAccepted \/ DeleteAccepted
                    \/ \E i \in JobIds : BeginPut(i) \/ BeginDelete(i)
    PROVE  OneIdentity' /\ GoneCalls' /\ DeletedMappingGone'
<1>0. /\ jobs \in [JobIds -> Job] /\ remote \in [Ext -> Content]
      /\ \A u \in Users : mapping[u].status # "none" => mapping[u].ext = <<u, 1>> /\ mapping[u].ext \in Ext
    BY MappingTypes DEF GoneInv, OneIdentity, Shape, TypeOK
<1>1. CASE Load
  <2>1. DOMAIN copy' \subseteq JobIds /\ \A i \in DOMAIN copy' : copy'[i] = jobs[i]
      BY <1>1 DEF Load, Pending
  <2>2. \A i \in DOMAIN copy' : copy'[i].ext \in {<<copy'[i].user, 0>>, <<copy'[i].user, 1>>}
      BY <2>1 DEF GoneInv, OneIdentity
  <2>3. OneIdentity'
      BY <1>1, <2>2 DEF Load, dbVars, GoneInv, OneIdentity, Calling
  <2> QED BY <1>1, <2>3 DEF Load, dbVars, GoneInv, GoneCalls, DeletedMappingGone
<1>2. CASE PutAccepted
  <2>1. wext = <<copy[cur].user, 1>> /\ mapping[copy[cur].user].status # "deleted"
      BY <1>2 DEF PutAccepted, GoneInv, OneIdentity, GoneCalls, Calling
  <2>2. OneIdentity'
      BY <1>2, <2>1 DEF PutAccepted, dbVars, GoneInv, OneIdentity, Calling
  <2>3. \A e \in Ext : e # wext => remote'[e] = remote[e]
      BY <1>0, <1>2 DEF PutAccepted
  <2>4. \A u \in Users : mapping[u].status = "deleted" => <<u, 1>> # wext
      BY <2>1
  <2>5. DeletedMappingGone'
      BY <1>0, <1>2, <2>3, <2>4 DEF PutAccepted, dbVars, GoneInv, DeletedMappingGone
  <2> QED BY <1>2, <2>1, <2>2, <2>5 DEF PutAccepted, dbVars, GoneCalls
<1>3. CASE DeleteAccepted
  <2>1. wext = <<copy[cur].user, 1>> /\ wext \in Ext
      BY <1>3 DEF DeleteAccepted, GoneInv, OneIdentity, Calling, Shape, Loaded
  <2>2. OneIdentity'
      BY <1>3, <2>1 DEF DeleteAccepted, dbVars, GoneInv, OneIdentity, Calling
  <2>3. remote'[wext] = "absent" /\ \A e \in Ext : remote'[e] \in {remote[e], "absent"}
      BY <1>0, <1>3, <2>1 DEF DeleteAccepted
  <2>4. DeletedMappingGone'
      BY <1>0, <1>3, <2>3 DEF DeleteAccepted, dbVars, GoneInv, DeletedMappingGone
  <2> QED BY <1>3, <2>2, <2>3, <2>4 DEF DeleteAccepted, dbVars, GoneCalls
<1>4. ASSUME NEW i \in JobIds, BeginPut(i)
      PROVE  OneIdentity' /\ GoneCalls' /\ DeletedMappingGone'
  <2>1. i \in DOMAIN copy /\ copy[i].user \in Users
      BY <1>4, LoadedJob DEF BeginPut, IsNext, GoneInv
  <2>2. mapping[copy[i].user].status \notin {"none", "deleted"}
      BY <1>4 DEF BeginPut, IsStale
  <2>3. wext' = <<copy[i].user, 1>>
      BY <1>0, <1>4, <2>1, <2>2 DEF BeginPut
  <2>4. OneIdentity'
      BY <1>4, <2>3 DEF BeginPut, dbVars, GoneInv, OneIdentity, Calling
  <2> QED BY <1>4, <2>2, <2>4 DEF BeginPut, dbVars, GoneInv, GoneCalls, DeletedMappingGone
<1>5. ASSUME NEW i \in JobIds, BeginDelete(i)
      PROVE  OneIdentity' /\ GoneCalls' /\ DeletedMappingGone'
  <2>1. wext' = <<copy[i].user, 1>>
      BY <1>5 DEF BeginDelete, IsNext, NoExt, GoneInv, OneIdentity
  <2>2. OneIdentity'
      BY <1>5, <2>1 DEF BeginDelete, dbVars, GoneInv, OneIdentity, Calling
  <2> QED BY <1>5, <2>2 DEF BeginDelete, dbVars, GoneInv, GoneCalls, DeletedMappingGone
<1> QED BY <1>1, <1>2, <1>3, <1>4, <1>5

(* Plans made while reading name an id the user has. *)
LEMMA OpenGone ==
    ASSUME GoneInv, NEW s \in Slots, NEW w \in Wants, NEW who \in SUBSET Users, NEW kind,
           Open(s, kind, who, w)
    PROVE  OneIdentity' /\ GoneCalls' /\ DeletedMappingGone'
<1>1. PICK first \in [who -> 0..MaxJobs] :
          /\ \A u \in who : first[u] \in MayFind(u)
          /\ req' = [req EXCEPT ![s] =
                        [kind |-> kind, who |-> who, want |-> w,
                         plan |-> [u \in Users |-> IF u \in who THEN PlanFor(kind, u, w, first[u])
                                                  ELSE NoPlan(u)]]]
    BY DEF Open
<1>2. \A u \in Users : NoPlan(u).ext = <<u, 0>>
    BY DEF NoPlan, NoExt
<1>3. \A u \in Users : \A j : DeletePlan(u, j).ext \in {<<u, 0>>, <<u, 1>>}
    BY <1>2 DEF DeletePlan, NothingToDelete, GoneInv, OneIdentity
<1>4. \A u \in Users : \A c, j : PutPlan(u, c, j).ext = <<u, 0>>
    BY DEF PutPlan, NoExt
<1>5. \A u \in Users : \A j : PlanFor(kind, u, w, j).ext \in {<<u, 0>>, <<u, 1>>}
    BY <1>2, <1>3, <1>4 DEF PlanFor, SyncPlan
<1> DEFINE plan == [u \in Users |-> IF u \in who THEN PlanFor(kind, u, w, first[u]) ELSE NoPlan(u)]
           r == [kind |-> kind, who |-> who, want |-> w, plan |-> plan]
<1>6. \A u \in Users : plan[u].ext \in {<<u, 0>>, <<u, 1>>}
    BY <1>2, <1>5
<1>7. req' = [req EXCEPT ![s] = r] /\ r.plan = plan
    BY <1>1
<1> HIDE DEF plan, r
<1>8. \A t \in Slots : req'[t] = IF t = s THEN r ELSE req[t]
    BY <1>7 DEF GoneInv, Shape, TypeOK
<1>9. \A t \in Slots, u \in Users : req'[t].plan[u].ext \in {<<u, 0>>, <<u, 1>>}
    BY <1>6, <1>7, <1>8 DEF GoneInv, OneIdentity
<1> QED BY <1>9 DEF Open, dbVars, workerVars, GoneInv, OneIdentity, Calling, GoneCalls,
                    DeletedMappingGone

LEMMA CommitGone ==
    ASSUME GoneInv, NEW s \in Slots, Commit(s)
    PROVE  OneIdentity' /\ GoneCalls' /\ DeletedMappingGone'
<1>1. \A i \in JobIds : jobs'[i].ext \in {<<jobs'[i].user, 0>>, <<jobs'[i].user, 1>>}
  <2> SUFFICES ASSUME NEW i \in JobIds
               PROVE  jobs'[i].ext \in {<<jobs'[i].user, 0>>, <<jobs'[i].user, 1>>}
      OBVIOUS
  <2>1. /\ \A u \in Users : /\ req[s].plan[u] \in Plan /\ req[s].plan[u].ext[1] = u
                            /\ req[s].plan[u].ext \in {<<u, 0>>, <<u, 1>>}
        /\ jobs[i] \in Job /\ jobs[i].ext \in {<<jobs[i].user, 0>>, <<jobs[i].user, 1>>}
      BY DEF GoneInv, OneIdentity, Shape, TypeOK, Owned, Request
  <2>2. ASSUME NEW u \in Users, jobs'[i] = InsertedJob(u, req[s].plan[u])
        PROVE  jobs'[i].ext \in {<<jobs'[i].user, 0>>, <<jobs'[i].user, 1>>}
      BY <2>1, <2>2, InsertedType
  <2>3. ASSUME NEW u \in Users, jobs[i].user = u,
               jobs'[i] = RewrittenJob(jobs[i], req[s].plan[u])
        PROVE  jobs'[i].ext \in {<<jobs'[i].user, 0>>, <<jobs'[i].user, 1>>}
      BY <2>1, <2>3, RewrittenType
  <2> QED BY <2>1, <2>2, <2>3, CommitJobs DEF GoneInv
<1>2. \A u \in Users : NoMapping(u).status = "none"
    BY DEF NoMapping
<1>3. \A u \in Users : mapping'[u].status # "none" => mapping'[u].ext = <<u, 1>>
  <2> SUFFICES ASSUME NEW u \in Users, mapping'[u].status # "none" PROVE mapping'[u].ext = <<u, 1>>
      OBVIOUS
  <2>1. CASE mapping[u].status = "none" /\ panel # "removed" /\ want[u] # "gone"
    <3>1. fresh[u] = 0 /\ fresh[u] + 1 = 1
        BY <2>1 DEF GoneInv, OneIdentity
    <3> QED BY <1>2, <2>1, <3>1, CommitMapping DEF GoneInv
  <2>2. CASE ~(mapping[u].status = "none" /\ panel # "removed" /\ want[u] # "gone")
      BY <1>2, <2>2, CommitMapping DEF GoneInv, OneIdentity
  <2> QED BY <2>1, <2>2
<1>4. \A u \in Users : mapping'[u].status = "deleted" => mapping'[u] = mapping[u]
    BY <1>2, CommitMapping DEF GoneInv
<1>5. \A u \in Users : \/ fresh'[u] = 0 \/ mapping'[u].status # "none"
                       \/ panel' = "removed" \/ want'[u] = "gone"
  <2> SUFFICES ASSUME NEW u \in Users, mapping'[u].status = "none", panel' # "removed", want'[u] # "gone"
               PROVE  fresh'[u] = 0
      OBVIOUS
  <2>1. u \notin Dropped(req[s])
      BY DEF Commit, Dropped
  <2>2. mapping'[u] = mapping[u]
      BY <2>1, CommitMapping DEF GoneInv
  <2>3. panel # "removed"
      BY DEF Commit
  <2>4. want[u] # "gone"
      BY DEF Commit, RollsBack
  <2>5. ~req[s].plan[u].isNew
      BY <2>1, CommitIsNew DEF GoneInv
  <2>6. fresh[u] = 0
      BY <2>2, <2>3, <2>4 DEF GoneInv, OneIdentity
  <2> QED BY <2>5, <2>6 DEF Commit
<1>6. \A t \in Slots, u \in Users : req'[t].plan[u].ext \in {<<u, 0>>, <<u, 1>>}
  <2>1. \A t \in Slots : req'[t] = IF t = s THEN Idle ELSE req[t]
      BY DEF Commit, GoneInv, Shape, TypeOK
  <2>2. \A u \in Users : Idle.plan[u].ext = <<u, 0>>
    <3>1. \A u \in Users : Idle.plan[u] = NoPlan(u)
        BY DEF Idle
    <3>2. \A u \in Users : NoPlan(u).ext = <<u, 0>>
        BY DEF NoPlan, NoExt
    <3> QED BY <3>1, <3>2
  <2> QED BY <2>1, <2>2 DEF GoneInv, OneIdentity
<1>7. OneIdentity'
    BY <1>1, <1>3, <1>5, <1>6 DEF Commit, workerVars, GoneInv, OneIdentity, Calling
<1>8. DeletedMappingGone'
    BY <1>4 DEF Commit, GoneInv, DeletedMappingGone
<1>9. GoneCalls'
  <2>1. wpc \in {"put", "commit"} => copy[cur].user \in Users
      BY LoadedJob DEF GoneInv, Shape, Loaded, Working
  <2> QED BY <1>4, <2>1 DEF Commit, workerVars, GoneInv, GoneCalls
<1> QED BY <1>7, <1>8, <1>9

LEMMA StepGone ==
    ASSUME "blocked" \notin Faults, GoneInv, [Next]_vars
    PROVE  GoneInv'
<1> DEFINE Good == OneIdentity' /\ GoneCalls' /\ DeletedMappingGone'
<1>1. Shape'
    BY StepShape DEF GoneInv
<1> SUFFICES Good
    BY <1>1 DEF GoneInv
<1>2. CASE Worker
    BY <1>2, WorkerEndGone, WorkerCallGone DEF Worker, Begin
<1>3. CASE WorkerFaults
    BY <1>3, WorkerEndGone DEF WorkerFaults, Rotate, PutBlocked, Fault
<1>4. ASSUME NEW s \in Writers, Api(s) PROVE Good
  <2>1. s \in Slots /\ "lost" \in Wants
      BY DEF Slots, Wants
  <2>2. ASSUME NEW u \in Users PROVE {u} \in SUBSET Users
      OBVIOUS
  <2>3. ASSUME NEW u \in Users, NEW w \in Wants, ReadEvent(s, u, w) PROVE Good
      BY <2>1, <2>2, <2>3, OpenGone DEF ReadEvent
  <2>4. ASSUME NEW u \in Users, ReadRemoveUser(s, u) PROVE Good
      BY <2>1, <2>2, <2>4, OpenGone DEF ReadRemoveUser
  <2>5. CASE ReadRemovePanel(s)
      BY <2>1, <2>5, OpenGone DEF ReadRemovePanel
  <2>6. CASE ReadDisconnect(s)
      BY <2>1, <2>6, OpenGone DEF ReadDisconnect
  <2> QED BY <1>4, <2>3, <2>4, <2>5, <2>6 DEF Api
<1>5. ASSUME NEW u \in Users, ReadTick(u) PROVE Good
  <2>1. Tick \in Slots /\ want[u] \in Wants /\ {u} \in SUBSET Users
      BY DEF Slots, GoneInv, Shape, TypeOK
  <2> QED BY <1>5, <2>1, OpenGone DEF ReadTick
<1>6. ASSUME NEW s \in Slots, Commit(s) PROVE Good
    BY <1>6, CommitGone
<1>7. ASSUME NEW s \in Slots, Rollback(s) PROVE Good
  <2>1. \A t \in Slots : req'[t] = IF t = s THEN Idle ELSE req[t]
      BY <1>7 DEF Rollback, GoneInv, Shape, TypeOK
  <2>2. \A u \in Users : Idle.plan[u].ext = <<u, 0>>
    <3>1. \A u \in Users : Idle.plan[u] = NoPlan(u)
        BY DEF Idle
    <3>2. \A u \in Users : NoPlan(u).ext = <<u, 0>>
        BY DEF NoPlan, NoExt
    <3> QED BY <3>1, <3>2
  <2>3. \A t \in Slots, u \in Users : req'[t].plan[u].ext \in {<<u, 0>>, <<u, 1>>}
      BY <2>1, <2>2 DEF GoneInv, OneIdentity
  <2> QED BY <1>7, <2>3 DEF Rollback, dbVars, workerVars, GoneInv, OneIdentity, Calling,
                            GoneCalls, DeletedMappingGone
<1>8. CASE Environment
  <2>1. \A u \in Users : want[u] = "gone" => want'[u] = "gone"
      BY <1>8 DEF Environment, Edit, PanelSync, Reconnect, GoneInv, Shape, TypeOK
  <2>2. panel = "removed" => panel' = "removed"
      BY <1>8 DEF Environment, Edit, PanelSync, Reconnect
  <2>3. UNCHANGED <<mapping, jobs, fresh, req, remote, workerVars>>
      BY <1>8 DEF Environment, Edit, PanelSync, Reconnect
  <2> QED BY <2>1, <2>2, <2>3 DEF workerVars, GoneInv, OneIdentity, Calling, GoneCalls,
                                  DeletedMappingGone
<1>9. CASE UNCHANGED vars
    BY <1>9 DEF vars, dbVars, workerVars, GoneInv, OneIdentity, Calling, GoneCalls,
                DeletedMappingGone
<1> HIDE DEF Good
<1> QED BY <1>2, <1>3, <1>4, <1>5, <1>6, <1>7, <1>8, <1>9 DEF Next

(* Without USER_IDENTITY_BLOCKED answers, no interleaving of requests, worker, failures and *)
(* crashes leaves an account on OC for a mapping marked deleted: stale creates and updates  *)
(* are skipped and racing deletes end with the account gone.                                *)
THEOREM DeletedStaysGone ==
    ASSUME "blocked" \notin Faults
    PROVE  Spec => []DeletedMappingGone
<1>1. GoneInv => DeletedMappingGone
    BY DEF GoneInv
<1>2. GoneInv /\ [Next]_vars => GoneInv'
    BY StepGone
<1> QED BY InitGone, <1>1, <1>2, PTL DEF Spec

-----------------------------------------------------------------------------
(* Active mappings tell the truth, as long as the connection is not given up.                *)

LEMMA InitApplied == Init => AppliedInv
<1> SUFFICES ASSUME Init PROVE AppliedInv OBVIOUS
<1>1. Idle.kind = "idle" /\ \A u \in Users : NoMapping(u).status = "none"
    BY IdlePlan DEF NoMapping
<1> QED BY <1>1, InitShape
        DEF Init, AppliedInv, Confirming, Connected, ActiveMappingApplied

(* The user of the current job has an open job; nobody else's account is touched. *)
LEMMA CurrentUserOpen ==
    ASSUME Shape, Calling
    PROVE  /\ cur \in JobIds /\ jobs[cur].status = "pending" /\ jobs[cur].user = copy[cur].user
           /\ \A u \in Users : mapping[u].ext = wext => u = copy[cur].user
<1>1. cur \in DOMAIN copy /\ wext[1] = copy[cur].user
    BY DEF Shape, Loaded, Working, Calling
<1> QED BY <1>1, LoadedJob, MappingTypes

(* Jobs that stay open, and mappings that stay or are no longer active. *)
LEMMA OpenJobsApplied ==
    ASSUME Shape, ActiveMappingApplied,
           \A u \in Users : mapping'[u] = mapping[u] \/ mapping'[u].status # "active",
           \A i \in JobIds : jobs[i].status \in {"pending", "failed"} =>
               jobs'[i].status \in {"pending", "failed"} /\ jobs'[i].user = jobs[i].user,
           \A e \in Ext : remote'[e] = remote[e] \/ (Calling /\ e = wext)
    PROVE  ActiveMappingApplied'
<1> SUFFICES ASSUME NEW u \in Users, mapping'[u].status = "active"
             PROVE  \/ remote'[mapping'[u].ext] = RemoteOf(mapping'[u].synced)
                    \/ \E i \in JobIds : /\ jobs'[i].user = u
                                         /\ jobs'[i].status \in {"pending", "failed"}
    BY DEF ActiveMappingApplied, RemoteOf
<1>1. mapping'[u] = mapping[u] /\ mapping[u].ext \in Ext
    BY MappingTypes
<1>2. CASE \E i \in JobIds : jobs[i].user = u /\ jobs[i].status \in {"pending", "failed"}
    BY <1>2
<1>3. CASE ~\E i \in JobIds : jobs[i].user = u /\ jobs[i].status \in {"pending", "failed"}
  <2>1. remote[mapping[u].ext] = RemoteOf(mapping[u].synced)
      BY <1>1, <1>3 DEF ActiveMappingApplied
  <2>2. ~(Calling /\ mapping[u].ext = wext)
      BY <1>3, CurrentUserOpen
  <2> QED BY <1>1, <2>1, <2>2
<1> QED BY <1>2, <1>3

(* One job is completed and the mapping of its user is right or not active. *)
LEMMA CompletedApplied ==
    ASSUME Shape, ActiveMappingApplied, NEW i \in JobIds, NEW u \in Users,
           jobs[i].user = u, remote' = remote,
           \A k \in JobIds : k # i => jobs'[k] = jobs[k],
           \A v \in Users : v # u => mapping'[v] = mapping[v],
           \/ mapping'[u].status # "active"
           \/ remote[mapping'[u].ext] = RemoteOf(mapping'[u].synced)
    PROVE  ActiveMappingApplied'
<1> SUFFICES ASSUME NEW v \in Users, mapping'[v].status = "active"
             PROVE  \/ remote'[mapping'[v].ext] = RemoteOf(mapping'[v].synced)
                    \/ \E k \in JobIds : /\ jobs'[k].user = v
                                         /\ jobs'[k].status \in {"pending", "failed"}
    BY DEF ActiveMappingApplied, RemoteOf
<1>1. CASE v = u
    BY <1>1
<1>2. CASE v # u
    BY <1>2 DEF ActiveMappingApplied
<1> QED BY <1>1, <1>2

LEMMA PutIsSynced ==
    ASSUME NEW c \in Job
    PROVE  RemoteOf(SyncedBy(c)) = Put(c)
BY OcSyncAssumption DEF OcSyncAssumption, RemoteOf, SyncedBy, Put, Job

LEMMA WorkerApplied ==
    ASSUME AppliedInv, Worker \/ WorkerFaults
    PROVE  Confirming' /\ Connected' /\ ActiveMappingApplied'
<1> DEFINE Good == Confirming' /\ Connected' /\ ActiveMappingApplied'
<1>0. /\ jobs \in [JobIds -> Job] /\ remote \in [Ext -> Content] /\ mapping \in [Users -> Mapping]
      /\ conn = TRUE
    BY DEF AppliedInv, Connected, Shape, TypeOK
<1>1. ASSUME NEW i \in JobIds, SkipStale(i) PROVE Good
  <2>1. /\ i \in DOMAIN copy /\ copy[i].user \in Users /\ jobs[i].user = copy[i].user
      BY <1>1, LoadedJob DEF SkipStale, IsNext, AppliedInv
  <2>2. mapping'[copy[i].user].status # "active"
      BY <1>1, <2>1 DEF SkipStale, IsStale, AppliedInv, Shape, Cascaded
  <2>3. \A k \in JobIds : k # i => jobs'[k] = jobs[k]
      BY <1>0, <1>1 DEF SkipStale, Complete
  <2>4. ActiveMappingApplied'
      BY <1>1, <2>1, <2>2, <2>3, CompletedApplied DEF SkipStale, AppliedInv
  <2> QED BY <1>1, <2>4 DEF SkipStale, Done, AppliedInv, Confirming, Connected
<1>2. ASSUME NEW i \in JobIds, SkipUnconnected(i) PROVE Good
    BY <1>0, <1>2 DEF SkipUnconnected
<1>3. ASSUME UNCHANGED <<mapping, jobs, conn, req>>,
             \A e \in Ext : remote'[e] = remote[e] \/ (Calling /\ e = wext)
      PROVE  Connected' /\ ActiveMappingApplied'
  <2>1. ActiveMappingApplied'
      BY <1>3, OpenJobsApplied DEF AppliedInv
  <2> QED BY <1>3, <2>1 DEF AppliedInv, Connected
<1>4. CASE \/ Load \/ DiscardStale \/ ConfirmAborts \/ RecordAborts \/ Crash
           \/ \E i \in JobIds : BeginDelete(i) \/ BeginMalformed(i) \/ BeginFails(i)
  <2>1. Connected' /\ ActiveMappingApplied'
      BY <1>3, <1>4 DEF Load, DiscardStale, ConfirmAborts, RecordAborts, Crash, BeginDelete,
                        BeginMalformed, BeginFails, dbVars
  <2>2. wpc' \notin {"put", "commit"}
      BY <1>4 DEF Load, DiscardStale, ConfirmAborts, RecordAborts, Crash, BeginDelete,
                  BeginMalformed, BeginFails, Raise, Done, DropBatch
  <2> QED BY <2>1, <2>2 DEF Confirming
<1>5. ASSUME NEW i \in JobIds, BeginPut(i) PROVE Good
  <2>1. Connected' /\ ActiveMappingApplied'
      BY <1>3, <1>5 DEF BeginPut, dbVars
  <2>2. mapping[copy[i].user].status # "none"
      BY <1>5 DEF BeginPut, IsStale
  <2> QED BY <1>5, <2>1, <2>2 DEF BeginPut, dbVars, Confirming
<1>6. CASE PutAccepted
  <2>1. wext \in Ext /\ Calling
      BY <1>6 DEF PutAccepted, AppliedInv, Shape, Loaded, Calling
  <2>2. remote'[wext] = Put(copy[cur]) /\ \A e \in Ext : e # wext => remote'[e] = remote[e]
      BY <1>0, <1>6, <2>1 DEF PutAccepted
  <2>3. Connected' /\ ActiveMappingApplied'
      BY <1>3, <1>6, <2>1, <2>2 DEF PutAccepted, dbVars
  <2>4. Confirming'
      BY <1>6, <2>2 DEF PutAccepted, dbVars, AppliedInv, Confirming, Put
  <2> QED BY <2>3, <2>4
<1>7. CASE PutFails \/ PutBlocked \/ DeleteAccepted \/ DeleteFails
  <2>1. Calling /\ \A e \in Ext : e # wext => remote'[e] = remote[e]
      BY <1>0, <1>7 DEF PutFails, PutBlocked, DeleteAccepted, DeleteFails, Calling
  <2>2. Connected' /\ ActiveMappingApplied'
      BY <1>3, <1>7, <2>1 DEF PutFails, PutBlocked, DeleteAccepted, DeleteFails, dbVars
  <2>3. wpc' \notin {"put", "commit"}
      BY <1>7 DEF PutFails, PutBlocked, DeleteAccepted, DeleteFails, Raise
  <2> QED BY <2>2, <2>3 DEF Confirming
<1>8. CASE Rotate
  <2>1. Connected' /\ ActiveMappingApplied'
      BY <1>3, <1>8 DEF Rotate
  <2> QED BY <1>8, <2>1 DEF Rotate, Confirming
<1>9. CASE ConfirmPut
  <2> DEFINE u == copy[cur].user
  <2>1. /\ cur \in JobIds /\ u \in Users /\ jobs[cur].user = u /\ copy[cur] \in Job
        /\ wpc = "commit"
    <3>1. cur \in DOMAIN copy /\ wpc = "commit"
        BY <1>9 DEF ConfirmPut, AppliedInv, Shape, Loaded, Working
    <3> QED BY <3>1, LoadedJob DEF AppliedInv
  <2>2. /\ mapping'[u].ext = IF wrot THEN wext ELSE mapping[u].ext
        /\ mapping'[u].synced = SyncedBy(copy[cur])
        /\ mapping[u].status # "none"
      BY <1>0, <1>9, <2>1 DEF ConfirmPut
  <2>3. mapping'[u].ext = wext /\ remote[wext] = Put(copy[cur])
      BY <2>1, <2>2 DEF AppliedInv, Confirming
  <2>4. remote[mapping'[u].ext] = RemoteOf(mapping'[u].synced)
      BY <2>1, <2>2, <2>3, PutIsSynced
  <2>5. /\ \A k \in JobIds : k # cur => jobs'[k] = jobs[k]
        /\ \A v \in Users : v # u => mapping'[v] = mapping[v]
      BY <1>0, <1>9 DEF ConfirmPut
  <2> HIDE DEF u
  <2>6. ActiveMappingApplied'
      BY <1>9, <2>1, <2>4, <2>5, CompletedApplied DEF ConfirmPut, AppliedInv
  <2> QED BY <1>9, <2>6 DEF ConfirmPut, Done, AppliedInv, Confirming, Connected
<1>10. CASE ConfirmDelete
  <2> DEFINE u == copy[cur].user
  <2>1. cur \in JobIds /\ u \in Users /\ jobs[cur].user = u
    <3>1. cur \in DOMAIN copy
        BY <1>10 DEF ConfirmDelete, AppliedInv, Shape, Loaded, Working
    <3> QED BY <3>1, LoadedJob DEF AppliedInv
  <2>2. mapping'[u].status # "active" /\ \A v \in Users : v # u => mapping'[v] = mapping[v]
      BY <1>0, <1>10, <2>1 DEF ConfirmDelete
  <2>3. \A k \in JobIds : k # cur => jobs'[k] = jobs[k]
      BY <1>0, <1>10 DEF ConfirmDelete, Complete
  <2> HIDE DEF u
  <2>4. ActiveMappingApplied'
      BY <1>10, <2>1, <2>2, <2>3, CompletedApplied DEF ConfirmDelete, AppliedInv
  <2> QED BY <1>10, <2>4 DEF ConfirmDelete, Done, AppliedInv, Confirming, Connected
<1>11. CASE RecordFailure
  <2>1. cur \in JobIds /\ jobs[cur].status = "pending"
    <3>1. cur \in DOMAIN copy
        BY <1>11 DEF RecordFailure, AppliedInv, Shape, Loaded, Working
    <3> QED BY <3>1, LoadedJob DEF AppliedInv
  <2>2. \A k \in JobIds : jobs[k].status \in {"pending", "failed"} =>
            jobs'[k].status \in {"pending", "failed"} /\ jobs'[k].user = jobs[k].user
    <3>1. \A k \in JobIds : k # cur => jobs'[k] = jobs[k]
        BY <1>0, <1>11 DEF RecordFailure
    <3>2. jobs'[cur].status \in {"pending", "failed"} /\ jobs'[cur].user = jobs[cur].user
        BY <1>0, <1>11, <2>1 DEF RecordFailure
    <3> QED BY <3>1, <3>2
  <2>3. ActiveMappingApplied'
      BY <1>11, <2>2, OpenJobsApplied DEF RecordFailure, AppliedInv
  <2> QED BY <1>11, <2>3 DEF RecordFailure, Done, AppliedInv, Confirming, Connected
<1> HIDE DEF Good
<1>12. Good
    BY <1>1, <1>2, <1>4, <1>5, <1>6, <1>7, <1>8, <1>9, <1>10, <1>11
    DEF Worker, WorkerFaults, Begin, Good
<1> QED BY <1>12 DEF Good

(* Requests, commits and the environment: no open job is ended, no mapping becomes active. *)
LEMMA QuietApplied ==
    ASSUME AppliedInv, Shape', UNCHANGED <<mapping, jobs, remote, workerVars, conn>>,
           \A s \in Slots : req'[s].kind # "disconnect",
           panel = "removed" => panel' = "removed",
           \A u \in Users : want[u] = "gone" => want'[u] = "gone"
    PROVE  AppliedInv'
<1>1. Confirming'
  <2>1. wpc \in {"put", "commit"} => copy[cur].user \in Users
      BY LoadedJob DEF AppliedInv, Shape, Loaded, Working
  <2> QED BY <2>1 DEF AppliedInv, Confirming, workerVars, Put
<1>2. Connected'
    BY DEF AppliedInv, Connected
<1>3. ActiveMappingApplied'
    BY OpenJobsApplied DEF AppliedInv
<1> QED BY <1>1, <1>2, <1>3 DEF AppliedInv

LEMMA OpenApplied ==
    ASSUME AppliedInv, NEW s, NEW w, NEW who, NEW kind, kind # "disconnect",
           Open(s, kind, who, w), Shape'
    PROVE  AppliedInv'
<1>1. PICK plan : req' = [req EXCEPT ![s] =
                            [kind |-> kind, who |-> who, want |-> w, plan |-> plan]]
    BY DEF Open
<1>2. \A t \in Slots : req'[t].kind # "disconnect"
    BY <1>1 DEF AppliedInv, Connected, Shape, TypeOK
<1> QED BY <1>2, QuietApplied DEF Open, dbVars

LEMMA CommitApplied ==
    ASSUME AppliedInv, NEW s \in Slots, Commit(s), Shape'
    PROVE  AppliedInv'
<1>1. ActiveMappingApplied'
  <2>1. \A u \in Users : mapping'[u] = mapping[u] \/ mapping'[u].status # "active"
    <3>1. \A u \in Users : NoMapping(u).status = "none"
        BY DEF NoMapping
    <3> QED BY <3>1, CommitMapping DEF AppliedInv
  <2>2. \A i \in JobIds : jobs[i].status \in {"pending", "failed"} =>
            jobs'[i].status \in {"pending", "failed"} /\ jobs'[i].user = jobs[i].user
      BY CommitKeepsJob DEF AppliedInv
  <2> QED BY <2>1, <2>2, OpenJobsApplied DEF Commit, AppliedInv
<1>2. Connected'
    BY IdlePlan DEF Commit, AppliedInv, Connected, Shape, TypeOK
<1>3. Confirming'
  <2> SUFFICES ASSUME wpc \in {"put", "commit"}, ~wrot
               PROVE  LET u == copy[cur].user IN
                      \/ mapping'[u].status # "none" /\ mapping'[u].ext = wext
                      \/ mapping'[u].status = "none" /\ (panel' = "removed" \/ want'[u] = "gone")
      BY DEF Commit, workerVars, AppliedInv, Confirming, Put
  <2> DEFINE u == copy[cur].user
  <2>1. u \in Users
      BY LoadedJob DEF AppliedInv, Shape, Loaded, Working
  <2>2. \/ mapping[u].status # "none" /\ mapping[u].ext = wext
        \/ mapping[u].status = "none" /\ (panel = "removed" \/ want[u] = "gone")
      BY DEF AppliedInv, Confirming
  <2>3. NoMapping(u).status = "none"
      BY DEF NoMapping
  <2>4. u \in Dropped(req[s]) => panel' = "removed" \/ want'[u] = "gone"
      BY <2>1 DEF Commit, Dropped
  <2>5. /\ panel = "removed" => panel' = "removed"
        /\ want[u] = "gone" => want'[u] = "gone"
      BY <2>1 DEF Commit, RollsBack
  <2> HIDE DEF u
  <2> QED BY <2>1, <2>2, <2>3, <2>4, <2>5, CommitMapping DEF AppliedInv, u
<1> QED BY <1>1, <1>2, <1>3 DEF AppliedInv

LEMMA StepApplied ==
    ASSUME "disconnect" \notin Requests, AppliedInv, [Next]_vars
    PROVE  AppliedInv'
<1>0. Shape'
    BY StepShape DEF AppliedInv
<1>1. CASE Worker \/ WorkerFaults
    BY <1>0, <1>1, WorkerApplied DEF AppliedInv
<1>2. ASSUME NEW s \in Writers, Api(s) PROVE AppliedInv'
  <2>1. ASSUME NEW u \in Users, NEW w \in Wants, ReadEvent(s, u, w) PROVE AppliedInv'
      BY <1>0, <2>1, OpenApplied DEF ReadEvent
  <2>2. ASSUME NEW u \in Users, ReadRemoveUser(s, u) PROVE AppliedInv'
      BY <1>0, <2>2, OpenApplied DEF ReadRemoveUser
  <2>3. CASE ReadRemovePanel(s)
      BY <1>0, <2>3, OpenApplied DEF ReadRemovePanel
  <2>4. ~ReadDisconnect(s)
      BY DEF ReadDisconnect, ApiRequest
  <2> QED BY <1>2, <2>1, <2>2, <2>3, <2>4 DEF Api
<1>3. ASSUME NEW u \in Users, ReadTick(u) PROVE AppliedInv'
    BY <1>0, <1>3, OpenApplied DEF ReadTick
<1>4. ASSUME NEW s \in Slots, Commit(s) PROVE AppliedInv'
    BY <1>0, <1>4, CommitApplied
<1>5. ASSUME NEW s \in Slots, Rollback(s) PROVE AppliedInv'
  <2>1. \A t \in Slots : req'[t].kind # "disconnect"
      BY <1>5, IdlePlan DEF Rollback, AppliedInv, Connected, Shape, TypeOK
  <2> QED BY <1>0, <1>5, <2>1, QuietApplied DEF Rollback, dbVars
<1>6. CASE Environment
  <2>1. \A u \in Users : want[u] = "gone" => want'[u] = "gone"
      BY <1>6 DEF Environment, Edit, PanelSync, Reconnect, AppliedInv, Shape, TypeOK
  <2>2. panel = "removed" => panel' = "removed"
      BY <1>6 DEF Environment, Edit, PanelSync, Reconnect
  <2>3. UNCHANGED <<mapping, jobs, remote, workerVars, req>> /\ conn' = conn
      BY <1>6 DEF Environment, Edit, PanelSync, Reconnect, ApiRequest
  <2> QED BY <1>0, <2>1, <2>2, <2>3, QuietApplied DEF AppliedInv, Connected
<1>7. CASE UNCHANGED vars
    BY <1>0, <1>7, QuietApplied DEF vars, dbVars, AppliedInv, Connected
<1> QED BY <1>1, <1>2, <1>3, <1>4, <1>5, <1>6, <1>7 DEF Next

(* While the connection is kept, whatever races, fails, is rotated or crashes, the configs   *)
(* recorded as synced on an active mapping are what OC has for its external user, or a       *)
(* pending or failed job of the user shows that they may not be.                             *)
THEOREM ActiveIsApplied ==
    ASSUME "disconnect" \notin Requests
    PROVE  Spec => []ActiveMappingApplied
<1>1. AppliedInv => ActiveMappingApplied
    BY DEF AppliedInv
<1>2. AppliedInv /\ [Next]_vars => AppliedInv'
    BY StepApplied
<1> QED BY InitApplied, <1>1, <1>2, PTL DEF Spec

-----------------------------------------------------------------------------
(* Intents are coalesced *)

(* The transactions that will add a job for u. *)
Inserters(u) == {s \in Slots : u \in Inserted(req[s])}

(* A transaction only plans a new job where it found no pending one, so the pending jobs of *)
(* a user and the transactions about to add one never outnumber the transactions.           *)
Coalesced ==
    \A u \in Users : Cardinality(PendingOf(u)) + Cardinality(Inserters(u)) <= Cardinality(Slots)

LEMMA Counts ==
    ASSUME NEW u \in Users
    PROVE  /\ IsFiniteSet(Slots) /\ Cardinality(Slots) \in Nat
           /\ IsFiniteSet(PendingOf(u)) /\ Cardinality(PendingOf(u)) \in Nat
           /\ IsFiniteSet(Inserters(u)) /\ Cardinality(Inserters(u)) \in Nat
           /\ Cardinality(Inserters(u)) <= Cardinality(Slots)
<1>1. IsFiniteSet(Slots)
    BY OcSyncAssumption, FS_AddElement DEF OcSyncAssumption, Slots
<1>2. IsFiniteSet(JobIds)
    BY OcSyncAssumption, FS_Interval DEF OcSyncAssumption, JobIds
<1>3. PendingOf(u) \in SUBSET JobIds /\ Inserters(u) \in SUBSET Slots
    BY DEF PendingOf, Pending, Inserters
<1>4. /\ IsFiniteSet(PendingOf(u)) /\ IsFiniteSet(Inserters(u))
      /\ Cardinality(Inserters(u)) <= Cardinality(Slots)
    BY <1>1, <1>2, <1>3, FS_Subset
<1> QED BY <1>1, <1>4, FS_CardinalityType

LEMMA CountsNext ==
    ASSUME NEW u \in Users
    PROVE  /\ IsFiniteSet(PendingOf(u)') /\ Cardinality(PendingOf(u)') \in Nat
           /\ IsFiniteSet(Inserters(u)') /\ Cardinality(Inserters(u)') \in Nat
           /\ Cardinality(Inserters(u)') <= Cardinality(Slots)
<1>1. IsFiniteSet(Slots)
    BY OcSyncAssumption, FS_AddElement DEF OcSyncAssumption, Slots
<1>2. IsFiniteSet(JobIds)
    BY OcSyncAssumption, FS_Interval DEF OcSyncAssumption, JobIds
<1>3. PendingOf(u)' \in SUBSET JobIds /\ Inserters(u)' \in SUBSET Slots
    BY DEF PendingOf, Pending, Inserters
<1>4. /\ IsFiniteSet(PendingOf(u)') /\ IsFiniteSet(Inserters(u)')
      /\ Cardinality(Inserters(u)') <= Cardinality(Slots)
    BY <1>1, <1>2, <1>3, FS_Subset
<1> QED BY <1>1, <1>4, FS_CardinalityType

LEMMA FewerCoalesced ==
    ASSUME Coalesced, NEW u \in Users,
           PendingOf(u)' \subseteq PendingOf(u), Inserters(u)' \subseteq Inserters(u)
    PROVE  Cardinality(PendingOf(u)') + Cardinality(Inserters(u)') <= Cardinality(Slots)
<1>1. /\ Cardinality(PendingOf(u)') <= Cardinality(PendingOf(u))
      /\ Cardinality(Inserters(u)') <= Cardinality(Inserters(u))
    BY Counts, FS_Subset
<1>2. Cardinality(PendingOf(u)) + Cardinality(Inserters(u)) <= Cardinality(Slots)
    BY DEF Coalesced
<1> HIDE DEF Coalesced
<1> QED BY <1>1, <1>2, Counts, CountsNext

(* Steps that neither open nor commit a transaction. *)
LEMMA QuietCoalesced ==
    ASSUME Coalesced, \A s \in Slots : req'[s] \in {req[s], Idle},
           \A i \in JobIds : jobs'[i].status = "pending" =>
              jobs[i].status = "pending" /\ jobs'[i].user = jobs[i].user
    PROVE  Coalesced'
<1> SUFFICES ASSUME NEW u \in Users
             PROVE  Cardinality(PendingOf(u)') + Cardinality(Inserters(u)') <= Cardinality(Slots)
    BY DEF Coalesced
<1>1. PendingOf(u)' \subseteq PendingOf(u)
    BY DEF PendingOf, Pending
<1>2. Idle.plan[u].act = "none"
    BY DEF Idle, NoPlan
<1>3. Inserters(u)' \subseteq Inserters(u)
    BY <1>2 DEF Inserters, Inserted, Touched
<1> QED BY <1>1, <1>3, FewerCoalesced

(* A plan without a job to rewrite was made when nothing was pending. *)
LEMMA PlanCoalesces ==
    ASSUME NEW kind, NEW u \in Users, NEW w, NEW j \in MayFind(u),
           PlanFor(kind, u, w, j).act # "none", PlanFor(kind, u, w, j).job = 0
    PROVE  PendingOf(u) = {}
<1>1. PlanFor(kind, u, w, j) \in {NoPlan(u), PutPlan(u, w, j), DeletePlan(u, j)}
    BY DEF PlanFor, SyncPlan
<1>2. NoPlan(u).act = "none" /\ PutPlan(u, w, j).job = j
    BY DEF NoPlan, PutPlan
<1>3. DeletePlan(u, j).act = "none" \/ DeletePlan(u, j).job = j
    BY <1>2 DEF DeletePlan
<1>4. j = 0
    BY <1>1, <1>2, <1>3
<1>5. 0 \notin PendingOf(u)
    BY OcSyncAssumption DEF OcSyncAssumption, PendingOf, Pending, JobIds
<1> QED BY <1>4, <1>5 DEF MayFind

LEMMA OpenCoalesced ==
    ASSUME Shape, Coalesced, NEW s \in Slots, NEW kind, NEW w, NEW who \in SUBSET Users,
           Open(s, kind, who, w)
    PROVE  Coalesced'
<1>1. PICK first \in [who -> 0..MaxJobs] :
          LET plan == [u \in Users |-> IF u \in who THEN PlanFor(kind, u, w, first[u])
                                       ELSE NoPlan(u)]
          IN  /\ \A u \in who : first[u] \in MayFind(u)
              /\ req' = [req EXCEPT ![s] =
                            [kind |-> kind, who |-> who, want |-> w, plan |-> plan]]
    BY DEF Open
<1> SUFFICES ASSUME NEW u \in Users
             PROVE  Cardinality(PendingOf(u)') + Cardinality(Inserters(u)') <= Cardinality(Slots)
    BY DEF Coalesced
<1>2. jobs' = jobs
    BY DEF Open, dbVars
<1>3. PendingOf(u)' = PendingOf(u)
    BY <1>2 DEF PendingOf, Pending
<1>4. CASE u \in Inserted(req'[s])
  <2>1. /\ req'[s].plan[u].act # "none" /\ req'[s].plan[u].job = 0
      BY <1>4 DEF Inserted, Touched
  <2>2. req'[s].plan[u] = IF u \in who THEN PlanFor(kind, u, w, first[u]) ELSE NoPlan(u)
      BY <1>1 DEF Shape, TypeOK
  <2>3. u \in who
      BY <2>1, <2>2 DEF NoPlan
  <2>4. PendingOf(u) = {}
      BY <1>1, <2>1, <2>2, <2>3, PlanCoalesces
  <2>5. Cardinality(PendingOf(u)') = 0
      BY <1>3, <2>4, FS_EmptySet
  <2> QED BY <2>5, CountsNext
<1>5. CASE u \notin Inserted(req'[s])
  <2>1. \A t \in Slots : t # s => req'[t] = req[t]
      BY <1>1 DEF Shape, TypeOK
  <2>2. Inserters(u)' \subseteq Inserters(u)
      BY <1>5, <2>1 DEF Inserters, Inserted, Touched
  <2> QED BY <1>3, <2>2, FewerCoalesced
<1> QED BY <1>4, <1>5

(* A commit adds at most one pending job for a user, in the place of the plan. *)
LEMMA CommitAdds ==
    ASSUME Shape, NEW s \in Slots, Commit(s), NEW u \in Users
    PROVE  \/ PendingOf(u)' \subseteq PendingOf(u)
           \/ u \in Inserted(req[s]) /\ \E n : PendingOf(u)' \subseteq PendingOf(u) \cup {n}
<1> DEFINE r == req[s]
<1>1. PICK f \in NewIds(r) :
          jobs' = [k \in JobIds |->
              IF \E v \in Inserted(r) : f[v] = k
              THEN LET x == CHOOSE v \in Inserted(r) : f[v] = k
                   IN  InsertedJob(x, r.plan[x])
              ELSE IF \E v \in Touched(r) \ Inserted(r) : r.plan[v].job = k
              THEN LET x == CHOOSE v \in Touched(r) \ Inserted(r) : r.plan[v].job = k
                   IN  RewrittenJob(jobs[k], r.plan[x])
              ELSE jobs[k]]
    BY DEF Commit
<1>2. ASSUME NEW i \in JobIds, i \in PendingOf(u)', i \notin PendingOf(u)
      PROVE  u \in Inserted(r) /\ i = f[u]
  <2>1. jobs[i] \in Job /\ jobs'[i].status = "pending" /\ jobs'[i].user = u
      BY <1>2 DEF PendingOf, Pending, Shape, TypeOK
  <2>2. jobs[i].status # "pending" \/ jobs[i].user # u
      BY <1>2 DEF PendingOf, Pending
  <2>3. CASE \E v \in Inserted(r) : f[v] = i
    <3> DEFINE x == CHOOSE v \in Inserted(r) : f[v] = i
    <3>1. x \in Inserted(r) /\ f[x] = i
        BY <2>3
    <3>2. jobs'[i] = InsertedJob(x, r.plan[x])
        BY <1>1, <2>3
    <3> HIDE DEF x
    <3>3. jobs'[i].user = x
        BY <3>2 DEF InsertedJob
    <3> QED BY <2>1, <3>1, <3>3
  <2>4. CASE /\ ~\E v \in Inserted(r) : f[v] = i
             /\ \E v \in Touched(r) \ Inserted(r) : r.plan[v].job = i
    <3> DEFINE x == CHOOSE v \in Touched(r) \ Inserted(r) : r.plan[v].job = i
    <3>1. x \in Users
        BY <2>4 DEF Touched
    <3>2. jobs'[i] = RewrittenJob(jobs[i], r.plan[x])
        BY <1>1, <2>4
    <3> HIDE DEF x
    <3>3. r.plan \in [Users -> Plan]
        BY DEF Shape, TypeOK, Request
    <3>4. r.plan[x] \in Plan
        BY <3>1, <3>3
    <3> QED BY <2>1, <2>2, <3>2, <3>4, RewrittenType
  <2>5. CASE /\ ~\E v \in Inserted(r) : f[v] = i
             /\ ~\E v \in Touched(r) \ Inserted(r) : r.plan[v].job = i
    <3>1. jobs'[i] = jobs[i]
        BY <1>1, <2>5
    <3> QED BY <2>1, <2>2, <3>1
  <2> QED BY <2>3, <2>4, <2>5
<1>3. PendingOf(u)' \subseteq JobIds
    BY DEF PendingOf, Pending
<1> QED BY <1>2, <1>3

LEMMA CommitCoalesced ==
    ASSUME Shape, Coalesced, NEW s \in Slots, Commit(s)
    PROVE  Coalesced'
<1> SUFFICES ASSUME NEW u \in Users
             PROVE  Cardinality(PendingOf(u)') + Cardinality(Inserters(u)') <= Cardinality(Slots)
    BY DEF Coalesced
<1>1. Idle.plan[u].act = "none"
    BY DEF Idle, NoPlan
<1>2. \A t \in Slots : req'[t] = IF t = s THEN Idle ELSE req[t]
    BY DEF Commit, Shape, TypeOK
<1>3. Inserters(u)' \subseteq Inserters(u) \ {s}
    BY <1>1, <1>2 DEF Inserters, Inserted, Touched
<1>4. CASE PendingOf(u)' \subseteq PendingOf(u)
    BY <1>3, <1>4, FewerCoalesced
<1>5. CASE u \in Inserted(req[s]) /\ \E n : PendingOf(u)' \subseteq PendingOf(u) \cup {n}
  <2>1. PICK n : PendingOf(u)' \subseteq PendingOf(u) \cup {n}
      BY <1>5
  <2>2. s \in Inserters(u)
      BY <1>5 DEF Inserters
  <2>3. Cardinality(PendingOf(u)') <= Cardinality(PendingOf(u)) + 1
    <3>1. /\ IsFiniteSet(PendingOf(u) \cup {n})
          /\ \/ Cardinality(PendingOf(u) \cup {n}) = Cardinality(PendingOf(u))
             \/ Cardinality(PendingOf(u) \cup {n}) = Cardinality(PendingOf(u)) + 1
        BY Counts, FS_AddElement
    <3>2. Cardinality(PendingOf(u)') <= Cardinality(PendingOf(u) \cup {n})
        BY <2>1, <3>1, FS_Subset
    <3> QED BY <3>1, <3>2, Counts, CountsNext
  <2>4. Cardinality(Inserters(u)') <= Cardinality(Inserters(u)) - 1
    <3>1. /\ IsFiniteSet(Inserters(u) \ {s})
          /\ Cardinality(Inserters(u) \ {s}) = Cardinality(Inserters(u)) - 1
        BY <2>2, Counts, FS_RemoveElement
    <3> QED BY <1>3, <3>1, FS_Subset
  <2>5. Cardinality(PendingOf(u)) + Cardinality(Inserters(u)) <= Cardinality(Slots)
      BY DEF Coalesced
  <2> HIDE DEF Coalesced
  <2> QED BY <2>3, <2>4, <2>5, Counts, CountsNext
<1> QED BY <1>4, <1>5, CommitAdds

(* The worker only ends jobs. *)
LEMMA WorkerCoalesced == Shape /\ Coalesced /\ (Worker \/ WorkerFaults) => Coalesced'
<1> SUFFICES ASSUME Shape, Coalesced, Worker \/ WorkerFaults PROVE Coalesced' OBVIOUS
<1>1. req' = req
    BY DEF Worker, WorkerFaults, Load, Begin, SkipStale, SkipUnconnected, BeginPut, BeginDelete,
           BeginMalformed, BeginFails, PutAccepted, DeleteAccepted, DiscardStale, ConfirmPut,
           ConfirmAborts, ConfirmDelete, RecordFailure, RecordAborts, PutFails, Rotate,
           PutBlocked, DeleteFails, Crash
<1>2. jobs \in [JobIds -> Job]
    BY DEF Shape, TypeOK
<1>3. ASSUME NEW i \in JobIds
      PROVE  \/ jobs'[i] = jobs[i]
             \/ jobs'[i].status # "pending"
             \/ jobs[i].status = "pending" /\ jobs'[i].user = jobs[i].user
  <2>1. CASE \E k \in JobIds : SkipStale(k) \/ SkipUnconnected(k)
      BY <1>2, <2>1 DEF SkipStale, SkipUnconnected, Complete, Job
  <2>2. CASE ConfirmPut \/ ConfirmDelete \/ RecordFailure
    <3>1. cur \in JobIds /\ jobs[cur].status = "pending"
        BY <2>2 DEF ConfirmPut, ConfirmDelete, RecordFailure, Working, Shape, Loaded
    <3>2. CASE ConfirmPut
        BY <1>2, <3>1, <3>2 DEF ConfirmPut, Rotated, Job
    <3>3. CASE ConfirmDelete
        BY <1>2, <3>1, <3>3 DEF ConfirmDelete, Complete, Job
    <3>4. CASE RecordFailure
        BY <1>2, <3>1, <3>4 DEF RecordFailure, Job
    <3> QED BY <2>2, <3>2, <3>3, <3>4
  <2>3. CASE jobs' = jobs
      BY <2>3
  <2> QED
    BY <2>1, <2>2, <2>3
       DEF Worker, WorkerFaults, Load, Begin, BeginPut, BeginDelete, BeginMalformed, BeginFails,
           PutAccepted, DeleteAccepted, DiscardStale, ConfirmAborts, RecordAborts, PutFails,
           Rotate, PutBlocked, DeleteFails, Crash, dbVars
<1> QED BY <1>1, <1>3, QuietCoalesced

LEMMA StepCoalesced == Shape /\ Coalesced /\ [Next]_vars => Coalesced'
<1> SUFFICES ASSUME Shape, Coalesced, [Next]_vars PROVE Coalesced' OBVIOUS
<1>0. "lost" \in Wants /\ Writers \subseteq Slots /\ Tick \in Slots
    BY DEF Wants, Slots
<1>1. CASE Worker \/ WorkerFaults
    BY <1>1, WorkerCoalesced
<1>2. ASSUME NEW s \in Writers, Api(s) PROVE Coalesced'
    BY <1>0, <1>2, OpenCoalesced
       DEF Api, ReadEvent, ReadRemoveUser, ReadRemovePanel, ReadDisconnect
<1>3. ASSUME NEW u \in Users, ReadTick(u) PROVE Coalesced'
    BY <1>0, <1>3, OpenCoalesced DEF ReadTick
<1>4. ASSUME NEW s \in Slots, Commit(s) PROVE Coalesced'
    BY <1>4, CommitCoalesced
<1>5. ASSUME NEW s \in Slots, Rollback(s) PROVE Coalesced'
    BY <1>5, QuietCoalesced DEF Rollback, dbVars, Shape, TypeOK
<1>6. CASE Environment \/ UNCHANGED vars
    BY <1>6, QuietCoalesced DEF Environment, Edit, PanelSync, Reconnect, vars, dbVars
<1> QED BY <1>1, <1>2, <1>3, <1>4, <1>5, <1>6 DEF Next

LEMMA InitCoalesced == Init => Coalesced
<1> SUFFICES ASSUME Init, NEW u \in Users
             PROVE  Cardinality(PendingOf(u)) + Cardinality(Inserters(u)) <= Cardinality(Slots)
    BY DEF Coalesced
<1>1. PendingOf(u) = {}
    BY DEF Init, PendingOf, Pending, NoJob
<1>2. Cardinality(PendingOf(u)) = 0
    BY <1>1, FS_EmptySet
<1> QED BY <1>2, Counts

(* The outbox coalesces intents: however many requests and ticks race, a user never has more *)
(* pending jobs than there are transactions open at once (the "existing pending job" queries *)
(* of app/node/oc_sync.py).                                                                  *)
THEOREM JobsCoalesce == Spec => []PendingPerWriter
<1>1. Coalesced => PendingPerWriter
  <2> SUFFICES ASSUME Coalesced, NEW u \in Users
               PROVE  Cardinality(PendingOf(u)) <= Cardinality(Slots)
      BY DEF PendingPerWriter
  <2>1. Cardinality(PendingOf(u)) + Cardinality(Inserters(u)) <= Cardinality(Slots)
      BY DEF Coalesced
  <2> HIDE DEF Coalesced
  <2> QED BY <2>1, Counts
<1> QED BY InitShape, StepShape, InitCoalesced, StepCoalesced, <1>1, PTL DEF Spec
=============================================================================
