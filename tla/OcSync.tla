------------------------------- MODULE OcSync -------------------------------
(***************************************************************************)
(* The Outbound Center (OC) sync outbox of the panel: API requests and the *)
(* five-minute reconcile tick queue intents in oc_sync_states, one worker  *)
(* executes them against OC over HTTP and confirms them in the database.   *)
(*                                                                         *)
(* One imported panel and its users.  A database transaction that first    *)
(* reads and later writes is two steps (Read..., then Commit): anything    *)
(* may happen in between, as it may between two awaits of the code.  A job *)
(* the worker holds is the copy its batch query loaded; the worker never   *)
(* reads it again before it writes.                                        *)
(*                                                                         *)
(* A member of Configs stands for a desired payload (configs and groups).  *)
(* External user ids are pairs <<u, k>>: the k-th uuid drawn for user u,   *)
(* k = 0 standing for "no id".                                             *)
(***************************************************************************)
EXTENDS Naturals, FiniteSets

CONSTANTS
    Users,          \* users whose inbounds may include the imported panel
    Configs,        \* desired payloads
    Writers,        \* concurrent API requests
    Tick,           \* the reconcile job's own transaction
    BatchLimit,     \* jobs one worker run loads (50 in the code)
    MaxAttempts,    \* OCSyncState.max_attempts (3 in the code)
    Faults,         \* what OC, the network and the process may do wrong
    Requests,       \* the kinds of API request that occur
    MaxJobs, MaxExt, MaxRev, MaxFaults, MaxEvents   \* bounds of the checked instance

JobIds == 1..MaxJobs
Ext    == Users \X (1..MaxExt)
Ext0   == Users \X (0..MaxExt)
NoExt(u) == <<u, 0>>

AllFaults   == {"lost", "transient", "permanent", "inactive", "blocked", "nourl",
                "setup", "crash"}
AllRequests == {"event", "edit", "removeUser", "removePanel", "disconnect", "panelSync"}

ASSUME OcSyncAssumption ==
    /\ IsFiniteSet(Users) /\ Users # {}
    /\ Configs \cap {"absent", "bare", "null", "empty", "lost", "unexplained",
                     "unresolved", "gone", "none"} = {}
    /\ Tick \notin Writers /\ IsFiniteSet(Writers)
    /\ BatchLimit \in Nat \ {0} /\ MaxAttempts \in Nat \ {0}
    /\ Faults \subseteq AllFaults /\ Requests \subseteq AllRequests
    /\ MaxJobs \in Nat /\ MaxExt \in Nat /\ MaxRev \in Nat
    /\ MaxFaults \in Nat /\ MaxEvents \in Nat

VARIABLES
    want,     \* want[u]: what the user's state asks of the panel
    panel,    \* OCPanel: "connected", "blocked" (sync_status) or "removed"
    conn,     \* the panel's Telegram connection to OC is active
    mapping,  \* mapping[u]: the OCUserMapping row
    jobs,     \* jobs[i]: the OCSyncState row with id i
    fresh,    \* fresh[u]: uuids drawn for u so far
    req,      \* req[s]: the transaction open in slot s
    remote,   \* remote[e]: the user with external id e on OC
    wpc, copy, cur,     \* worker: control point, loaded jobs, current job
    wext, wrot, wsnap,  \* worker: target id, rotated this run, rows read for it
    wanswer,            \* worker: what the last request answered
    faults, events      \* budgets spent

dbVars     == <<want, panel, conn, mapping, jobs, fresh>>
workerVars == <<wpc, copy, cur, wext, wrot, wsnap, wanswer>>
vars       == <<dbVars, req, remote, workerVars, faults, events>>

Slots == Writers \cup {Tick}

\* What the user's state asks for: a payload; "unresolved": the user still has tags of the
\* panel but nothing may be queued (empty catalog, blocked group selection, workspace
\* mismatch); "unexplained": no tags although access and a group are enabled; "lost": no
\* access or no enabled group; "gone": the user is deleted.
Wants == Configs \cup {"unresolved", "unexplained", "lost", "gone"}

\* last_synced_configs: "null" before the first provisioning, "empty" after a delete.
Mapping == [status : {"none", "pending", "active", "deleted"}, ext : Ext0,
            synced : Configs \cup {"null", "empty"}, url : BOOLEAN]
NoMapping(u) == [status |-> "none", ext |-> NoExt(u), synced |-> "null", url |-> FALSE]

\* The payload of a job is (cfg, rot) for a PUT and ext for a DELETE.
Job == [status : {"free", "pending", "completed", "failed"}, user : Users,
        op : {"create", "update", "delete"}, cfg : Configs \cup {"none"}, ext : Ext0,
        rot : BOOLEAN, rev : 0..MaxRev, att : 0..MaxAttempts]
AnyUser == CHOOSE u \in Users : TRUE
NoJob == [status |-> "free", user |-> AnyUser, op |-> "delete", cfg |-> "none",
          ext |-> NoExt(AnyUser), rot |-> FALSE, rev |-> 0, att |-> 0]

NoCopy == [i \in {} |-> NoJob]

\* What an open transaction will write for one user.  keepOp and keepPayload: the attribute
\* was not changed from the value read, so the UPDATE does not name it.
Plan == [act : {"none", "put", "delete"}, op : {"create", "update", "delete"},
         cfg : Configs \cup {"none"}, ext : Ext0, rot : BOOLEAN, job : 0..MaxJobs,
         rev : 0..MaxRev, keepOp : BOOLEAN, keepPayload : BOOLEAN,
         isNew : BOOLEAN, toPending : BOOLEAN]
NoPlan(u) == [act |-> "none", op |-> "delete", cfg |-> "none", ext |-> NoExt(u),
              rot |-> FALSE, job |-> 0, rev |-> 0, keepOp |-> FALSE,
              keepPayload |-> FALSE, isNew |-> FALSE, toPending |-> FALSE]

Request == [kind : {"idle", "tick", "event", "removeUser", "removePanel", "disconnect"},
            who : SUBSET Users, want : Wants, plan : [Users -> Plan]]
Idle == [kind |-> "idle", who |-> {}, want |-> "lost", plan |-> [u \in Users |-> NoPlan(u)]]

Snap == [map : Mapping, panel : {"connected", "blocked", "removed"}]
NoSnap == [map |-> NoMapping(AnyUser), panel |-> "removed"]

Content == Configs \cup {"absent", "bare"}

Init ==
    /\ want = [u \in Users |-> "lost"]
    /\ panel = "connected" /\ conn = TRUE
    /\ mapping = [u \in Users |-> NoMapping(u)]
    /\ jobs = [i \in JobIds |-> NoJob]
    /\ fresh = [u \in Users |-> 0]
    /\ req = [s \in Slots |-> Idle]
    /\ remote = [e \in Ext |-> "absent"]
    /\ wpc = "idle" /\ copy = NoCopy /\ cur = 0
    /\ wext = NoExt(AnyUser) /\ wrot = FALSE /\ wsnap = NoSnap /\ wanswer = "none"
    /\ faults = 0 /\ events = 0

-----------------------------------------------------------------------------
(* Enqueueing: app/node/oc_sync.py *)

Pending      == {i \in JobIds : jobs[i].status = "pending"}
PendingOf(u) == {i \in Pending : jobs[i].user = u}
FailedOf(u)  == {i \in JobIds : jobs[i].status = "failed" /\ jobs[i].user = u}

\* Mutant of MayFind: the pending job is not looked up, every intent is a new row.
MayFindNothing(u) == {0}

\* The pending job .scalars().first() may return for u (no ORDER BY), 0 for None.
MayFind(u) == IF PendingOf(u) = {} THEN {0} ELSE PendingOf(u)

\* merge_identity_rotation_payload: the marker of the pending, else of the last failed job.
RotationMarker(u, j) ==
    IF j # 0 THEN jobs[j].rot
    ELSE \E i \in FailedOf(u) : (\A k \in FailedOf(u) : k <= i) /\ jobs[i].rot

\* Mutant of Healthy: drift of the configs goes unnoticed.
HealthyWhateverConfigs(m, c) == m.status = "active" /\ m.url

\* mapping_is_healthy: provisioned, nothing drifted, with a subscription URL.
Healthy(m, c) == m.status = "active" /\ m.synced = c /\ m.url

\* resolve_oc_sync_operation
PutOperation(m) ==
    IF m.status \in {"none", "deleted"} \/ m.synced \in {"null", "empty"}
    THEN "create" ELSE "update"

PutPlan(u, c, j) ==
    [act |-> "put", op |-> PutOperation(mapping[u]), cfg |-> c, ext |-> NoExt(u),
     rot |-> RotationMarker(u, j), job |-> j,
     rev |-> IF j = 0 THEN 1 ELSE jobs[j].rev + 1,
     keepOp |-> j # 0 /\ jobs[j].op # "delete",
     keepPayload |-> j # 0 /\ jobs[j].cfg = c,
     isNew |-> mapping[u].status = "none",
     toPending |-> mapping[u].status = "deleted"]

\* Mutant of NothingToDelete: only confirmed provisionings are deleted again.
OnlyActiveDeleted(u) == mapping[u].status # "active"

\* A mapping already deleted is left alone.
NothingToDelete(u) ==
    \/ mapping[u].status = "none"
    \/ mapping[u].status = "deleted" /\ mapping[u].synced = "empty"

\* enqueue_mapping_delete_sync
DeletePlan(u, j) ==
    IF NothingToDelete(u)
    THEN NoPlan(u)
    ELSE [act |-> "delete", op |-> "delete", cfg |-> "none", ext |-> mapping[u].ext,
          rot |-> FALSE, job |-> j,
          rev |-> IF j = 0 THEN 1 ELSE jobs[j].rev + 1,
          keepOp |-> j # 0 /\ jobs[j].op = "delete",
          keepPayload |-> j # 0 /\ jobs[j].ext = mapping[u].ext,
          isNew |-> FALSE, toPending |-> FALSE]

\* enqueue_oc_user_sync for one user who wants w; periodic is the five-minute tick.
SyncPlan(u, w, periodic, j) ==
    LET m == mapping[u]
        deferred == periodic /\ m.synced = "empty"
    IN  CASE w \in Configs ->
                IF panel = "connected" /\ conn /\ ~deferred /\ ~Healthy(m, w)
                THEN PutPlan(u, w, j) ELSE NoPlan(u)
          [] w = "unresolved" -> NoPlan(u)
          [] OTHER -> IF periodic /\ w # "lost" THEN NoPlan(u) ELSE DeletePlan(u, j)

WithinBounds(plan) ==
    \A u \in Users : /\ plan[u].rev <= MaxRev
                     /\ plan[u].isNew => fresh[u] < MaxExt

\* The rows a transaction of that kind will write for u, given the pending job it found.
PlanFor(kind, u, w, j) ==
    IF kind \in {"removePanel", "disconnect"}
    THEN DeletePlan(u, j) ELSE SyncPlan(u, w, kind = "tick", j)

\* The read half of a transaction of slot s: it remembers what it will write.
Open(s, kind, who, w) ==
    /\ req[s].kind = "idle"
    /\ \E first \in [who -> 0..MaxJobs] :
          LET plan == [u \in Users |-> IF u \in who THEN PlanFor(kind, u, w, first[u])
                                       ELSE NoPlan(u)]
          IN  /\ \A u \in who : first[u] \in MayFind(u)
              /\ WithinBounds(plan)
              /\ req' = [req EXCEPT ![s] =
                            [kind |-> kind, who |-> who, want |-> w, plan |-> plan]]
    /\ UNCHANGED <<dbVars, remote, workerVars, faults>>

ApiRequest(kind) == kind \in Requests /\ events < MaxEvents /\ events' = events + 1

\* A user or group edit that now asks for w and synchronises the user in its transaction.
ReadEvent(s, u, w) ==
    /\ ApiRequest("event") /\ want[u] # "gone" /\ w # "gone"
    /\ Open(s, "event", {u}, w)

\* remove_user: status disabled, enqueue, then the row is deleted.
ReadRemoveUser(s, u) ==
    /\ ApiRequest("removeUser") /\ want[u] # "gone"
    /\ Open(s, "removeUser", {u}, "lost")

\* DELETE /panel/{id}: remove_imported_panel over every mapping of the panel.
ReadRemovePanel(s) ==
    /\ ApiRequest("removePanel") /\ panel # "removed"
    /\ Open(s, "removePanel", {u \in Users : mapping[u].status # "none"}, "lost")

\* A Telegram disconnect queues the deletes of the tenant's or workspace's users.
ReadDisconnect(s) ==
    /\ ApiRequest("disconnect") /\ conn
    /\ Open(s, "disconnect", {u \in Users : mapping[u].status # "none"}, "lost")

\* reconcile_all_oc_users, for one user, when it has something to queue.
ReadTick(u) ==
    /\ want[u] # "gone"
    /\ Open(Tick, "tick", {u}, want[u])
    /\ req'[Tick].plan[u].act # "none"
    /\ UNCHANGED events

Touched(r)  == {u \in Users : r.plan[u].act # "none"}
Inserted(r) == {u \in Touched(r) : r.plan[u].job = 0}
Dropped(r)  == CASE r.kind = "removePanel" -> Users
                 [] r.kind = "removeUser"  -> r.who
                 [] OTHER -> {}

\* A unique or foreign key violation, or a row to update that is no longer there.
RollsBack(r) ==
    \/ r.kind = "event" /\ \E u \in r.who : want[u] = "gone"
    \/ \E u \in Users :
          \/ r.plan[u].isNew
             /\ (mapping[u].status # "none" \/ panel = "removed" \/ want[u] = "gone")
          \/ r.plan[u].toPending /\ mapping[u].status = "none"

\* Ids the database may give the inserted jobs: the next ones after those in use.
NewIds(r) ==
    {f \in [Inserted(r) -> JobIds] :
        /\ \A u, v \in Inserted(r) : f[u] = f[v] => u = v
        /\ \A u \in Inserted(r), i \in JobIds :
              /\ jobs[i].status # "free" => i < f[u]
              /\ i < f[u] => jobs[i].status # "free" \/ \E v \in Inserted(r) : f[v] = i}

InsertedJob(u, p) ==
    [status |-> "pending", user |-> u, op |-> p.op, cfg |-> p.cfg, ext |-> p.ext,
     rot |-> p.rot, rev |-> p.rev, att |-> 0]

\* UPDATE by primary key: the status the row has by now is not looked at.
RewrittenJob(j, p) ==
    [j EXCEPT !.op  = IF p.keepOp THEN @ ELSE p.op,
              !.cfg = IF p.keepPayload THEN @ ELSE p.cfg,
              !.ext = IF p.keepPayload THEN @ ELSE p.ext,
              !.rot = IF p.keepPayload THEN @ ELSE p.rot,
              !.rev = p.rev]

WrittenMapping(u, r) ==
    IF u \in Dropped(r) THEN NoMapping(u)
    ELSE IF r.plan[u].isNew
         THEN [NoMapping(u) EXCEPT !.status = "pending", !.ext = <<u, fresh[u] + 1>>]
    ELSE IF r.plan[u].toPending THEN [mapping[u] EXCEPT !.status = "pending"]
    ELSE mapping[u]

\* The write half: flush and commit of the transaction open in slot s.
Commit(s) ==
    LET r == req[s] IN
    /\ r.kind # "idle"
    /\ ~RollsBack(r)
    /\ \A u \in Users : r.plan[u].isNew => fresh[u] < MaxExt
    /\ \E f \in NewIds(r) :
          jobs' = [i \in JobIds |->
              IF \E u \in Inserted(r) : f[u] = i
              THEN LET u == CHOOSE v \in Inserted(r) : f[v] = i
                   IN  InsertedJob(u, r.plan[u])
              ELSE IF \E u \in Touched(r) \ Inserted(r) : r.plan[u].job = i
              THEN LET u == CHOOSE v \in Touched(r) \ Inserted(r) : r.plan[v].job = i
                   IN  RewrittenJob(jobs[i], r.plan[u])
              ELSE jobs[i]]
    /\ mapping' = [u \in Users |-> WrittenMapping(u, r)]
    /\ fresh' = [u \in Users |-> IF r.plan[u].isNew THEN fresh[u] + 1 ELSE fresh[u]]
    /\ want' = [u \in Users |->
                   IF u \notin r.who THEN want[u]
                   ELSE CASE r.kind = "event" -> r.want
                          [] r.kind = "removeUser" -> "gone"
                          [] OTHER -> want[u]]
    /\ panel' = IF r.kind = "removePanel" THEN "removed" ELSE panel
    /\ conn' = IF r.kind = "disconnect" THEN FALSE ELSE conn
    /\ req' = [req EXCEPT ![s] = Idle]
    /\ UNCHANGED <<remote, workerVars, faults, events>>

Rollback(s) ==
    /\ req[s].kind # "idle" /\ RollsBack(req[s])
    /\ req' = [req EXCEPT ![s] = Idle]
    /\ UNCHANGED <<dbVars, remote, workerVars, faults, events>>

\* modify_group commits the group before its users are enqueued: the state changes alone.
Edit(u, w) ==
    /\ ApiRequest("edit") /\ want[u] # "gone" /\ w \notin {"gone", want[u]}
    /\ want' = [want EXCEPT ![u] = w]
    /\ UNCHANGED <<panel, conn, mapping, jobs, fresh, req, remote, workerVars, faults>>

\* sync_panel_from_outbound_center sets sync_status to what OC reports.
PanelSync(st) ==
    /\ ApiRequest("panelSync") /\ panel \notin {"removed", st}
    /\ panel' = st
    /\ UNCHANGED <<want, conn, mapping, jobs, fresh, req, remote, workerVars, faults>>

\* A new active Telegram connection of the same OC account.
Reconnect ==
    /\ ApiRequest("disconnect") /\ ~conn
    /\ conn' = TRUE
    /\ UNCHANGED <<want, panel, mapping, jobs, fresh, req, remote, workerVars, faults>>

-----------------------------------------------------------------------------
(* The worker: process_oc_sync in app/jobs/process_oc_sync.py *)

Fault(f) == f \in Faults /\ faults < MaxFaults /\ faults' = faults + 1
NoFault  == UNCHANGED faults

\* The batch query: the oldest pending jobs, at most BatchLimit, as they are now.
Load ==
    /\ wpc = "idle" /\ Pending # {}
    /\ wpc' = "next"
    /\ copy' = [i \in {j \in Pending : Cardinality({k \in Pending : k < j}) < BatchLimit}
                    |-> jobs[i]]
    /\ UNCHANGED <<dbVars, req, remote, cur, wext, wrot, wsnap, wanswer, faults, events>>

IsNext(i) == wpc = "next" /\ i \in DOMAIN copy /\ \A k \in DOMAIN copy : i <= k

\* The loop goes on to the next job of the batch.
Done(i) ==
    /\ copy' = [k \in DOMAIN copy \ {i} |-> copy[k]]
    /\ wpc' = IF DOMAIN copy = {i} THEN "idle" ELSE "next"
    /\ cur' = 0 /\ wext' = NoExt(AnyUser) /\ wrot' = FALSE
    /\ wsnap' = NoSnap /\ wanswer' = "none"

\* The session is lost with everything not committed: a crash, or a commit that raises.
DropBatch ==
    /\ wpc' = "idle" /\ copy' = NoCopy /\ cur' = 0
    /\ wext' = NoExt(AnyUser) /\ wrot' = FALSE /\ wsnap' = NoSnap /\ wanswer' = "none"

IsPut(c)    == c.op \in {"create", "update"}
Unchanged(i) == jobs[i].rev = copy[i].rev
Complete(i) == jobs' = [jobs EXCEPT ![i].status = "completed"]

\* Mutant of IsStale: a create or update also runs for a mapping deleted since.
IsStaleUnlessDeleted(c) == IsPut(c) /\ (panel = "removed" \/ mapping[c.user].status = "none")

\* Panel or mapping removed, or mapping deleted: completed whatever the revision is.
IsStale(c) == IsPut(c) /\ (panel = "removed" \/ mapping[c.user].status \in {"none", "deleted"})
SkipStale(i) ==
    /\ IsNext(i) /\ IsStale(copy[i])
    /\ Complete(i) /\ Done(i)
    /\ UNCHANGED <<want, panel, conn, mapping, fresh, req, remote, faults, events>>

\* No active connection: completed if unchanged.
SkipUnconnected(i) ==
    /\ IsNext(i) /\ IsPut(copy[i]) /\ ~IsStale(copy[i]) /\ ~conn
    /\ IF Unchanged(i) THEN Complete(i) ELSE UNCHANGED jobs
    /\ Done(i)
    /\ UNCHANGED <<want, panel, conn, mapping, fresh, req, remote, faults, events>>

Raise(kind) == wpc' = "fail" /\ wanswer' = kind

\* The job is taken up: what it needs is read and the first request prepared.
BeginPut(i) ==
    /\ IsNext(i) /\ IsPut(copy[i]) /\ ~IsStale(copy[i]) /\ conn
    /\ wpc' = "put" /\ cur' = i
    /\ wext' = mapping[copy[i].user].ext
    /\ wsnap' = [map |-> mapping[copy[i].user], panel |-> panel]
    /\ NoFault
    /\ UNCHANGED <<dbVars, req, remote, copy, wrot, wanswer, events>>

BeginDelete(i) ==
    /\ IsNext(i) /\ ~IsPut(copy[i]) /\ copy[i].ext # NoExt(copy[i].user)
    /\ wpc' = "delete" /\ cur' = i /\ wext' = copy[i].ext
    /\ NoFault
    /\ UNCHANGED <<dbVars, req, remote, copy, wrot, wsnap, wanswer, events>>

\* external_user_id missing in payload
BeginMalformed(i) ==
    /\ IsNext(i) /\ ~IsPut(copy[i]) /\ copy[i].ext = NoExt(copy[i].user)
    /\ Raise("retry") /\ cur' = i
    /\ NoFault
    /\ UNCHANGED <<dbVars, req, remote, copy, wext, wrot, wsnap, events>>

\* Token, integration or group selection not usable: the job fails before any request.
BeginFails(i) ==
    /\ IsNext(i) /\ (IsPut(copy[i]) => ~IsStale(copy[i]) /\ conn)
    /\ Fault("setup")
    /\ \E kind \in {"retry", "permanent"} : Raise(kind)
    /\ cur' = i
    /\ UNCHANGED <<dbVars, req, remote, copy, wext, wrot, wsnap, events>>

\* What OC holds after a PUT of this payload; a payload without configs gives a bare user.
Put(c) == IF c.cfg = "none" THEN "bare" ELSE c.cfg

\* Both bodies accepted; OC may leave the subscription URL out of its answer.
PutAccepted ==
    /\ wpc = "put" /\ wpc' = "commit"
    /\ remote' = [remote EXCEPT ![wext] = Put(copy[cur])]
    /\ \/ wanswer' = "url" /\ NoFault
       \/ wanswer' = "nourl" /\ Fault("nourl")
    /\ UNCHANGED <<dbVars, req, copy, cur, wext, wrot, wsnap, events>>

\* A refused or failed PUT.  The groups body may have been applied before the configs body
\* failed, and when only the answer is lost all of it may have been.
PutFails ==
    /\ wpc = "put"
    /\ \/ /\ Fault("lost") /\ Raise("retry")
          /\ \E v \in {"bare", Put(copy[cur])} : remote' = [remote EXCEPT ![wext] = v]
       \/ /\ Fault("transient") /\ Raise("retry")
          /\ \E v \in {"bare", remote[wext]} : remote' = [remote EXCEPT ![wext] = v]
       \/ /\ Fault("permanent") /\ Raise("permanent")
          /\ \E v \in {"bare", remote[wext]} : remote' = [remote EXCEPT ![wext] = v]
       \/ Fault("inactive") /\ Raise("inactive") /\ UNCHANGED remote
    /\ UNCHANGED <<dbVars, req, copy, cur, wext, wrot, wsnap, events>>

\* should_rotate_for_identity_blocked and mapping_eligible_for_identity_rotation
MayRotate ==
    /\ copy[cur].op = "create" /\ ~wrot /\ ~copy[cur].rot
    /\ wsnap.map.status # "active" /\ ~wsnap.map.url
    /\ wsnap.map.synced \in {"null", "empty"}

\* USER_IDENTITY_BLOCKED: a new uuid is drawn and the PUTs start again, once.
Rotate ==
    /\ wpc = "put" /\ Fault("blocked") /\ MayRotate
    /\ LET u == copy[cur].user IN
       /\ fresh[u] < MaxExt
       /\ fresh' = [fresh EXCEPT ![u] = @ + 1]
       /\ wext' = <<u, fresh[u] + 1>>
    /\ wrot' = TRUE
    /\ UNCHANGED <<want, panel, conn, mapping, jobs, req, remote, wpc, copy, cur, wsnap,
                   wanswer, events>>

PutBlocked ==
    /\ wpc = "put" /\ Fault("blocked") /\ ~MayRotate
    /\ Raise("retry")
    /\ UNCHANGED <<dbVars, req, remote, copy, cur, wext, wrot, wsnap, events>>

\* 204, or 404: nothing there to delete.
DeleteAccepted ==
    /\ wpc = "delete" /\ wpc' = "commitDelete"
    /\ remote' = [remote EXCEPT ![wext] = "absent"]
    /\ NoFault
    /\ UNCHANGED <<dbVars, req, copy, cur, wext, wrot, wsnap, wanswer, events>>

DeleteFails ==
    /\ wpc = "delete"
    /\ \/ /\ Fault("lost") /\ Raise("retry")
          /\ remote' = [remote EXCEPT ![wext] = "absent"]
       \/ Fault("transient") /\ Raise("retry") /\ UNCHANGED remote
       \/ Fault("permanent") /\ Raise("permanent") /\ UNCHANGED remote
    /\ UNCHANGED <<dbVars, req, copy, cur, wext, wrot, wsnap, events>>

\* The revision moved while the request was out: the result is discarded.
DiscardStale ==
    /\ wpc \in {"commit", "commitDelete"} /\ ~Unchanged(cur)
    /\ Done(cur)
    /\ UNCHANGED <<dbVars, req, remote, faults, events>>

\* Mutant of SyncedBy: the row's payload at confirmation, not the snapshot that was sent.
SyncedByRow(c) == IF jobs[cur].cfg = "none" THEN "empty" ELSE jobs[cur].cfg

\* last_synced_configs_after_successful_put: an empty list when no configs were sent.
SyncedBy(c) == IF c.cfg = "none" THEN "empty" ELSE c.cfg

\* After a rotation the snapshot, with the marker, is also written back as the payload.
Rotated(j) == [j EXCEPT !.status = "completed", !.cfg = copy[cur].cfg, !.ext = copy[cur].ext,
                        !.rot = TRUE]

ConfirmPut ==
    /\ wpc = "commit" /\ Unchanged(cur)
    /\ LET u == copy[cur].user IN
       /\ mapping[u].status # "none"
       /\ jobs' = [jobs EXCEPT ![cur] = IF wrot THEN Rotated(@)
                                        ELSE [@ EXCEPT !.status = "completed"]]
       /\ mapping' = [mapping EXCEPT ![u] =
              [status |-> "active", ext |-> IF wrot THEN wext ELSE @.ext,
               synced |-> SyncedBy(copy[cur]), url |-> @.url \/ wanswer = "url"]]
    /\ panel' = IF wsnap.panel = "blocked" THEN "connected" ELSE panel
    /\ Done(cur)
    /\ UNCHANGED <<want, conn, fresh, req, remote, faults, events>>

\* The mapping row is gone: the flush of the confirmation raises outside the try block.
ConfirmAborts ==
    /\ wpc = "commit" /\ Unchanged(cur) /\ mapping[copy[cur].user].status = "none"
    /\ DropBatch
    /\ UNCHANGED <<dbVars, req, remote, faults, events>>

ConfirmDelete ==
    /\ wpc = "commitDelete" /\ Unchanged(cur)
    /\ Complete(cur)
    /\ LET u == copy[cur].user IN
       mapping' = IF mapping[u].status = "none" THEN mapping
                  ELSE [mapping EXCEPT ![u] = [status |-> "deleted", ext |-> @.ext,
                                               synced |-> "empty", url |-> FALSE]]
    /\ Done(cur)
    /\ UNCHANGED <<want, panel, conn, fresh, req, remote, faults, events>>

\* Mutant of Exhausted: one attempt too many.
ExhaustedLate(att) == att > MaxAttempts

Exhausted(att) == att >= MaxAttempts

BlocksPanel == wanswer = "inactive" /\ wsnap.panel = "connected"

\* The except branch: attempts + 1, failed when permanent or exhausted, whatever the
\* revision is; PANEL_INACTIVE and CONNECTION_REVOKED also mark the panel.
RecordFailure ==
    /\ wpc = "fail" /\ ~(BlocksPanel /\ panel = "removed")
    /\ LET att  == copy[cur].att + 1
           over == wanswer # "retry" \/ Exhausted(att)
       IN  jobs' = [jobs EXCEPT ![cur].att = att,
                                ![cur].status = IF over THEN "failed" ELSE @]
    /\ panel' = IF BlocksPanel THEN "blocked" ELSE panel
    /\ Done(cur)
    /\ UNCHANGED <<want, conn, mapping, fresh, req, remote, faults, events>>

\* The panel row to mark is gone: that commit raises as well.
RecordAborts ==
    /\ wpc = "fail" /\ BlocksPanel /\ panel = "removed"
    /\ DropBatch
    /\ UNCHANGED <<dbVars, req, remote, faults, events>>

Crash ==
    /\ wpc # "idle" /\ Fault("crash")
    /\ DropBatch
    /\ UNCHANGED <<dbVars, req, remote, events>>

Begin(i) == \/ SkipStale(i) \/ SkipUnconnected(i) \/ BeginPut(i) \/ BeginDelete(i)
            \/ BeginMalformed(i)

\* Worker steps that need nothing to go wrong.
Worker == \/ Load \/ (\E i \in JobIds : Begin(i))
          \/ PutAccepted \/ DeleteAccepted \/ DiscardStale \/ ConfirmPut \/ ConfirmAborts
          \/ ConfirmDelete \/ RecordFailure \/ RecordAborts

WorkerFaults == \/ (\E i \in JobIds : BeginFails(i))
                \/ PutFails \/ Rotate \/ PutBlocked \/ DeleteFails \/ Crash

Api(s) == \/ \E u \in Users : (\E w \in Wants : ReadEvent(s, u, w)) \/ ReadRemoveUser(s, u)
          \/ ReadRemovePanel(s) \/ ReadDisconnect(s)

Environment == \/ \E u \in Users, w \in Wants : Edit(u, w)
               \/ \E st \in {"connected", "blocked"} : PanelSync(st)
               \/ Reconnect

Next == \/ Worker \/ WorkerFaults
        \/ \E s \in Writers : Api(s)
        \/ \E u \in Users : ReadTick(u)
        \/ \E s \in Slots : Commit(s) \/ Rollback(s)
        \/ Environment

Spec == Init /\ [][Next]_vars

\* The scheduler keeps firing both jobs and an open transaction ends.
Fairness ==
    /\ WF_vars(Worker)
    /\ \A u \in Users : WF_vars(ReadTick(u))
    /\ \A s \in Slots : WF_vars(Commit(s) \/ Rollback(s))

FairSpec == Spec /\ Fairness

-----------------------------------------------------------------------------
(* Properties *)

TypeOK ==
    /\ want \in [Users -> Wants]
    /\ panel \in {"connected", "blocked", "removed"} /\ conn \in BOOLEAN
    /\ mapping \in [Users -> Mapping]
    /\ jobs \in [JobIds -> Job]
    /\ fresh \in [Users -> 0..MaxExt]
    /\ req \in [Slots -> Request]
    /\ remote \in [Ext -> Content]
    /\ wpc \in {"idle", "next", "put", "commit", "delete", "commitDelete", "fail"}
    /\ DOMAIN copy \subseteq JobIds /\ copy \in [DOMAIN copy -> Job]
    /\ cur \in 0..MaxJobs
    /\ wext \in Ext0 /\ wrot \in BOOLEAN /\ wsnap \in Snap
    /\ wanswer \in {"none", "url", "nourl", "retry", "permanent", "inactive"}
    /\ faults \in 0..MaxFaults /\ events \in 0..MaxEvents

\* What OC should hold for a value of last_synced_configs.
RemoteOf(synced) == IF synced = "empty" THEN "bare" ELSE synced

\* An active mapping tells the truth about OC: its external user holds the configs recorded
\* as synced, unless a job of the user is still pending or has failed (and is to be retried
\* by the reconcile).  Subscriptions are served from active mappings.
ActiveMappingApplied ==
    \A u \in Users :
        mapping[u].status = "active" =>
            \/ remote[mapping[u].ext] = RemoteOf(mapping[u].synced)
            \/ \E i \in JobIds : jobs[i].user = u /\ jobs[i].status \in {"pending", "failed"}

\* A mapping marked deleted has no user left on OC: no stale create or update job brings
\* the account back (the OC_RECONCILE_SKIP path).  It holds while no identity is rotated.
DeletedMappingGone ==
    \A u \in Users : mapping[u].status = "deleted" => remote[mapping[u].ext] = "absent"

\* An entity never has more pending jobs than there are concurrent transactions: the outbox
\* coalesces intents, and only racing "no pending job" reads can add a second row.
PendingPerWriter ==
    \A u \in Users : Cardinality(PendingOf(u)) <= Cardinality(Slots)

\* A job is tried at most max_attempts times and a pending job has an attempt left.
AttemptsBounded ==
    \A i \in JobIds : /\ jobs[i].att <= MaxAttempts
                      /\ jobs[i].status = "pending" => jobs[i].att < MaxAttempts

\* An OC user whose mapping is gone is still covered by a job that will delete it: removing
\* a panel or a user queues self-contained delete jobs that survive the cascade.
RemovalLeavesNoOrphan ==
    \A e \in Ext :
        (remote[e] # "absent" /\ mapping[e[1]].status = "none" /\ wpc = "idle") =>
            \E i \in JobIds : jobs[i].user = e[1] /\ jobs[i].status \in {"pending", "failed"}

\* The compare-and-set on the revision lets the worker confirm only the payload it sent.
ConfirmsCurrentPayload ==
    [][ConfirmPut => jobs[cur].cfg = copy[cur].cfg /\ jobs[cur].ext = copy[cur].ext]_vars

\* Reconciled: the mapping is active with what the user wants, or provisioning is deferred
\* because the list of synced configs is empty ("deferred for manual repair").
Provisioned(u) == mapping[u].status = "active" /\ mapping[u].synced = want[u]
Deferred(u)    == mapping[u].synced = "empty"
Wanted(u)      == want[u] \in Configs /\ panel = "connected" /\ conn

\* A user who keeps wanting a payload of a usable panel is provisioned with it in the end,
\* whatever requests raced, were answered with errors or lost, or crashed before; except
\* when an earlier delete left the mapping with an empty list.
Converges ==
    \A u \in Users : <>[]Wanted(u) => <>[](Provisioned(u) \/ Deferred(u))

\* A user who keeps having no access loses the OC account in the end.
LossPropagates ==
    \A u \in Users :
        <>[](want[u] = "lost" /\ panel # "removed") =>
        <>[](mapping[u].status # "none" => remote[mapping[u].ext] = "absent")
=============================================================================
