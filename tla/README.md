# A TLA+ verification of the panel: its jobs, queues and stateful pages

This directory models the parts of the repository in which several actors share state: request
handlers, scheduled jobs, worker processes, the Outbound Center (OC) on the other side of an HTTP
API, and the pages of the dashboard whose requests are answered late. The modules are translated
from the code in `src/`; each definition is tied to its lines in `PROJECT.json`. TLC checks small
instances, TLAPS proves the most important properties for every value of the constants.

## 1. The system and its components

The repository is a control panel for proxy users. It is one FastAPI application that runs in
several roles (all in one, panel, node worker, scheduler) and in several processes per role, over
one SQL database, optionally with NATS JetStream between the processes. Its dashboard is a React
application.

| component | state it keeps | operations | module |
|---|---|---|---|
| OC sync outbox (`node/oc_sync.py`, `jobs/process_oc_sync.py`, `jobs/reconcile_oc_sync.py`, `services/oc_*`) | job rows `OCSyncState`, `OCUserMapping` rows, OC's accounts | enqueue from requests, periodic reconciliation, worker with retries | `OcSync` |
| Job leader (`nats/leader.py`, hooks of `app_factory.py`) | a lease in a NATS KV key; per process: token, heartbeat, scheduler state | acquire, steal, renew, concede, reclaim, release | `JobLeader`, which implements `JobLease` |
| OC usage accounting (`node/oc_usage.py`, `jobs/record_oc_usages.py`) | `last_cumulative_traffic`, `used_traffic` of user and admin | collect, account, detect resets | `OcUsage` |
| Node user sync store (`node/nats_memory.py`, `nats/kv_cas.py`) | pending and claimed KV keys per user | enqueue, claim, ack, requeue, clear | `UserSync` |
| User status (`jobs/review_users.py`, `jobs/reset_user_data_usage.py`, `operation/access_control.py`, `operation/user.py`, `db/crud/user.py`, `db/crud/bulk.py`) | status, usage, limit, expiry and next plan of a user | reviews, resets, next plans, holds, requests | `UserStatus` |
| Node lifecycle coordinator (`node/nats_memory.py`, `jobs/node_checker.py`) | one KV document per node: state, epoch, lease | acquire, heartbeat, release, report, clear | `Lifecycle` |
| Subscription update buffer (`subscription/sub_update_buffer.py`) | a bounded buffer in memory | queue, flush, put back, shut down | `SubBuffer` |
| Dashboard: core editor (`features/core-editor`) | draft, baseline, JSON text, query cache | fetch, edit, merge, save, discard, leave | `CoreEditor` |
| Dashboard: hosts list (`features/hosts`) | the list, the drag under way, the rows | fetch, drag, store one by one | `HostsList` |
| Dashboard: panel wizard (`features/panels`) | step, queue of panels, phase of the setup, groups | connect, import, prepare, choose, sync | `PanelWizard` |
| Dashboard: user search (`features/users`) | text, debounced text, filter, requests that resolve links | type, clear, resolve, filter | `UserSearch` |
| Dashboard: node logs (`pages/_dashboard.nodes.logs.tsx`) | stream, lines to flush, lines shown, lines held back | follow, flush, pause, resume | `NodeLogs` |
| Dashboard: reality scan (`core-editor/.../reality-scan-dialog.tsx`) | rows, the running scan and the aborted ones | start, stop, close, answer | `RealityScan` |
| KV key index (`nats/kv_index.py`, `kv_watch.py`) | in-memory copy of the key names | watch, observe, discard, snapshot | not modelled; `UserSync` lets it lag |
| Telegram connection to OC, OC panels | panel and connection rows | connect, disconnect, sync, remove | as far as the outbox sees them |
| Node manager, admin limits, node usage recording, notifications, subscriptions, bot, domains, hosts/groups/roles on the server, tenant scoping, schema, routers, the rest of the dashboard | | | not modelled, see section 10 |

How they interact:

- A request handler changes a user and, in the same transaction, enqueues or rewrites an outbox
  job. Every five minutes the reconcile tick enqueues what is missing. Every ten seconds the
  worker loads a batch and executes it against OC, committing after each job.
- Tick, worker, usage collection and the review of users are APScheduler jobs. They run only in
  the process that holds the lease of its role; losing the lease pauses the scheduler, winning it
  starts or resumes it. Pausing does not stop a job that is running. That is where `JobLeader` and
  `OcUsage` meet: `JobLeader` says that one scheduler runs at a time, `OcUsage` what may happen to
  a run that outlives its scheduler.
- Accounted usage may limit a user (`UserStatus`), and a change of status is one of the requests
  to the outbox.
- Changes of users reach the panel's own nodes over a queue in NATS KV, one per node: any process
  enqueues, the node workers' bridges claim, send, and acknowledge or requeue (`UserSync`). The
  node itself is started, stopped and watched under a lease in its lifecycle document.
- The dashboard's pages meet the server in requests only: what a GET has read and what a PUT
  carries may be older than what either side holds by then.

What is hard, and drives the choice of properties (`hazards` in `PROJECT.json` names the lines):
transactions that read, await and then write by primary key; a worker that executes copies made
minutes ago; remote calls that take effect and then fail; leases whose holder is slow; cumulative
counters read in one order and accounted in another; claims that are created, taken and given back
in several KV calls of which each may be the last; bulk statements that decide from an earlier
read; pages whose effects run when an old answer arrives; convergence after all of these.

## 2. OcSync: the outbox

`OcSync.tla` models one imported panel with the users `Users`.

State. `want[u]` is what the database wants of `u` (a payload of `Configs`, or why there is none:
`"unresolved"`, `"unexplained"`, `"lost"`, `"gone"`). `mapping[u]` is the `OCUserMapping` row,
`jobs[i]` the `OCSyncState` row with primary key `i`, `panel` and `conn` the panel's status and
the OC connection, `fresh[u]` the newest external id drawn for `u`. `req[s]` is the open
transaction of writer `s` (or of the tick): the plan it made from what it read, not yet committed.
`remote` is OC's side: what each external id has. The `w...` variables are the worker: its
program counter, the copy of the batch, and the job it works on.

Actions and code. `ReadEvent`, `ReadRemoveUser`, `ReadRemovePanel`, `ReadDisconnect`, `ReadTick`
are the reads and decisions of `enqueue_oc_user_sync`, `enqueue_mapping_delete_sync`,
`enqueue_panel_user_deletions`, `remove_imported_panel`, the disconnect cleanup and the tick;
`Commit` makes the plan visible at once, with the cascade of a panel removal, and `Rollback` ends
a transaction whose keys are violated. In the worker, `Load` is the batch query; `SkipStale`,
`SkipUnconnected`, `BeginPut`, `BeginDelete`, `BeginMalformed`, `BeginFails` are the branches
before the HTTP call; `PutAccepted`, `PutFails`, `PutBlocked`, `Rotate`, `DeleteAccepted`,
`DeleteFails` are OC's answers, given before the worker knows of them; `ConfirmPut`,
`ConfirmDelete`, `DiscardStale`, `RecordFailure` and the two `...Aborts` are what is committed
afterwards, with the compare-and-set on the revision. `Crash` stops the worker between any two
steps and loses its copy. `Edit`, `PanelSync` and `Reconnect` are the environment.

Abstractions. One worker (`max_instances=1` and the job leader) and one tick, which handles one
user per transaction. Configs and groups are one payload; a PUT that stops after its first body
leaves the account `"bare"`. Blocked, forced or drifting groups are folded into `"unresolved"`; a
disabled integration, a missing token and the eligibility checks into the fault `"setup"`. The
check before a PUT and the skip that follows are one step. That SQLAlchemy's identity map may
serve an old object for a second job of one user in the same batch is not modelled, nor are the
panel's discovery user and the connection-revoke jobs (`entity_type` `oc_connection`).

Properties checked by TLC.

| property | kind | meaning |
|---|---|---|
| `ActiveMappingApplied` | invariant | the configs recorded on an active mapping are what OC has, unless an open job of the user says they may not be |
| `DeletedMappingGone` | invariant | a mapping marked deleted has no account on OC |
| `PendingPerWriter` | invariant | a user has at most as many pending jobs as there were concurrent transactions: intents are coalesced |
| `AttemptsBounded` | invariant | a job is tried at most `MaxAttempts` times, and a pending one has an attempt left |
| `Converges` | liveness | OC gets what a user keeps wanting, unless the mapping's synced list is empty: the code leaves such a mapping to manual repair (`Deferred`) |
| `LossPropagates` | liveness | the account of a user who keeps having no access goes |
| `TypeOK` | invariant | |

Runs and bounds.

| run | instance | shows |
|---|---|---|
| `oc_safety` | 2 users, 2 payloads, 1 concurrent writer and the tick, batches of 2, 3 jobs, revisions to 2, 1 fault, 3 requests | the five invariants (1.6 M states) |
| `oc_converge` | 1 user, fairness, 4 jobs, lost answers, refusals, blocked identity, reconnection | both liveness properties (110 k states) |
| `oc_orphan`, `oc_cas` | 1 user | two places where the code does not do what it says, see section 8 |

Why these bounds. The races are between two transactions and the worker, so one writer besides the
tick makes all of them happen; a third would repeat the same pairs. Two payloads distinguish an
old intent from a new one. Three jobs allow one that is executed, one that is pending and one that
is inserted; two attempts allow a retry and its success. One fault is enough in `oc_safety` for
each of the failures to meet each of the races; a blocked identity, a second external id and
reconnection are in `oc_converge`, and the proofs bound none of these. `MaxJobs`, `MaxExt`,
`MaxRev`, `MaxFaults` and `MaxEvents` are guards on counters the code does not bound. Deadlock is
not checked: without requests the outbox rests.

Fairness (`Fairness` in the module): the tick fires and its transaction commits for every user,
the worker fires and takes each of its steps, and transactions of requests end. This is what
APScheduler's interval triggers and finite timeouts give. Nothing is assumed about the
environment, and every fault is bounded by `MaxFaults`.

## 3. JobLeader: one process runs the jobs

State. `key` is the KV entry: the token and the time left of its lease. Times are relative to now,
so that the state space is finite: `key.left` falls as time passes, `age[p]` is how long ago `p`
took the `time.time()` it will write, `wait[p]` what is left of its sleep or of its KV call. `pc`,
`leader`, `token`, `draft`, `fails`, `sched` are the variables of the process and the state of its
scheduler. A revision is represented by what comparing it would give: `seen[p]` is `"current"`,
`"stale"` or `"absent"`, and every write makes `"current"` ones stale.

Actions. `Try`, `Create`, `ReadKey`, `Steal` are `try_become_leader`; `Beat`, `Check`, `Renew` the
heartbeat loop, with `RenewalFailed` and `Concede` as its failure path; `Pause` is the callback
registered in `app_factory.py`; `Stop`, `Release`, `Delete` the shutdown; `Crash` the end of a
process. A KV call takes effect at the end of its step, at most `CallTime` after it began; a
fault makes it fail with or without having taken effect. `Tick` lets one unit of time pass and is
blocked while a sleep or a call is due.

Abstractions. A token nobody uses any more may be drawn again, as a stand-in for a fresh uuid. The
notification dispatcher starts and stops with the scheduler. Pausing takes no time (the callback
cancels a task and sets a flag), and a process is not shut down in the middle of it. A bucket
that is unreachable at startup, and the single-worker mode without election, are left out.

Properties. `OneScheduler`: two schedulers never run at once. `TakenOnlyExpired`: a lease with
time left is never replaced, because whoever replaces it names the revision it read as expired.
`SchedulerRecovers`: processes that stay up run the jobs again and again, whoever had the lease
and whether their scheduler was paused or never started (`Resumed`). `LeaseKept`: the election
implements the abstract lease of `JobLease`.

The abstract specification. `JobLease` has two variables: `holders`, who runs the jobs, and `left`,
what remains of the lease. A process is granted the right to run only when nobody has it and no
lease is running; it extends the lease only while it is running; time passes but never to the end
of the lease of a process that runs the jobs; the right never goes from one process to another in
one step. The mapping takes the processes whose scheduler is running for `holders` and `key.left`
for `left`, with `Slack` the age a clock reading may have when it is written. `Waste` is the lease
whose answer was lost. The refinement fails where the code's timing fails: without `RoomForCalls`
a scheduler outlives its lease.

Runs. In `jobs` (section 6) the election has half-second units (lease 30, interval 10, delay 2,
calls of at most 1), two processes and three faults: enough to make a leader concede for failed
renewals while the other process competes. `leader_overlap` uses seconds (15, 5, 1) and calls of
at most one second.

Fairness: time passes and every process's event loop takes its steps; stops, crashes and faults
are bounded and never fair.

## 4. OcUsage: traffic is billed once

State. `remote[m]` is OC's cumulative counter for mapping `m` and `sent[m]` what the account has
really transferred (the two differ after the counter started again); `last[m]` is the baseline and
`billed[m]` what `m` added to the user's and the admin's totals. `step[p][m]` and `value[p][m]`
are the run of process `p`: to fetch, to account, or done. `runner` is the process whose
scheduler runs, as `JobLeader` guarantees.

Actions. `StartRun` loads the active mappings; `Fetch` is the HTTP request (failing for whatever
reason); `Account` the locked transaction with its two comparisons, or its failure; `RunDies`,
`ChangeLeader`, `Reset`, `Traffic`, `SetActive` are what happens around it. A changed leader
leaves the old run alone.

Properties. `NothingLost`: without resets everything below the baseline has been billed, however
many runs overlap. `NothingDoubled`: under one leader nobody is billed for more than was
transferred, resets included. `CatchesUp`: the baseline reaches the counter of an account that
stays active and goes quiet. The two invariants are conditional on purpose: with an undetectable
reset (the counter has already passed the baseline again) the code bills too little, and with
overlapping runs too much, see `usage_overlap`.

Bounds: accounts are independent of each other, so one is enough; 3 units of traffic give a
baseline with room on both sides; two processes and two changes of leader let a run be overtaken
and its process lead again. Bytes are counted before the panel's multiplier, which scales each
delta and rounds it down.

Fairness: the job fires, requests time out, transactions end.

## 5. UserSync: the queue of users for a node

State. `pend[e]` is the pending key of an email (payload number and KV revision), `claims` the
claim keys, `expired` the tokens of those whose `expires_at` has passed. A worker `w` is at
`pc[w]` in `claim_users`, has the keys `todo[w]` of the pass still to visit and the claim `cur[w]`
in work; `got[w]` are the claims its bridge was given and has not answered. `resend` are enqueues
to be repeated because the answer was lost, `clearing` the keys a running `clear` has listed.
`taken` and `owed` are history: the revisions that were handed out, and the newest put of each
user as long as neither the node has it nor anybody decided that it need not.

Actions. `Enqueue` and `Resend` are `enqueue_users` with the retry inside `kv_put_json`.
`ScanClaims`, `SkipClaim`, `ReadExpired`, `PutBack`, `Unclaim` are the pass over expired claims,
`ScanPending`, `SkipPending`, `ReadPending`, `CreateClaim`, `Take`, `TakeFails`, `Cleanup` the pass
over pending keys: a claim is created first, the pending key deleted with the revision that was
read, and the claim deleted again when that fails. `Ack` and `SendFails` (followed by `PutBack` and
`Unclaim`) are the bridge's answers. `Clear...` is the removal of the node's keys, `Crash` the end
of a process or an exception out of any KV call. Every KV call is a step; a failed call may have
taken effect.

Abstractions. A write by `kv_put_json` is one step (it reads and updates until an update succeeds),
and so are the read and the delete of one key by `clear`. A claim key is written once, hence its
deletion with a revision is a deletion if it is there. The key index may show any part of the keys
that exist. The batch limit is part of that: a pass visits some of the keys. The bridge library is
external: it calls `claim_users`, then acknowledges or requeues what it got. A token is drawn anew
when it is nowhere (it stands for a fresh uuid) and a worker that finds none waits; four tokens
suffice for two workers. The lease of a claim is longer than a pass, so that it expires under a
worker's hands only by a fault.

Properties. `HandedOutOnce`: of the workers that read the same pending key, or read it before it
was deleted and written again, at most one is given the user. `KeptUntilSent`: the newest put of a
user stays under a key until the node has it. Two exceptions are the code's and are in the model:
`clear` removes it, and a pending key whose deletion landed without an answer is lost, because the
claim is deleted when the deletion seems to have failed. `QueueDrains`: the queue becomes empty
again and again, provided that some process keeps calling `claim_users` with an index that shows
what there is. The provision is part of the property, not of the fairness: a bridge may leave its
loop (`kv_index.py:65`).

Runs. `sync` has one email (emails share no key; a second one only multiplies), two workers, two
payloads and two faults: enough for two workers between which a claim expires, is put back twice
and meets a newer payload (1.7 M states). `sync_overwrite` is the same with one fault.

Fairness: workers that are in a call take their steps, enqueues are repeated, and the lease of a
claim nobody uses ends. No call and no fault is fair.

## 6. UserStatus, Lifecycle, SubBuffer and the run `jobs`

### UserStatus: one user, several sessions

State. `row` is the user's row, `object[s]` the copy the session `s` has read, `at[s]` where `s`
is: idle, about to write, or (reviews) between its two writes. The sessions are the review jobs
`"limit"` and `"expire"`, the enforcement `"now"` that follows accounting, the job `"hold"` that
starts users on hold, the periodic `"reset"`, and a request of an `"admin"`. No row is locked.
What makes the model worth having is how each of them writes: `Flushes` is a commit of the ORM,
which writes the attributes that differ from what was read and leaves the others; `Enforce` and
`EnforceAgain` are `update_users_status` by id and the second write of the same status after the
synchronisation with nodes and outbox; `StartExpire` is a bulk update as well.

Actions. `Review`, `FindHeld`, `FindDue`, `AdminReads` open a session with what its query selects.
`Enforce`, `EnforceAgain`, `ApplyNextPlan` (from a review, or by request), `StartExpire`,
`ResetUsage` (periodic or by request), `Toggle`, `Modify` close it. `ResetAll`, `DisableAll`,
`ActivateAll` are the statements for all users. `Usage`, `ExpiryPasses`, `HoldTimesOut`,
`PeriodPasses` are time and traffic. `ResetAll` empties the log of resets, so the period then
counts from the creation of the user, and may have passed at once.

Abstractions. Data limits are 0 (none) or 1, expiry is never, later or passed. A next plan may give
a limit that comes out at zero or below, which the code then reads as "none". A template's
status on hold is overwritten with active by `reset_user_by_next`, as in the code. `MaxOpen = 2`
sessions are open at once: the races are between a session that has read and one that writes.

Properties. `ExcessStops` (liveness): whoever has used up the limit or outlived the expiry is
stopped, again and again if need be, although resets, plans, holds and requests write from
older reads. `EnforcesExceeded` is what the documentation says of the enforcement; the code does
not do it (`status_overwrite`).

Fairness: the review jobs fire and a session that is open ends. Requests and the enforcement after
accounting are not scheduled and not fair to begin.

### Lifecycle: the document of one node

State. `doc` is the KV document: epoch, lease (0 is none), whether the lease is over, what was
observed last. `task[t]` is a task anywhere: its call, the epoch and lease it was given, and what
the document it read is by now (`"current"` or `"stale"`). `born` is history: how many leases
there had been when the task got its epoch.

Actions. Each call of `NatsNodeLifecycleCoordinator` is a read (`ReadsFree`, `ReadsOwn`,
`ReadsEpoch`, `ReadsAny`) and a compare-and-set (`Acquires`, `Beats`, `Releases`, `Reports`,
`Clears`) that is repeated when it is refused or its answer is lost. `ReadsState` begins a check;
`LeaseEnds` and `Dies` are time and failure.

Property. `OvertakenSilent`: as long as the node is not removed, a heartbeat or a release
changes the document only for the lease acquired last, and a report only if no lease was acquired
since the check read the epoch. What it does not say, since the code does not do it: after
`clear` the epochs start again, so an old report may be taken for a new one; reports within an
epoch are not ordered; and the periodic check reads the epoch after its probe
(`node_checker.py:170`), so what it reports may be older than the lease it reports under. Only an
attachment (`operation/node.py:251`) reads the epoch before it observes. An `acquire` whose answer
is lost leaves the node locked until the lease ends.

### SubBuffer: subscription updates

State. `pending` and `batch` are the buffer and what a flush has taken out, as sequences of record
numbers; `drain` says who holds the drain lock. `written`, `dropped`, `missing` are history.

Actions. `Queue` with its limit; `Flush`, `TakeBatch`, `Commit`, `FlushFails` (the transaction may
have committed all the same), `Drained`; `ShutDown`, which cancels the loop. A flush that is
cancelled does not put its batch back, because `CancelledError` is no `Exception`: those records
are `missing`, as are the ones left when the process goes.

Property. `RecordsKept`: no record disappears by itself, none is written twice unless a
transaction failed without saying that it had committed, and all that a full buffer has dropped is
older than all it keeps, whatever fails and is put back meanwhile.

### The run `jobs`

`MCJobs` runs `JobLeader`, `OcUsage`, `UserStatus`, `Lifecycle` and `SubBuffer` side by side: they
share no variable, so a composition would only multiply their states. The variable `job` says which
module a behaviour is about, the others keep their initial state; fairness is that of each module.
Its eleven properties are the ones of the five modules, `JobsTypeOK` the conjunction of their type
invariants. 1.3 M states.

Bounds. One user with the limits none and 1, two sessions at once and one request; two tasks,
three leases (one that is overtaken, one that overtakes, one more after a removal), a removal and a
lost answer; a buffer of 3 with batches of 2, so that a batch that is put back meets a full buffer,
7 records and two failures; for leader and usage see sections 3 and 4. Deadlock is not checked: the
bounded counters run out, and a process that has shut down has really stopped.

## 7. The dashboard

Each of these modules is one page or dialog. The effects of React run with the change that
triggers them; a request reads or writes the server at one moment and is answered at a later one,
out of order or not at all.

| module | property | meaning |
|---|---|---|
| `CoreEditor` | `UnsavedKept` | an edit is in the draft, or in the text that waits to be merged, until it is stored or given up: no refetch, late answer or timer takes it away |
| | `UnsavedWarned` | while such an edit exists, Save is enabled and leaving asks first |
| | `TextMerges` | liveness: a text that parses is merged if the user stays in the JSON section |
| `UserSearch` | `SearchApplied` | once nothing is pending, the list is filtered by the text the user left in the field, by the user its link belongs to, or, if the answer for the link names no user, as it was before |
| `NodeLogs` | `LogsComplete` | unless paused, the page shows the newest lines of the selected node, each once, in order, without a gap |
| `RealityScan` | `RowsMatchScan` | the rows without a result are those the running scan still has to do; no answer of an aborted scan is shown |
| | `ScanSettles` | liveness: a scan whose requests are answered ends, whatever was stopped and started before |
| `PanelWizard` | `PhaseFits` | while a panel is prepared: "ready" means that the server has prepared it, "running" that its setup will still be answered, and the phase is not idle |
| | `OwnGroups` | no panel is synchronised with the groups chosen for the one before it |
| | `AllSynced` | "all panels have been integrated and synced" is true when it is said |
| `HostsList` | `ReorderOnlyMoves` | a drag changes priorities and nothing else; the code does not keep it (`hosts_reorder`) |

Some properties are stated under an assumption about the user, or exempt what the user does in a
hurry, because the code does not keep them otherwise. Two assumptions are constants, two exemptions
are kept as history variables, so that what follows a hasty click is checked too:

- `UserWaits` (`CoreEditor`): the user lets a save end before going on and a typed text merge
  before saving. Otherwise `markClean` takes the draft as it is when the answer arrives
  (`core-editor-page.tsx:314`), so an edit made while a save is out counts as saved; and Save sends
  the draft without a text that has not been merged.
- `hasty` (`UserSearch`): the last change of the field was made while the debounce of an earlier one
  was pending, or while the flag that ignores the next debounced value (`filters.tsx:291`) was still
  up. Such a change may be swallowed. The flag can stay up: a text typed and cleared within 300 ms
  leaves the debounced value as it was, so no effect takes the flag down and the next search, however
  much later, is ignored. `SearchApplied` exempts these changes and holds again for the next one.
- `RendersFirst` (`NodeLogs`): a flush is rendered before the next click. Otherwise lines flushed
  between the last render and Resume are dropped (`_dashboard.nodes.logs.tsx:125`).
- `early` (`PanelWizard`): counts how often the user went on from step 0 before its answers
  arrived. A confirmation or a disconnect answered late moves the wizard in the middle of the
  queue; `AllSynced` is stated for `early = 0`, and so is the last part of `PhaseFits` (a queue that
  is resumed while an import is out is started again by its answer, and the phase becomes idle with
  no new setup); the rest holds in any case.

Two things the code does that a user would not expect are in the models and in the statements:

- The answer for a subscription link may name no user (`filters.tsx:247`). Then no filter is set and
  the list keeps the one it had, under the link in the field; `unnamed` and `before` say so in
  `SearchApplied`. The return before it (`filters.tsx:242`) has the same outcome; it takes a link
  without a base address, which no text that starts with `https://` gives.
- The wizard stays mounted while it is closed (`panels-list.tsx:228`). Opened again after it was
  closed at step 2, it sends `createTestUser` for the panel it was closed at, with the step and the
  panel of before the reset; the setup is cancelled with the next render, but the phase it set stays
  "running" at step 0 (`add-panel-wizard-modal.tsx:134`). Until a queue is started or the wizard is
  opened once more, Back is disabled and the cross does not close it (`workflowBusy`).
  `PhaseFits` therefore speaks of step 2, which such a phase never reaches.

The run `dashboard` has `MCDashboard` run five of the modules side by side with the variable
`page`, as `MCJobs` does. Bounds: one core and two edits (a second core adds only a second cache
entry; the proof has any number), two links that resolve and two words, two nodes with
a buffer of 2 and streams of 4 lines (so trimming happens), three targets with a pool of 2 and two
scans at once, two panels. Fairness: the timer of the debounced merge fires, and the requests of a
scan end, by an answer or an error. `hosts_reorder` has three hosts, one more id and no
edits of contents: a deletion suffices.

## 8. Where the code and its documentation disagree

Each is a run that expects a violation; `PROJECT.json` quotes the line it contradicts.

- `oc_orphan`: a panel removal that found a pending job rewrites it by primary key. If the worker
  completes the job in between, the delete intent lands on a completed row and the account stays.
- `oc_cas`: the revision is incremented from the value read, so two transactions can both write
  the same next revision and the worker's compare-and-set confirms a payload it did not send.
- `leader_overlap`: the assertion on the heartbeat constants counts sleeps and not the calls; with
  calls of one second a leader concedes after its lease was taken.
- `usage_overlap`: the row lock orders the accounting transactions but not the reads before them;
  an older value accounted later is taken for a reset.
- `sync_overwrite`: the payload of an expired or requeued claim is put back over a newer one that
  was enqueued in the meantime, although the latest payload per email is said to win.
- `status_overwrite`: the review names users by id only (`crud/user.py:1950`) and writes the status
  a second time with a later commit (`review_users.py:61`). A user who was disabled, reset or given
  another limit after the review's query becomes limited all the same; a disabled one is then no
  longer disabled, and the next reset makes it active.
- `hosts_reorder`: a drag sends every host in full as it was last fetched, and the server creates
  what it does not find: a host another administrator deleted exists again under a new id.

Met while modelling and not the subject of a run: a drag sends `xudp_proxy_443`
(`hosts-list.tsx:615`) where the server reads `xudp_proxy_udp_443` (`app/models/host.py:534`), so
the field falls back to its default for every host of the list; contents are one value in
`HostsList`.

## 9. What is proved

No proof bounds the constants: any number of users, payloads, writers, processes, jobs, faults.
Every safety property the passing runs check, invariant or action property, has its theorem. The
assumptions on constants are those of the modules; two of them say that a set is finite (`Writers`
of `OcSync`, `Panels` of `PanelWizard`), as the connections of a pool and the panels of an account
are.

`OcSyncProofs`. The inductive core is `Shape`: types, and three facts about who owns what
(`Owned`: a job, a plan and the worker's copy speak of one user and of external ids drawn for that
user; `Loaded`: the copy's rows are the rows of the table up to what a rewrite may change;
`Cascaded`: what a removed panel leaves behind). On it rest

- `TypeCorrect`, `AttemptsAreBounded`;
- `DeletedStaysGone` (`DeletedMappingGone`), by `GoneInv`: a user has one live identity, and the
  calls in flight for a deleted mapping only delete. It assumes `"blocked" \notin Faults`: the
  rotation of a blocked identity leaves the old account behind by design;
- `ActiveIsApplied` (`ActiveMappingApplied`), by `AppliedInv`: between OC's answer and its
  confirmation the row that will be confirmed holds what was sent. It assumes
  `"disconnect" \notin Requests`: with a disconnect the revision race of `oc_cas` lets a skip
  complete a job that was rewritten after a lost PUT;
- `JobsCoalesce` (`PendingPerWriter`), by `Coalesced`: the pending jobs of a user *and* the open
  transactions that will insert one never outnumber the transactions. The bound on the pending jobs
  alone is not inductive: it says nothing of the transactions that found no pending job and have not
  committed. A commit moves one from the second set to the first; a new plan that inserts is only
  made where no pending job was found.

`JobLeaderProofs`. `Base` collects types, which variables mean something where (`Control`),
distinct tokens (`Unique`), how old a payload's clock can be (`Ages`) and what a writer knows of a
revision that is still current (`Readers`).

- `LeaderTypeCorrect` and `LeaseIsRespected` (`TakenOnlyExpired`) follow from `Base`, for any
  timing.
- `SingleRunner` (`OneScheduler`) assumes `RoomForCalls`, i.e.
  `Interval + (MaxRetries-1)*RetryDelay + (2*MaxRetries+3)*CallTime < Lease`. Its invariant adds
  `Reign`: a leader's lease outlasts its worst remaining sequence of failures (`Span`), hence
  nobody can find it expired; and `Interregnum`: while a process is conceding, the lease it had is
  still running and is nobody else's. `OneScheduler` alone is not inductive: it says nothing of
  the time that is left. With the code's constants the assumption holds for calls of less than
  8/9 of a second.
- `LeaseImplemented` (`LeaseKept`): under `RoomForCalls` every behaviour of the election is one of
  the abstract lease. The invariant is that of `SingleRunner` with two facts more (`Court`): whoever
  reigns runs the jobs, and a key that is gone has no time left. Each action of the election is then
  an action of `JobLease` or a stutter; the step of time is the one that needs `Reign`.

`OcUsageProofs`.

- `UsageTypeCorrect`; `TrafficIsNotLost` (`NothingLost`), from the single transaction;
- `TrafficIsNotDoubled` (`NothingDoubled`), by `Budget`: only the leader's run is open (`OneRun`),
  and accounting what it holds and then the present counter stays within what was transferred
  (`Within`), whichever of the two is below the baseline.

`UserSyncProofs`.

- `QueueTypeCorrect`;
- `ClaimsAreExclusive` (`HandedOutOnce`), by `Fresh`: a revision that was handed out is no longer
  that of a pending key, and revisions never repeat;
- `UsersAreKept` (`KeptUntilSent`), by `Kept`. That a claim with the owed revision exists is not
  inductive, since its claimant may be about to delete it. `Keeper` therefore asks for a *secure*
  claim, one that nobody is about to clean up; `Owners` says that no two workers own the same
  claim, and that whoever is about to delete a pending key or put-back claim deletes nothing that is
  still waited for; `Given` that revisions in workers' hands are not newer than the last one given.

`LifecycleProofs`.

- `LifecycleTypeCorrect`;
- `OvertakenIsSilent` (`OvertakenSilent`), by `LifecycleInv`: until the first removal the epoch of
  the document counts the leases (`Counted`), whoever holds a lease carries its number as epoch and
  as token (`Numbered`), and a document that is still current still says what allowed the call that
  read it (`Allowed`). The property alone says nothing of calls that have read and not yet written.

`CoreEditorProofs`, for any number of cores, edits and requests.

- `EditorTypeCorrect`, without assumption;
- `EditsKept` (`UnsavedKept`) and `EditsWarned` (`UnsavedWarned`), assuming `UserWaits`. Their
  invariant `EditorInv` is `Shape` (types, and what is hydrated when), `Used` (every part found
  anywhere was typed before, hence a new edit is in no old answer), `Kept` (the draft is within the
  text, unsaved edits are in the text and not in the baseline) and `Saved` (a save in flight
  carries the draft as it is). Neither property is inductive: an answer that arrives is harmless
  only because of what is known of the request that was sent.

`DashboardProofs`, for the other pages. `PageSteps`: a step of the dashboard is a step of one page
and leaves the others alone; hence `PagesCompose`, by which the theorems of `CoreEditorProofs` hold
in the run `dashboard`.

- `DashboardTypes` (`DashboardTypeOK`), without any of the assumptions about the user.
- `SearchIsApplied` (`SearchApplied`), whether or not earlier changes were hasty. Besides the property,
  `SearchInv` has the field show the text whose debounce is pending, or else the debounced text
  (`Field`), the value the effect compares with be the debounced text or the filter (`Compared`), a
  resolution that is still live belong to the link in the field (`Resolving`), and names the three
  ways in which a debounce can be pending after a change that was not hasty (`Debouncing`): text was
  typed, the field was cleared, or a link was resolved to the name the filter has already.
- `LogsAreComplete` (`LogsComplete`), assuming `RendersFirst`. The property speaks of a page that is
  not paused; `LogsInv` says what is true meanwhile: the buffer holds the newest lines (`Buffered`),
  and either it is full or what is shown ends where it begins. Resuming then shows the right lines
  because trimming a list that ends in a full buffer leaves that buffer (`TrimFull`), and trimming a
  run of lines leaves its end (`TrimLines`). This holds for every size of the buffer.
- `RowsAreOfTheScan` (`RowsMatchScan`), by `Held`: the dialog holds the one scan that was not
  aborted, and a scan that has ended waits for no answer.
- `WizardPhaseFits`, `WizardGroupsOwn`, `WizardSyncsAll` (`PhaseFits`, `OwnGroups`, `AllSynced`), by
  `WizardInv`: the panel that is set up is the one the queue is at (`AtQueue`), the answers on their
  way are of it or do not count any more (`SetupsFit`), and every panel the queue has passed was
  synchronised, unless the user went on early (`Waited`); `AllSynced` is `Waited` at the last step.
  `PhaseFits` needs `Waited` too: an import answered at step 2 would reset the phase and start no setup.

`JobsProofs`, for the two modules of the run `jobs` without proofs of their own, and the run.

- `JobsTypes` (`JobsTypeOK`). For `UserStatus` this is not obvious: a commit merges an object read
  long ago with the row of today, attribute by attribute. `StatusShape` adds that every session
  holds a whole user (`UserType`); a merge of two users is a user.
- `RecordsAreKept` (`RecordsKept`), by `BufferInv`: records leave the buffer in the order in which
  they arrived (`InOrder`), only what a failed transaction may have written is held although it is
  written (`RowsWritten`), and whoever was dropped is older than what is held. The last is the
  subtle one: while a batch is out the buffer may drop records *newer* than the batch. `OldestLost`
  says that the buffer is full from then on, so if the batch is put back it is the batch that goes.
- `DepartedForGood`: a record that was written, dropped or lost is never in the buffer and never
  written again. It is stated as a step property in `JobsProofs` (`Departed`); it follows from the
  same invariant.
- `JobsCompose`: a behaviour of the run `jobs` is a behaviour of each of its modules, so that the
  theorems about each of them hold in the run.

Only model-checked: the liveness properties (`Converges`, `LossPropagates`, `SchedulerRecovers`,
`CatchesUp`, `QueueDrains`, `ExcessStops`, `TextMerges`, `ScanSettles`), since neither fairness nor
ENABLED is in the prover's reach. What the code does not keep (section 8) is shown by TLC's
counterexamples. No module uses recursion.

## 10. Not modelled

- Most of the repository's lines are in the dashboard, and most of those hold no state that more
  than one actor touches: a generated API client (27 000 lines), forms with a field per line,
  tables, charts and layout. There is nothing to check in them beyond what a form
  library does, which is why the modelled definitions stand for a small share of all lines. The
  pages that are modelled are the ones whose requests, timers and effects can overtake each other.
- KV key index (`kv_index.py`, `kv_watch.py`): it only proposes keys. `UserSync` lets a pass miss
  any of them, so nothing the index does wrong changes what holds there.
- Admin limits (`review_admins.py`): the pattern of `UserStatus`, one level up.
- Node usage recording (`record_usages.py`): counters are zeroed on the node when they are read and
  written in several commits afterwards; a failure between two loses at most one interval
  (`record_usages.py:559`).
- Notifications (`nats_queue.py:111`): acknowledged before they are sent, so at most once, and no
  other state depends on them.
- Node manager and node worker: delegation to the external bridge library and RPC. What a start
  does to a node is that library's; `UserSync` and `Lifecycle` are the state it shares.
- Within modelled components: the connection-revoke jobs and the discovery user of the outbox, and
  that the rotation of a blocked identity is remembered only when the whole job succeeds
  (`process_oc_sync.py:372`); the bucket that cannot be reached at startup; the enforcement that
  a collection triggers; the batches of 32 of the KV calls; templates, deletion and the bulk edits
  of expiry and limit of users, and the counters `set_owner` moves in two statements; creating a
  core and repairing WireGuard configurations that do not parse; the edit dialog of hosts, the fields
  a drag leaves as they are in an OC destination host (`host.py:187`), and an order that was stored only in part; the reconnection of the event stream of logs; a panel
  without groups, which blocks the wizard's queue.
- Subscription generation, the bot, custom domains, tenant scoping, schema, migrations, routers,
  CLI: formatting, declarations and edits of single rows by one request.

## 11. What is left

An abstract work queue that delivers at least once, which `UserSync` would implement, and the KV
key index as a module of its own. The composition of `UserStatus` with the outbox, so that a status
overwritten by a review is followed to OC. Notifications. Proofs of what `HostsList` does keep.
