# nginx-go: a TLA+ verification project

nginx-go is a control panel for nginx. A *center* (HTTP API, database, cron
jobs) operates the nginx of its own machine and, through *agents* that poll it,
the nginx of other machines. This directory models the parts of it in which
several goroutines, processes or crashes meet, checks the models with TLC on
small instances, and proves the main results with TLAPS for all instances.

## Inventory

| component | code | state | operations | hard because |
|---|---|---|---|---|
| agent task channel | `services/agent_service.go`, `apis/agent_api.go` | rows of `nginx_agent_tasks`; the waiter hub (a map from task guid to a channel with one place); `Dispatch`, `Poll`, `Complete` goroutines | `Dispatch`, `Poll`, `Complete`, (`Register`, `Heartbeat`) | SELECT and UPDATE are separate statements, polls overlap, a timer races a late report, answers get lost, either side restarts |
| agent process | `cmd/nginx-agent/main.go` | tasks received and not yet handled | register; then heartbeat, poll, run and report each task in a loop | no retry of a lost report; the client gives up after 30 s while its handler goes on |
| config versions, publish, rollback | `services/config_service.go` | `nginx_config_versions`, `nginx_publish_tasks`, the managed file, its backups | `Render`, `Validate`, `Publish`, `Rollback`, `Diff` | file, nginx and database change in separate steps without a lock; each step may fail; no step is undone after a crash |
| remote publish | `validateRemote`, `publishRemoteVersion`, agent `publishConfig` | the same, with the file on the agent | as above through `Dispatch` | a timeout does not mean that nothing happened |
| nginx operations | `services/nginx_service.go`, `utils/command.go`, agent `operation` | the nginx process, operation records | `Test`, `Reload`, `Restart`, `Start`, `Stop`, `Refresh`, `Status` | restart is stop and start; a command may succeed and its record fail; a command sent to an agent may run long after its caller gave up; nothing orders two operations |
| runtime resolution | `resolveNginxRuntime`, `applyInstanceRuntime`, `applyNodeRuntime`, `listNginxRuntimes` | reads instances and nodes | resolves instance, node, fallbacks | two reads, repeated several times per request; one unresolvable instance fails the list |
| node and instance registry | `node_service.go`, `instance_service.go`, `AgentService.Register`, `Heartbeat` | `nginx_nodes`, instances | register, heartbeat, create, update, delete | check-then-create on the agent id; registration re-enables a node |
| notifications | `event_notification_service.go`, `apis/event_api.go` | rows; the broker's set of client channels; the websocket handlers | `CreateNotification`, `MarkRead`, `MarkAllRead`, `Subscribe`, `Broadcast` | check-then-create deduplication; full and closed channels; clients that do not read |
| audit | `audit_service.go` | audit rows | `Record` | best effort |
| logs | `log_service.go` | access and error records, unique by line hash | `Sync`, `ScanErrors`, reads | repeated windows on a file that grows and is rotated; overlapping runs |
| metrics | `metric_service.go` | samples | `Collect`, `StubStatus` | one instance fails, the others go on; parsing of a foreign answer |
| upstream health | `upstream_service.go` | samples, notifications | `CollectHealth` | upstreams deleted meanwhile |
| upstreams, sites, certificates, settings | their services | one row each | create, read, update, delete | (settings: check-then-create) |
| schedules, routing | `inits/`, `routers/` | none | start-up, cron entries | runs of one entry may overlap |

How they interact: API handlers call the services in a goroutine per request.
The config service calls the nginx service (test, reload), the audit service and
the notification service. Config, nginx, log and metric services call
`dispatchAgent` for an instance on a remote node, which blocks in
`AgentService.Dispatch` until the agent's report arrives at
`AgentService.Complete` in another goroutine. All share the database; there is
no transaction in the code, so each statement is atomic on its own.

What makes each correct: the channel answers only what has happened, runs no
task twice in a process, keeps its queue in order and always returns; publishing
never lets nginx near an invalid config, keeps its records consistent, and
delivers or undoes what it publishes; a registry has one row per agent; a
notification is stored once and reaches every subscriber that keeps up; nothing
is sent on a closed channel; an operation runs only where the registry allows it
and is recorded as it went, and one that an agent runs late never undoes a newer
one; a sweep covers every instance that stays usable, and a log line is
stored once.

## Modules

| module | models |
|---|---|
| `TaskCall` | the promise of `Dispatch`: a remote call that runs at most once per process and answers only what some process did |
| `TaskQueue` | the same with the order of the rows: a process runs newer and newer tasks |
| `AgentTasks` | the task channel and the agents, with the refinement mapping to `TaskQueue` and `TaskCall` |
| `AgentTasksProofs` | the proofs about `AgentTasks` |
| `MCAgentTasks` | its instances |
| `PublishRecord` | what versions, publish tasks and audit records promise to tell of a publish, wherever the instance is |
| `ConfigPublish` | render, validate, publish and rollback of a local instance |
| `ConfigPublishProofs` | the proofs about `ConfigPublish` |
| `MCConfigPublish` | its instances |
| `RemotePublish` | validate, publish and rollback on a node with agents: the request in the center, the agent's `publishConfig`, and `TaskQueue` between them |
| `RemotePublishProofs` | the proofs about `RemotePublish` |
| `MCRemotePublish` | its instance |
| `NginxOperations` | the operations on one instance, the resolution of its runtime, and the registry of instances and nodes; remote commands go through `TaskQueue` |
| `NginxOperationsProofs` | the proofs about `NginxOperations` |
| `MCNginxOperations` | its instance |
| `NotificationHub` | notifications, their deduplication, the broker and the websocket handlers |
| `NotificationHubProofs` | the proofs about `NotificationHub` |
| `MCNotificationHub` | its instance |
| `LogMonitoring` | `Sync` of the logs and the scheduled sweeps over error logs, metrics and upstreams |
| `LogMonitoringProofs` | the proofs about `LogMonitoring` |
| `DataLemmas` | what a sum over a finite set is, for the proofs about `LogMonitoring` |
| `MCLogMonitoring` | its instance |

Two abstract specifications are where the modules meet. `TaskQueue`, which extends
`TaskCall`, is what the agent channel promises: `AgentTasks` implements it, and
`RemotePublish` and `NginxOperations` use its actions for what crosses the network
and keep to it (`KeepsTaskQueue`). `PublishRecord` is what the tables promise of a
publish: `ConfigPublish` and `RemotePublish` both implement it (`KeepsRecord`), so
that a reader of the task list or the versions need not know where nginx runs.

### AgentTasks

State. `status` and `rowId` are columns of the task rows (`domains/node.go`),
`nextId` the auto-increment. `caller` is where the `Dispatch` goroutine of a task
stands, `answer` what it returned ("ok", "failed" for an error reported by the
agent, "timeout", "error" if the row could not be inserted, "lost" if the center
restarted), `waiters` and `channel` are the hub. A poll handler is a slot `p`
with its step `pollPc`, its client `pollBy`, the selected rows `todo` and the
`envelopes` collected so far. `completePc[a][t]` and `reread` are the handler of
agent `a`'s report on `t`. `waitsOn`, `batch`, `doing`, `runs`, `result` belong to
the agent process; `runs` counts the effects on its nginx.

Steps. `Register`, `Create`, then the select loop: `Receive` (channel), `Tick` (a
finished row), `TimerFires` and `Expire` (the conditional update and the timeout
answer); every return drops the waiter (`Return`, the deferred `unregister`).
`ResolveNode`, `SelectPending`, one `MarkDispatched` per row, `ReplyPoll`: one
step per statement, so that polls interleave with each other and with timeouts.
The update of `MarkDispatched` only changes a pending row but the envelope is
appended in any case, as in the code. `StoreResult` is unconditional,
`RereadTask` reads the row again, and `NotifyWaiter` is the send that never
blocks. `Execute` runs the oldest task in hand (the agent handles its slice in
order); `PostComplete` brings the report to the center.

Faults share the budget `MaxFaults`: `CreateFails`, `ExpireFails`, `PollFails`
(also a disabled or unknown node), `AbandonPoll` (the client's timeout: the
handler goes on), `LoseComplete`, `CompleteFails`, `AgentCrash`, `CenterCrash`.
A retry of a poll is the next turn of the agent's loop; the code retries nothing
else. The timer may fire at any time. The payload of a task is its outcome; that
a successful response cannot be decoded (agent_service.go:285-289) is left out,
since the agent of this repository sends what the center expects.

### ConfigPublish

State. A version is named after the request that creates it: `vstatus`,
`vconfig`, `validateOK`, `rollbackFrom` are its columns, `task` and `audit` the
outcome in the request's publish task and audit record. `file` is the managed
file and `live` what nginx has loaded. `pc`, `action`, `version`, `success`,
`backup`, `reply` are the request; `before`, `loaded`, `alone` are history
variables of the properties (the file at the start, what its reload loaded,
whether another request was ever in flight with it).

Steps. `ArriveWithConfig`, `ArriveWithVersion`, `ArriveRollback`, then
`CreateVersion`, and for a publish or rollback `Resolve`, `Test` (`nginx -t` on a
temporary copy), `Reject` or `Backup`, `Write`, `Retest` (the test inside
`Reload`, on the managed file as it is by then), one of `ReloadDone`,
`ReloadRefused`, `ReloadMisreported` (nginx reloads and the center does not learn
it), `Record`, `MarkVersion` or `Restore`, `Audit`. `ErrorReturn` are the early
error returns, `SettleFails` the two ignored errors, `Crash` a restart.

nginx is external: it accepts exactly `ValidConfigs`, a reload loads the managed
file, and may be refused at any time without a fault being counted. Requests
that save nothing (a test, a rendering without save) change nothing and are left
out; operation records and temporary files are not modelled, and two backups
always have different names (their name is a time in milliseconds). A publish has
one target: the code resolves the instance again for the test and for the reload
(config_service.go:344, 351, 369), and a registry that is edited in between is
not modelled here.

What may go wrong after a fault. A request that fails between its write and its
restore leaves a file that nginx has not loaded, and a reload that is reported
as failed leaves nginx with a config whose file is restored; nothing repairs
either. `QuietAgreement` says that this is never silent: if every caller was
answered with success, nginx runs the managed file, whatever failed or overlapped.

### RemotePublish

State. `vstatus`, `vconfig`, `validateOK`, `task` and `audit` are as above. `pc`,
`action`, `version`, `success` are the request in the center. `call`, `ran`
and `rowId` are the variables of `TaskQueue`, whose actions are conjuncts of the
steps that call, answer, give up or finish (`Channel!Open`, `Answer`, `GiveUp`,
`Run`, ...); `nextId` is the auto-increment. A process takes its tasks in the order
of the rows (`Poll` selects the oldest rows of the node, and the agent handles its
slice in order), which `TaskQueue` promises and `AgentTasks` is proved to do. Each
process `a` has its step `at`, the task `doing`, what it has `begun` so far, `backup`, `verdict` (its last
command) and `report` (the field `success` of its responses: a rejected config is
a completed task with `success` false). `file` and `live` belong to the node,
`loaded`, `before` are history.

Steps. The center: `ArriveWithConfig`, `ArriveWithVersion`, `ArriveRollback`,
`CreateVersion`, `Dispatch` and `Enqueue` (the call, then its row), one of
`Answered`, `AnsweredError`, `Timeout`, `EnqueueFails`; then `SaveValidated`, or
`Record`, `MarkVersion`, `Audit`. The agent: `Begin`, `Test`, `Backup`, `Write`, one
of `ReloadDone`, `ReloadRefused`, `ReloadMisreported`, then `Restore` and `Report`.
Unlike the local publish the agent does not test the managed file again before
the reload. `Timeout` needs no fault: the agent's two commands may take 10 s each,
`Dispatch` waits for 12 s. The center is not told that a task it gave up on was
run, and the agent not that nobody waits. Faults: `EnqueueFails`, `MarkFails`,
`ErrorReturn`, a lost audit record and `CenterCrash` in the center; failing
commands, files and restores, and `AgentCrash`, on the node.

### NginxOperations

State. `instance` and `nodes` are the rows of the registry (an enabled node is
shown by its access mode), `record` the operation records of a request's stages.
`pc`, `action`, `confirmed`, `stage` ("test" before "act" for a reload), `target`
and `mode` (the resolved runtime), `cmd` (the outcome to be recorded) and `answer`
are the request. `todo` is what a request or an agent still has to run: the start
of a restart in command mode. `call` and `ran` belong to `TaskQueue`, one call per
request, stage and node; `rows` is the queue in the order of `id` (`Place`, the place of
a task in it, is its number in `TaskQueue`), `over` the rows
that are not pending any more, `batch` what an agent has been given, `good` the
commands its results call a success. `running` is nginx on each machine. History:
`seen` (the states of the registry since the request arrived), `touched` and
`succeeded` (where a stage ran, and did what it was asked), `last` (whose command
last decided whether nginx runs).

Steps. `Arrive` with the check of the confirmation, `ReadInstance` and `ReadNode`
(two statements, with every error and fallback of `resolveNginxRuntime`), `RunLocal`
or `Refuse` (an unknown mode), or `Insert`, then `Reply` or `Expire`; `Record`
answers, or goes on to the reload after its test, which resolves again.
`Poll` takes the oldest rows of a node that is enabled at that time, `RunRemote` one
command of the oldest task given. `NodeSave`, `NodeDelete`, `InstanceSave`,
`InstanceDelete` are the edits. `Possible` says what a command may return and
leave behind in each mode: a failing one may have had its effect, and without
docker a status is "running" if any process has nginx in its name, as nginx-go
and nginx-agent themselves have. Faults: `InsertFails`, `RecordFails`, and an
update to `timeout` that fails.

Abstractions. One instance guid, since operations on different instances share
nothing but agents. A node has one agent: `agent_id` is unique, also among
deleted rows, so a deleted node's guid never works again. What an agent is given
is a set, run in the order of the queue, which is what `TaskQueue` promises.
An acknowledged `nginx -s stop` counts as done, though nginx may take a moment to
leave. Edits of the mode are left out (it is read together with the rest of the row), as
are the audit entry and the notification after a record, and restarts of the
center and lost answers, which `AgentTasks` and `RemotePublish` have.

### NotificationHub

State. `row` is the column `is_read` of the row of an event. `pc`, `source`,
`eventTime`, `toSend` are a call of `CreateNotification`; `clients`, `queue`, `closed`
the broker's channels; `ws` and `payload` a websocket handler. `earlier`, `blind`,
`audience`, `written`, `dropped` are history.

Steps. `Notify`, `Lookup` (`recentDuplicate`: an unread row of the same source in
the window), `Create`, then the broadcast: `BeginBroadcast` takes the read lock,
`Send` offers the message to one channel after the other and drops it where the
channel is full, `EndBroadcast` unlocks. A handler: `Subscribe`, `Receive`,
`WriteFrame`, and on its way out `WriteFails` or `ContextDone`, then `Cancel`, which
removes and closes the channel under the write lock. `MarkOne` and `MarkAll` are
the readers of the list. Faults: `LookupFails` (counts as no duplicate) and
`CreateFails` (logged, nothing is broadcast).

Abstractions. The clock moves when a call reads it. A section under the write
lock is one step that waits for the readers; that a waiting writer holds off new
readers is left out, which allows more behaviours. The list is a query; the SSE
stream of metrics has no state.

### LogMonitoring

State. `log` are the files, `state` the row of each instance ("cut off": its node
cannot be used), `upstreams` and `stored` the tables. A worker is a run of one job:
`pc`, `unresolved`, `items` (what is left of its sweep), `item`, `file`, `lines`,
`matches`, `count`. It leaves `sample`, `alert`, `notified` behind; `failed`,
`aborted`, `stable` (the items that could be used all the time) and `kept` (the
lines a tail would have returned all that time) are history.

Steps. `StartSync`, `StartSweep` (`ScanErrors`, `Collect`), `StartHealth`; `Resolve`
for each listed instance; `CollectOne`, `CheckOne`, or `ScanOne` with `ReadTail`,
one `Save` per line (INSERT ... ON CONFLICT DO NOTHING) and the `Alert` (a sample
and a notification). The surroundings write a line, rotate a log, edit the
registry. Faults: `TailFails`, `SaveFails`, a sample that is not stored. As in the
code, one listed instance that cannot be resolved ends the sweep for all:
`aborted` names these runs, of which `SweepCovers` says nothing; the comments of
`Collect` and `ScanErrors` (metric_service.go:97, log_service.go:99) speak of all
enabled instances without such an exception.

Abstractions. A line is a model value with two marks, whether the access pattern
matches it and whether it is critical; two equal lines of an instance are one row,
as the hash makes them one. A failing query for the list of instances or upstreams
would end a sweep before it begins, like the unresolved instance, and is left out.
A line longer than 64 KB makes the tail fail and
counts as a fault. The probe of an upstream's servers is one outcome.

## Runs

| run | instance | shows |
|---|---|---|
| `agent_one` | 2 tasks, 1 agent, 2 poll slots, LIMIT 2, 2 faults | `TypeOK`, `RunsOnce`, `OldestFirst`, `TimedOutUnseenForGood`, `ImplementsTaskQueue`, and that `IInv` is an invariant |
| `agent_shared` | 1 task, 2 agents of one node, 2 slots, 2 faults | `AnswerMatchesRow`, `CompletionStays` |
| `agent_nodes` | 1 task, 2 agents of different nodes, 2 slots, 2 faults | `AnswerTruthful` |
| `agent_returns` | 1 task, 2 agents of one node, 2 slots, 1 fault, fair `Dispatch` | `DispatchReturns` |
| `agent_drains` | 2 tasks, 1 agent, 2 slots, LIMIT 1, 1 fault, fair agent and handlers | `QueueDrains` |
| `config_publish` | 3 requests of which 2 overlap, 2 valid configs and an invalid one, 1 fault | `TypeOK`, `OnlyValidConfigs`, `AloneDelivers`, `RestoreUndoesPublish`, `QuietAgreement`, `KeepsRecord` |
| `remote_publish` | 2 requests, 1 agent process, 2 valid configs and an invalid one, 2 faults of each side | `TypeOK`, `OnlyValidConfigs`, `SuccessDelivers`, `NewestSuccessStands`, `AgentAgreement`, `SettledForGood`, `KeepsTaskQueue`, `KeepsRecord` |
| `operations` | 2 requests with any of 6 operations, 1 node with its agent, mode docker, an unknown one or (by default) command, 1 edit of the registry, 1 fault | `TypeOK`, `DisabledUntouched`, `RecordsTrue`, `LastWord`, `NewestStands`, `ReloadTested`, `KeepsTaskQueue` |
| `notifications` | 2 events of 1 source or none, 2 websockets, a channel of 1 place, window 0, 2 times, 1 fault, fair calls and departures | `TypeOK`, `NoSendOnClosed`, `Delivery`, `DuplicatesOverlapped`, `HubNeverBlocks` |
| `monitoring` | 2 workers with any job, 2 instances (one the default), 1 upstream, a tail and an alert of 1 line, 1 write or rotation, 1 edit, 1 fault | `TypeOK`, `SyncComplete`, `SweepCovers` |
| `config_overlap` | 2 requests, no fault | violation of `SuccessDelivers` |
| `config_first` | 2 requests, no fault | violation of `FailedReloadRestores` |

Bounds. Two tasks are needed for order and batches, two slots for a handler that
was given up on next to its successor, two agents for processes that share an
agent id, two nodes for a task that strays. Two faults combine a lost answer
with a restart. In `agent_drains` the LIMIT is smaller than the queue. Two
overlapping publishers suffice for every interleaving of two; the third request
publishes or rolls back to what the others left. `MaxOverlap` bounds only
`Arrive`. Tasks, agents, slots, requests and valid configs are interchangeable
where the configuration declares a symmetry, and no liveness is checked there.
In `remote_publish` two requests overlap in every way, the older of them timed
out, answered late or forgotten by a restart; a third one is covered by the proof.
Its properties about delivery speak of a node with one agent process: two
processes with one agent id share the file like two local publishers do.
In `operations` two requests overlap in every way on one machine or on two (the
edit moves the instance or changes the node between two reads), and the older may
be given up and run late; "test" is left out as a request, since each reload
begins with one. In `notifications` a channel of one place is full after one
message, window 0 is the boundary at which an older row still counts, and two
events overlap or follow each other. In `monitoring` a tail of one line loses the
older one to every write; two workers run the same job or different ones at once.
Deadlock checking is off where all requests, calls or workers end: in the publish
modules, `NginxOperations`, `NotificationHub` and `LogMonitoring`.

Fairness. `DispatchReturns` assumes that the goroutine of `Dispatch` is scheduled
and its timer fires (`time.NewTimer`), nothing of agents or handlers.
`QueueDrains` assumes that a running handler proceeds (each request has its own
goroutine) and that the agent's loop goes on polling, executing and posting
(`main`); faults are finitely many by `MaxFaults`, so it says what holds once they
are over, not that a task which was marked dispatched reaches its agent: it may
not. `HubNeverBlocks` assumes that the goroutine of a call goes on and that a handler
on its way out cancels; nothing is assumed of the clients, whose handlers may hang
in a write for good.

Findings. `config_overlap`: two publishers without any fault; the one whose file
is replaced between its write and its reload is recorded as a success, its
version marked published, though nginx loaded the other's config. `config_first`:
if there was no managed file, a failed reload leaves the new file in place, since
there is no backup to restore; the README of the program announces a restore of
the previous config.

Each property of a passing run has a mutant, an operator marked `Mutant:` next
to the definition it replaces, which breaks it.

## Proofs

`AgentTasksProofs` holds for all finite sets of tasks and any agents, nodes,
slots, limit and number of faults, from the assumptions in `AgentTasks`. The
properties are not inductive: that a task runs once depends on what is in a
handler's `todo` and `envelopes` and on who still waits for it. `IInv` adds
`CallAndRow` (row, caller and waiter move together), `IdsInOrder`, `PollShape` (a
handler has one client, which waits for it or has given up on it),
`SelectedRows`, `HandedOut` (a task on its way is new to the process it goes to),
`RunAndReport`, and `ReportsAreTrue` (rows, channels and answers carry only what
a process reported). The lemmas `DispatchKeeps`, `PollKeeps`, `AgentKeeps`,
`CompleteKeeps` and `CrashKeeps` show that each action preserves these parts,
which make up `BaseInv`. The order of the runs rests on two more: `TakenInOrder`
(what was taken is older than what is pending, and what a process has run is older
than what the handler it waits for has selected) and `HandsInOrder`; `NextOrder`
shows that they are kept, and `Invariance` combines all. The safety properties
follow from `IInv`; `CompletionStays`, `TimedOutUnseenForGood` and `RunsNewer` (a
process runs newer and newer tasks) follow from `IInv` on a step.

`QueueRefinement` shows that `AgentTasks` implements `TaskQueue`: a call is open from
the registration of its waiter to the return of `Dispatch`, its number is the id of
its row, and every step is one of the queue or a stutter. The order is part of
it, since what is in hand is newer than what has run (`HandsInOrder`) and an id is
larger than all before (`IdsInOrder`). `TaskQueue` is `TaskCall` with conjuncts added to
its actions, so `Refinement` follows. `RemoteQueue` and
`OperationsQueue` show the other side, that every step of the composed modules is
one that `TaskQueue` allows, though a process takes many steps for a task and may
die in between, rows are given up and nodes are disabled. Together they say that
the channel they assume is one that the code provides; they do not say that the
composed modules exhaust what `TaskQueue` allows: each has its own calls only, and
`NginxOperations` neither restarts the center nor loses answers.

`ConfigPublishProofs` holds for any sets of requests and configs and any bounds.
Here, a property needs more than itself. `OnlyValidConfigs` rests on `Tested`
(who backs up, writes or reloads has a version that passed the test, and every
backup is valid) and on `Ownership` (a version is used by others only once its
request has begun, so its content no longer changes). `RecordsAgree` rests on
`Recorded` (the task follows the last nginx command and precedes all else).
`AloneDelivers` and `RestoreUndoesPublish` rest on `Solitude` and `OwnFile`.
`QuietAgreement` has three parts: `AloneAgreement` (the config nginx runs is in the
file or in the backup of the only request), `OverlapAgreement` (unless a reload
was refused, whoever has replaced the file last is about to reload it) and
`ToldAgreement`, for any faults and restarts (unless a caller was told of a failure
or is about to be, the same).
`VersionSaved` (a version is saved before another request works on it, and before
it is tested to be published) and `LoadedFirst` (a success in the making has been
loaded) carry `RecordRefinement`, the refinement of `PublishRecord`, in which one
step of the code writes one record and everything else is a stutter. There is
one lemma per part, with one step per action; `PublishInvariance` combines them.

`RemotePublishProofs` holds for any requests, processes, configs and bounds.
`NodeUntouched` and `RowsUntouched` say what a step of one side leaves to the
other, so that each part of `IInv` needs the steps of one side only. `Taken` (a
process takes newer and newer rows, each once) and `SoleAgent` (what a single
process has reported as a success is in the file and in nginx unless it has taken
a newer publish) carry `SuccessDelivers` and `NewestSuccessStands`;
`SoleAgreement` (while it publishes, nginx runs what the backup holds) carries
`AgentAgreement`; `AnswersTrue` (an answer repeats a report) and `Taken` carry
`SettledForGood`; `LoadedFirst` and `AnswersTrue` carry `RemoteRecordRefinement`, in
which the reload is a step of the agent and the record one of the center, with a
call between them that may be answered late or not at all. `OnlyValidConfigs`,
`RecordsAgree`, `KeepsTaskQueue` and `KeepsRecord` do not depend on the number of
processes.

`NginxOperationsProofs` holds for any requests, nodes and agents (one of each
node), any modes, settings and bounds. `Requesting`, `Todo` say where a request
stands and that only the start of a restart is ever left to do. `Placing` (a
machine is resolved from states of the registry that the request has seen before
anything is sent to it) carries `DisabledUntouched`. `OnePlace` (each stage has run
or is queued on one machine at most) and `Truth` (what is to be recorded has
happened) carry `RecordsTrue` and `ReloadTested`, and with `Decided` (nginx is as the
last deciding command left it) `LastWord`. `Handing` and `Tracked` follow a task
from the queue through the agent, `Fifo` keeps two tasks of a node in their order
and carries `NewestStands`. One lemma describes a command (`RunNextRan`), others what
a step leaves alone (`OthersStay`, `AgentStep`, `ActionStays`), so that most parts
need the steps of one actor only.

`NotificationHubProofs` holds for any clients, sources, capacity and window, and any
finite set of events (`Delivery` counts them). `Handlers` (the broker knows the
channels of the handlers that have not left) and `Broadcasts` (nobody of a
broadcast's audience has left unnoticed) carry `NoSendOnClosed`; `Rows` and `Lookups`
carry `DuplicatesOverlapped`; `Streams` (what was sent is in the stream or was
dropped), `Ordered` and `Drops` (a message is dropped only after more were offered
than the channel holds) carry `Delivery`.

`LogMonitoringProofs` holds for any workers, instances, upstreams, lines and bounds.
Its `IInv` has `Shape` (the types but those of the lines), `Course` (how a worker goes
through its steps), `InSight` (what would have been found all the time is still
in the log), `Holds` (a scan holds those lines of the item in work) and `Covers` (an
item that was usable all the time is still to come, in work or covered), from
which `SweepCovers` follows when a worker is done. `Contents` (the types of what is
read, stored and counted), `Counted` (all workers together have counted each stored
row once) and `Syncs` (a line in sight of a sync is yet to be read, in its hands or
stored) carry `TypeOK` and `SyncComplete`: overlapping runs count no line twice and a
sync without failures has stored what was in sight all the time. Both need facts
about recursive definitions, which are proved by least counterexample instead of the
library's induction: `Filtered`, written as a recursive function, keeps the matching
lines and nothing else, and a sum over a finite set grows by one when one summand
does (`DataLemmas`).

Only model-checked: the liveness properties `DispatchReturns`, `QueueDrains` and
`HubNeverBlocks` (fairness is beyond the prover). Every other property of a passing
run is also a theorem, and some theorems state more than the runs: `RecordsAgree`,
`RunsNewer`, `ImplementsTaskCall`, and the inductive invariants, of which only that of
`AgentTasks` is kept in a run (TLC found the others to hold on the instances of
their runs). The two violations are TLC's.

## Plan

Done: `TaskCall`, `TaskQueue`, `AgentTasks`, `PublishRecord`, `ConfigPublish`,
`RemotePublish`, `NginxOperations`, `NotificationHub`, `LogMonitoring` and their proofs.
Left, in this order:

1. Registration: two registrations of one agent id between the lookup and the
   insert, and a save of a new setting, which has the same two statements.
2. Local publishes next to operations on the same nginx: today each module
   assumes that only its own requests touch nginx.

## Not modelled

Rendering and diffs (pure text), list and page queries, sites, locations and
certificates (rows without further logic, and certificate parsing, which is the
library's), the stub status and process list parsers, access and error log
patterns, token checks, version numbers (shown, but nothing is looked up by
them), `last_seen_at` and the node status of `Heartbeat` (only displayed), the SSE
stream of metrics, the hourly retention (one DELETE), the cron and HTTP
libraries. Settings are constants of the models; their `Save` is not modelled.
The external `nav-common-go-lib` (CRUD, database) is taken as atomic statements
that succeed or return an error.
