---------------------------- MODULE RemotePublish ----------------------------
(***************************************************************************)
(* Validating, publishing and rolling back the managed config of a node    *)
(* that an agent serves.                                                   *)
(*                                                                         *)
(* The request of the center creates or looks up a version, sends one task *)
(* through AgentService.Dispatch, and records what Dispatch returned.  The *)
(* agent takes the tasks of its node one at a time, tests a temporary copy *)
(* of the config, backs the managed file up, replaces it, reloads nginx    *)
(* and restores the backup if the reload failed.                           *)
(*                                                                         *)
(* The channel between them is TaskQueue: it may give up on a task that    *)
(* runs all the same, and the agent is not told; the order in which an     *)
(* agent takes tasks is that of their rows.  Faults of the center and of   *)
(* the agents are bounded apart.                                           *)
(* nginx is external: it accepts exactly ValidConfigs, and a reload may be *)
(* refused at any time.                                                    *)
(*                                                                         *)
(* services/config_service.go, cmd/nginx-agent/main.go                     *)
(***************************************************************************)
EXTENDS Naturals, FiniteSets

CONSTANTS
    Requests,      \* API requests; a version and a task have their request's name
    Agents,        \* agent processes on the node
    Configs,       \* config bodies
    ValidConfigs,  \* those that nginx -t accepts
    NoConfig,      \* no file, or nginx runs without a managed config
    NoRequest,
    MaxFaults      \* bound on the faults of the center, and of the agents

ASSUME ConfigAssumption == ValidConfigs \subseteq Configs /\ NoConfig \notin Configs
ASSUME RequestAssumption == NoRequest \notin Requests
ASSUME BoundAssumption == MaxFaults \in Nat

VARIABLES
    \* nginx_config_versions
    vstatus, vconfig, validateOK,
    \* nginx_publish_tasks and the audit records of the requests
    task, audit,
    \* the requests in flight
    pc, action, version, success,
    \* the task channel: TaskQueue, and the next number
    call, ran, rowId, nextId,
    \* the agent processes
    at,         \* the next step of the process
    doing,      \* the task in hand
    begun,      \* the tasks it has taken so far
    backup,     \* the content of its backup file
    verdict,    \* the outcome of its last nginx command
    report,     \* the field success of its response to each task
    \* the node
    file, live,
    \* history
    before,     \* the managed file when the process began the task
    loaded,     \* what the reload of a task made nginx load
    centerFaults, agentFaults

versionVars == <<vstatus, vconfig, validateOK>>
recordVars  == <<task, audit>>
requestVars == <<action, version>>
channelVars == <<call, ran, rowId, nextId>>
processVars == <<at, doing, begun, backup, verdict, report, before>>
nodeVars    == <<file, live, loaded>>
centerVars  == <<versionVars, recordVars, requestVars, pc, success, centerFaults>>
agentVars   == <<processVars, nodeVars, agentFaults>>
vars == <<centerVars, channelVars, agentVars>>

Channel == INSTANCE TaskQueue
    WITH Tasks <- Requests, Nodes <- {"node"},
         TaskNode <- [r \in Requests |-> "node"],
         AgentNode <- [a \in Agents |-> "node"]

CenterSteps == {"create", "dispatch", "queue", "wait", "save", "record", "mark", "audit"}
AgentSteps == {"test", "backup", "write", "reload", "restore", "report"}

TypeOK ==
    /\ vstatus \in [Requests -> {"none", "validated", "published", "rolled_back"}]
    /\ vconfig \in [Requests -> Configs \cup {NoConfig}]
    /\ validateOK \in [Requests -> BOOLEAN]
    /\ task \in [Requests -> {"none", "success", "failed"}]
    /\ audit \in [Requests -> {"none", "success", "failed"}]
    /\ pc \in [Requests -> {"idle", "done"} \cup CenterSteps]
    /\ action \in [Requests -> {"none", "validate", "publish", "rollback"}]
    /\ version \in [Requests -> Requests \cup {NoRequest}]
    /\ success \in [Requests -> BOOLEAN]
    /\ call \in [Requests -> {"idle", "open", "ok", "failed", "error", "timeout", "lost"}]
    /\ ran \in [Agents -> [Requests -> {"no", "ok", "failed"}]]
    /\ rowId \in [Requests -> Nat]
    /\ nextId \in Nat \ {0}
    /\ at \in [Agents -> {"idle"} \cup AgentSteps]
    /\ doing \in [Agents -> Requests \cup {NoRequest}]
    /\ begun \in [Agents -> SUBSET Requests]
    /\ backup \in [Agents -> Configs \cup {NoConfig}]
    /\ verdict \in [Agents -> BOOLEAN]
    /\ report \in [Agents -> [Requests -> BOOLEAN]]
    /\ file \in Configs \cup {NoConfig}
    /\ live \in Configs \cup {NoConfig}
    /\ before \in [Agents -> Configs \cup {NoConfig}]
    /\ loaded \in [Requests -> Configs \cup {NoConfig}]
    /\ centerFaults \in 0..MaxFaults
    /\ agentFaults \in 0..MaxFaults

\* nginx runs the managed config, if there is one yet.
Init ==
    /\ vstatus = [r \in Requests |-> "none"]
    /\ vconfig = [r \in Requests |-> NoConfig]
    /\ validateOK = [r \in Requests |-> FALSE]
    /\ task = [r \in Requests |-> "none"]
    /\ audit = [r \in Requests |-> "none"]
    /\ pc = [r \in Requests |-> "idle"]
    /\ action = [r \in Requests |-> "none"]
    /\ version = [r \in Requests |-> NoRequest]
    /\ success = [r \in Requests |-> FALSE]
    /\ Channel!Init
    /\ rowId = [r \in Requests |-> 0]
    /\ nextId = 1
    /\ at = [a \in Agents |-> "idle"]
    /\ doing = [a \in Agents |-> NoRequest]
    /\ begun = [a \in Agents |-> {}]
    /\ backup = [a \in Agents |-> NoConfig]
    /\ verdict = [a \in Agents |-> FALSE]
    /\ report = [a \in Agents |-> [r \in Requests |-> FALSE]]
    /\ file \in ValidConfigs \cup {NoConfig}
    /\ live = file
    /\ before = [a \in Agents |-> NoConfig]
    /\ loaded = [r \in Requests |-> NoConfig]
    /\ centerFaults = 0
    /\ agentFaults = 0

CenterFault == centerFaults < MaxFaults /\ centerFaults' = centerFaults + 1
AgentFault == agentFaults < MaxFaults /\ agentFaults' = agentFaults + 1

Goto(r, step) == pc' = [pc EXCEPT ![r] = step]
Move(a, step) == at' = [at EXCEPT ![a] = step]

-----------------------------------------------------------------------------
(* The center: requests arrive and get their version. *)

\* A config body, supplied or rendered, to validate (and save) or to publish.
ArriveWithConfig(r, what, c) ==
    /\ pc[r] = "idle"
    /\ Goto(r, IF what = "validate" THEN "dispatch" ELSE "create")
    /\ action' = [action EXCEPT ![r] = what]
    /\ version' = [version EXCEPT ![r] = r]
    /\ vconfig' = [vconfig EXCEPT ![r] = c]
    /\ UNCHANGED <<vstatus, validateOK, recordVars, success, centerFaults,
                   channelVars, agentVars>>

\* Publish with a version guid.
ArriveWithVersion(r, v) ==
    /\ pc[r] = "idle" /\ vstatus[v] # "none"
    /\ Goto(r, "dispatch")
    /\ action' = [action EXCEPT ![r] = "publish"]
    /\ version' = [version EXCEPT ![r] = v]
    /\ UNCHANGED <<versionVars, recordVars, success, centerFaults, channelVars, agentVars>>

\* Rollback to v copies its content into a version of its own.
ArriveRollback(r, v) ==
    /\ pc[r] = "idle" /\ vstatus[v] # "none"
    /\ Goto(r, "create")
    /\ action' = [action EXCEPT ![r] = "rollback"]
    /\ version' = [version EXCEPT ![r] = r]
    /\ vconfig' = [vconfig EXCEPT ![r] = vconfig[v]]
    /\ UNCHANGED <<vstatus, validateOK, recordVars, success, centerFaults,
                   channelVars, agentVars>>

\* Before the task is sent the version already counts as validated.
CreateVersion(r) ==
    /\ pc[r] = "create"
    /\ vstatus' = [vstatus EXCEPT ![r] =
                     IF action[r] = "rollback" THEN "rolled_back" ELSE "validated"]
    /\ validateOK' = [validateOK EXCEPT ![r] = TRUE]
    /\ Goto(r, "dispatch")
    /\ UNCHANGED <<vconfig, recordVars, requestVars, success, centerFaults,
                   channelVars, agentVars>>

\* validateRemote saves the version only after an answer, with its outcome.
SaveValidated(r) ==
    /\ pc[r] = "save"
    /\ vstatus' = [vstatus EXCEPT ![r] = "validated"]
    /\ validateOK' = [validateOK EXCEPT ![r] = success[r]]
    /\ Goto(r, "done")
    /\ UNCHANGED <<vconfig, recordVars, requestVars, success, centerFaults,
                   channelVars, agentVars>>

-----------------------------------------------------------------------------
(* The center: the remote call. *)

Dispatch(r) ==
    /\ pc[r] = "dispatch"
    /\ Channel!Open(r)
    /\ Goto(r, "queue")
    /\ UNCHANGED <<versionVars, recordVars, requestVars, success, centerFaults,
                   rowId, nextId, agentVars>>

Enqueue(r) ==
    /\ pc[r] = "queue"
    /\ rowId' = [rowId EXCEPT ![r] = nextId]
    /\ nextId' = nextId + 1
    /\ Goto(r, "wait")
    /\ UNCHANGED <<versionVars, recordVars, requestVars, success, centerFaults,
                   call, ran, agentVars>>

\* A failed call of validateRemote ends the request; publishRemoteVersion
\* records it.
CallFailed(r) ==
    /\ success' = [success EXCEPT ![r] = FALSE]
    /\ Goto(r, IF action[r] = "validate" THEN "done" ELSE "record")
    /\ UNCHANGED <<versionVars, recordVars, requestVars, rowId, nextId, agentVars>>

EnqueueFails(r) ==
    /\ pc[r] = "queue"
    /\ CenterFault
    /\ Channel!Refuse(r)
    /\ CallFailed(r)

Timeout(r) ==
    /\ pc[r] = "wait"
    /\ Channel!GiveUp(r)
    /\ CallFailed(r)
    /\ UNCHANGED centerFaults

\* Mutant: an answer counts as success whatever the agent's response says.
AnyAnswer(r, a) ==
    /\ pc[r] = "wait"
    /\ ran[a][r] = "ok"
    /\ Channel!Answer(r, "ok")
    /\ success' = [success EXCEPT ![r] = TRUE]
    /\ Goto(r, IF action[r] = "validate" THEN "save" ELSE "record")
    /\ UNCHANGED <<versionVars, recordVars, requestVars, centerFaults, rowId,
                   nextId, agentVars>>

\* The response of a process arrives.
Answered(r, a) ==
    /\ pc[r] = "wait"
    /\ ran[a][r] = "ok"
    /\ Channel!Answer(r, "ok")
    /\ success' = [success EXCEPT ![r] = report[a][r]]
    /\ Goto(r, IF action[r] = "validate" THEN "save" ELSE "record")
    /\ UNCHANGED <<versionVars, recordVars, requestVars, centerFaults, rowId,
                   nextId, agentVars>>

\* Its error arrives.
AnsweredError(r) ==
    /\ pc[r] = "wait"
    /\ Channel!Answer(r, "failed")
    /\ CallFailed(r)
    /\ UNCHANGED centerFaults

-----------------------------------------------------------------------------
(* The center: the outcome is recorded. *)

Record(r) ==
    /\ pc[r] = "record"
    /\ task' = [task EXCEPT ![r] = IF success[r] THEN "success" ELSE "failed"]
    /\ Goto(r, IF success[r] THEN "mark" ELSE "audit")
    /\ UNCHANGED <<versionVars, audit, requestVars, success, centerFaults,
                   channelVars, agentVars>>

\* Mutant: the action stored as the status.
ActionAsStatus(r) == action[r]
PublishedStatus(r) == IF action[r] = "rollback" THEN "rolled_back" ELSE "published"

\* Mutant: the version is marked before the outcome is recorded.
MarkEarly(r) ==
    /\ pc[r] \in {"record", "mark"} /\ success[r]
    /\ vstatus' = [vstatus EXCEPT ![version[r]] = PublishedStatus(r)]
    /\ validateOK' = [validateOK EXCEPT ![version[r]] = TRUE]
    /\ Goto(r, IF pc[r] = "mark" THEN "audit" ELSE "record")
    /\ UNCHANGED <<vconfig, recordVars, requestVars, success, centerFaults,
                   channelVars, agentVars>>

MarkVersion(r) ==
    /\ pc[r] = "mark"
    /\ vstatus' = [vstatus EXCEPT ![version[r]] = PublishedStatus(r)]
    /\ validateOK' = [validateOK EXCEPT ![version[r]] = TRUE]
    /\ Goto(r, "audit")
    /\ UNCHANGED <<vconfig, recordVars, requestVars, success, centerFaults,
                   channelVars, agentVars>>

\* The error of the update is ignored.
MarkFails(r) ==
    /\ pc[r] = "mark"
    /\ CenterFault
    /\ Goto(r, "audit")
    /\ UNCHANGED <<versionVars, recordVars, requestVars, success, channelVars, agentVars>>

\* The audit record may get lost.
Audit(r) ==
    /\ pc[r] = "audit"
    /\ \/ audit' = [audit EXCEPT ![r] = task[r]] /\ UNCHANGED centerFaults
       \/ CenterFault /\ UNCHANGED audit
    /\ Goto(r, "done")
    /\ UNCHANGED <<versionVars, task, requestVars, success, channelVars, agentVars>>

\* Error returns: createVersion, the resolveNginxRuntime of publishVersion after
\* it (before there is a call), recordPublishTask.
ErrorReturn(r) ==
    /\ \/ pc[r] \in {"create", "save", "record"}
       \/ pc[r] = "dispatch" /\ action[r] # "validate"
    /\ CenterFault
    /\ Goto(r, "done")
    /\ UNCHANGED <<versionVars, recordVars, requestVars, success, channelVars, agentVars>>

\* A restart takes every request in flight and every open call with it.
CenterCrash ==
    /\ CenterFault
    /\ \E r \in Requests : pc[r] \in CenterSteps
    /\ Channel!Forget
    /\ pc' = [r \in Requests |-> IF pc[r] = "idle" THEN "idle" ELSE "done"]
    /\ UNCHANGED <<versionVars, recordVars, requestVars, success, rowId, nextId, agentVars>>

-----------------------------------------------------------------------------
(* The agent process. *)

\* Mutant: tasks taken in any order.
BeginAny(a, r) ==
    /\ at[a] = "idle"
    /\ rowId[r] > 0 /\ r \notin begun[a]
    /\ begun' = [begun EXCEPT ![a] = @ \cup {r}]
    /\ doing' = [doing EXCEPT ![a] = r]
    /\ before' = [before EXCEPT ![a] = file]
    /\ Move(a, "test")
    /\ UNCHANGED <<centerVars, channelVars, backup, verdict, report, nodeVars, agentFaults>>

\* A process takes tasks one after the other and in the order of their rows,
\* whether or not someone still waits for them.
Begin(a, r) ==
    /\ at[a] = "idle"
    /\ rowId[r] > 0
    /\ \A q \in begun[a] : rowId[q] < rowId[r]
    /\ begun' = [begun EXCEPT ![a] = @ \cup {r}]
    /\ doing' = [doing EXCEPT ![a] = r]
    /\ before' = [before EXCEPT ![a] = file]
    /\ Move(a, "test")
    /\ UNCHANGED <<centerVars, channelVars, backup, verdict, report, nodeVars, agentFaults>>

\* The config that was sent with the task.
Sent(a) == vconfig[version[doing[a]]]

\* Mutant: a failed test does not stop the publish.
TestIgnored(a, ok) ==
    /\ at[a] = "test"
    /\ ok <=> Sent(a) \in ValidConfigs
    /\ verdict' = [verdict EXCEPT ![a] = ok]
    /\ Move(a, IF action[doing[a]] = "validate" THEN "report" ELSE "backup")
    /\ UNCHANGED <<centerVars, channelVars, doing, begun, backup, report, before,
                   nodeVars, agentFaults>>

\* nginx -t on a temporary copy; a command that times out counts as failed.
Test(a, ok) ==
    /\ at[a] = "test"
    /\ \/ ok /\ Sent(a) \in ValidConfigs /\ UNCHANGED agentFaults
       \/ ~ok /\ Sent(a) \notin ValidConfigs /\ UNCHANGED agentFaults
       \/ ~ok /\ AgentFault
    /\ verdict' = [verdict EXCEPT ![a] = ok]
    /\ Move(a, IF ok /\ action[doing[a]] # "validate" THEN "backup" ELSE "report")
    /\ UNCHANGED <<centerVars, channelVars, doing, begun, backup, report, before, nodeVars>>

\* backupExistingConfig: no file, no backup.
Backup(a) ==
    /\ at[a] = "backup"
    /\ backup' = [backup EXCEPT ![a] = file]
    /\ Move(a, "write")
    /\ UNCHANGED <<centerVars, channelVars, doing, begun, verdict, report, before,
                   nodeVars, agentFaults>>

Write(a) ==
    /\ at[a] = "write"
    /\ file' = Sent(a)
    /\ Move(a, "reload")
    /\ UNCHANGED <<centerVars, channelVars, doing, begun, backup, verdict, report,
                   before, live, loaded, agentFaults>>

\* nginx loads the managed file.
ReloadDone(a) ==
    /\ at[a] = "reload"
    /\ file \in ValidConfigs
    /\ live' = file
    /\ loaded' = [loaded EXCEPT ![doing[a]] = file]
    /\ verdict' = [verdict EXCEPT ![a] = TRUE]
    /\ Move(a, "report")
    /\ UNCHANGED <<centerVars, channelVars, doing, begun, backup, report, before,
                   file, agentFaults>>

ReloadRefused(a) ==
    /\ at[a] = "reload"
    /\ verdict' = [verdict EXCEPT ![a] = FALSE]
    /\ Move(a, "restore")
    /\ UNCHANGED <<centerVars, channelVars, doing, begun, backup, report, before,
                   nodeVars, agentFaults>>

\* nginx reloads, but the command times out.
ReloadMisreported(a) ==
    /\ at[a] = "reload"
    /\ file \in ValidConfigs
    /\ AgentFault
    /\ live' = file
    /\ loaded' = [loaded EXCEPT ![doing[a]] = file]
    /\ verdict' = [verdict EXCEPT ![a] = FALSE]
    /\ Move(a, "restore")
    /\ UNCHANGED <<centerVars, channelVars, doing, begun, backup, report, before, file>>

\* Mutant: the new file is kept after a failed reload.
RestoreForgotten(a) ==
    /\ at[a] = "restore"
    /\ Move(a, "report")
    /\ UNCHANGED <<centerVars, channelVars, doing, begun, backup, verdict, report,
                   before, nodeVars, agentFaults>>

\* restoreBackup, if there is a backup; its error is ignored.
Restore(a) ==
    /\ at[a] = "restore"
    /\ \/ /\ file' = IF backup[a] = NoConfig THEN file ELSE backup[a]
          /\ UNCHANGED agentFaults
       \/ AgentFault /\ UNCHANGED file
    /\ Move(a, "report")
    /\ UNCHANGED <<centerVars, channelVars, doing, begun, backup, verdict, report,
                   before, live, loaded>>

\* The process is done with its task: its local variables go out of scope.
Leave(a) ==
    /\ Move(a, "idle")
    /\ doing' = [doing EXCEPT ![a] = NoRequest]
    /\ backup' = [backup EXCEPT ![a] = NoConfig]
    /\ verdict' = [verdict EXCEPT ![a] = FALSE]
    /\ before' = [before EXCEPT ![a] = NoConfig]
    /\ UNCHANGED <<centerVars, begun, nodeVars>>

\* Mutant: what the agent publishes is reported before the reload.
ReportEarly(a) ==
    /\ at[a] \in {"write", "report"}
    /\ Channel!Run(a, doing[a], "ok")
    /\ report' = [report EXCEPT ![a] = [@ EXCEPT ![doing[a]] = verdict[a]]]
    /\ UNCHANGED <<centerVars, rowId, nextId, at, doing, begun, backup, verdict,
                   before, nodeVars, agentFaults>>

\* handleTask: the response is ready to be posted.
Report(a) ==
    /\ at[a] = "report"
    /\ Channel!Run(a, doing[a], "ok")
    /\ report' = [report EXCEPT ![a] = [@ EXCEPT ![doing[a]] = verdict[a]]]
    /\ Leave(a)
    /\ UNCHANGED <<rowId, nextId, agentFaults>>

\* writeTempConfig, backupExistingConfig or atomicWriteFile fails.
ReportError(a) ==
    /\ at[a] \in {"test", "backup", "write"}
    /\ AgentFault
    /\ Channel!Run(a, doing[a], "failed")
    /\ Leave(a)
    /\ UNCHANGED <<rowId, nextId, report>>

\* The process dies in the middle of a task and is started again.
AgentCrash(a) ==
    /\ at[a] # "idle"
    /\ AgentFault
    /\ Leave(a)
    /\ UNCHANGED <<channelVars, report>>

-----------------------------------------------------------------------------
ArriveStep(r) ==
    \/ \E what \in {"validate", "publish"}, c \in Configs : ArriveWithConfig(r, what, c)
    \/ \E v \in Requests : ArriveWithVersion(r, v) \/ ArriveRollback(r, v)

CallStep(r) ==
    \/ Dispatch(r) \/ Enqueue(r) \/ EnqueueFails(r) \/ Timeout(r)
    \/ AnsweredError(r) \/ \E a \in Agents : Answered(r, a)

RecordStep(r) ==
    \/ CreateVersion(r) \/ SaveValidated(r) \/ Record(r) \/ MarkVersion(r)
    \/ MarkFails(r) \/ Audit(r) \/ ErrorReturn(r)

AgentStep(a) ==
    \/ \E r \in Requests : Begin(a, r)
    \/ \E ok \in BOOLEAN : Test(a, ok)
    \/ Backup(a) \/ Write(a) \/ ReloadDone(a) \/ ReloadRefused(a)
    \/ ReloadMisreported(a) \/ Restore(a) \/ Report(a) \/ ReportError(a)
    \/ AgentCrash(a)

CenterStep ==
    \/ \E r \in Requests : ArriveStep(r) \/ CallStep(r) \/ RecordStep(r)
    \/ CenterCrash

Next == CenterStep \/ \E a \in Agents : AgentStep(a)

Spec == Init /\ [][Next]_vars

-----------------------------------------------------------------------------
(* Properties. *)

\* The node has one agent process: two would share its file and its nginx.
OneAgent == Agents # {} /\ \A a, b \in Agents : a = b

\* Whatever the processes, late tasks, crashes and errors, neither the managed
\* file of the node nor its nginx holds a config that nginx -t rejects
\* (publishConfig tests a copy and reloads without another test).
OnlyValidConfigs ==
    /\ file \in ValidConfigs \cup {NoConfig}
    /\ live \in ValidConfigs \cup {NoConfig}

\* A version counts as published only if a publish of it was answered with
\* success and recorded so; an audit record never disagrees with its task
\* (publishRemoteVersion).
RecordsAgree ==
    /\ \A v \in Requests : vstatus[v] = "published" =>
          \E r \in Requests : version[r] = v /\ task[r] = "success"
    /\ \A r \in Requests :
          /\ task[r] = "success" => call[r] = "ok"
          /\ audit[r] # "none" => audit[r] = task[r]

\* A publish recorded as a success had nginx load exactly its config, though
\* other requests were in flight: the agent takes one task at a time (main).
SuccessDelivers ==
    OneAgent => \A r \in Requests :
        task[r] = "success" => loaded[r] = vconfig[version[r]]

\* The process has taken no publish or rollback after r.
NewestPublish(r) ==
    \A a \in Agents : \A q \in begun[a] :
        action[q] # "validate" => rowId[q] =< rowId[r]

InPlace(r) == file = vconfig[version[r]] /\ live = vconfig[version[r]]

\* The newest publish wins: a recorded success stays in the file and in nginx
\* until the process takes a newer publish.  No older task, timed out or
\* forgotten by a restart of the center, overwrites it (Poll's order, main).
NewestSuccessStands ==
    OneAgent => \A r \in Requests :
        task[r] = "success" /\ NewestPublish(r) => InPlace(r)

\* Between two tasks nginx runs what the managed file holds, whatever happened
\* to the center, if no step of the agent failed other than a refused reload.
\* (Before its first successful reload nginx has no managed config.)
AgentAgreement ==
    OneAgent /\ agentFaults = 0 /\ (\A a \in Agents : at[a] = "idle") =>
        live \in {NoConfig, file}

\* Once an outcome is recorded the node is done with the request, with the one
\* exception of a timeout: then the task may still be published
\* (publishRemoteVersion, Dispatch).
SettledForGood ==
    [][OneAgent => \A r \in Requests :
          task[r] # "none" /\ call[r] # "timeout" => loaded'[r] = loaded[r]]_vars

\* The requests and the processes, which take a task through many steps and may
\* die in any of them, keep to the queue: a process finishes newer and newer
\* tasks, each once, and none that was refused (Dispatch, Poll, handleTask).
KeepsTaskQueue == Channel!QueueSpec

\* The requests for which nginx has loaded a config.
Served == {r \in Requests : loaded[r] # NoConfig}

Tables == INSTANCE PublishRecord WITH NoVersion <- NoRequest, served <- Served

\* The tables of the center tell the truth about the node, also with several
\* processes, late tasks and restarts of either side: they are written once, in
\* the order of PublishRecord, and a success only after nginx has loaded a config
\* for the request (publishRemoteVersion).
KeepsRecord == Tables!Spec

-----------------------------------------------------------------------------
(* The inductive invariant behind the properties. *)

\* A version belongs to the request it is named after and is used by others
\* only once that request has begun.
Ownership ==
    /\ \A r \in Requests : pc[r] = "idle" =>
          vstatus[r] = "none" /\ version[r] = NoRequest
    /\ \A r \in Requests : pc[r] \in CenterSteps => version[r] # NoRequest
    /\ \A r \in Requests : version[r] # NoRequest => pc[version[r]] # "idle"

\* The call is where its request stands, and a row is numbered when it is
\* inserted.
CallShape ==
    /\ \A r \in Requests :
          /\ pc[r] \in {"idle", "create", "dispatch"} => call[r] = "idle"
          /\ pc[r] \in {"queue", "wait"} <=> call[r] = "open"
          /\ pc[r] \in {"save", "record", "mark", "audit"} =>
                call[r] \in {"ok", "failed", "error", "timeout"}
          /\ pc[r] = "queue" => rowId[r] = 0
          /\ rowId[r] < nextId
          /\ rowId[r] > 0 => call[r] \notin {"idle", "error"} /\ version[r] # NoRequest
    /\ \A r, q \in Requests : rowId[r] > 0 /\ rowId[r] = rowId[q] => r = q

\* What a process has taken so far is in its order, and it runs each once.
Taken ==
    \A a \in Agents :
        /\ at[a] = "idle" <=> doing[a] = NoRequest
        /\ doing[a] # NoRequest => doing[a] \in begun[a]
        /\ \A q \in begun[a] :
              /\ rowId[q] > 0
              /\ doing[a] # NoRequest => rowId[q] =< rowId[doing[a]]
        /\ \A r \in Requests : ran[a][r] # "no" => r \in begun[a] /\ r # doing[a]

\* Only tested configs of publishes are written and reloaded, or backed up.
Tested ==
    \A a \in Agents :
        /\ at[a] \in {"backup", "write", "reload", "restore"} =>
              Sent(a) \in ValidConfigs /\ action[doing[a]] # "validate"
        /\ backup[a] \in ValidConfigs \cup {NoConfig}

\* An outcome is recorded before it is used, and comes from the call.
Recorded ==
    \A r \in Requests :
        /\ pc[r] \notin {"mark", "audit", "done"} => task[r] = "none"
        /\ pc[r] = "mark" => task[r] = "success"
        /\ pc[r] \in {"record", "mark", "audit"} => action[r] # "validate"
        /\ pc[r] = "audit" => task[r] # "none" /\ audit[r] = "none"
        /\ task[r] # "none" =>
              call[r] \in {"ok", "failed", "error", "timeout"} /\ action[r] # "validate"
        /\ audit[r] # "none" => pc[r] = "done"

\* Answers are true: a process has run the task with that outcome, and a
\* success was reported by it.
Reported(r) == \E a \in Agents : ran[a][r] = "ok" /\ report[a][r]

AnswersTrue ==
    \A r \in Requests :
        /\ call[r] \in {"ok", "failed"} => \E a \in Agents : ran[a][r] = call[r]
        /\ (pc[r] \in {"record", "mark"} /\ success[r]) \/ task[r] = "success" =>
              call[r] = "ok" /\ Reported(r)

ReportedPublish(a, r) == ran[a][r] = "ok" /\ report[a][r] /\ action[r] # "validate"

\* A single process works on the file and nginx alone, and leaves what it
\* reports as a success in both.
SoleAgent ==
    OneAgent => \A a \in Agents :
        /\ at[a] = "reload" => file = Sent(a)
        /\ at[a] = "restore" => ~verdict[a]
        /\ at[a] = "report" /\ verdict[a] /\ action[doing[a]] # "validate" =>
              loaded[doing[a]] = Sent(a) /\ file = Sent(a) /\ live = Sent(a)
        /\ \A r \in Requests : ReportedPublish(a, r) =>
              /\ loaded[r] = vconfig[version[r]]
              /\ NewestPublish(r) => InPlace(r)

\* While it publishes, nginx runs what the backup holds.
SoleAgreement ==
    OneAgent /\ agentFaults = 0 => \A a \in Agents :
        /\ at[a] \in {"idle", "test", "backup", "write", "report"} => live \in {NoConfig, file}
        /\ at[a] \in {"reload", "restore"} => live \in {NoConfig, backup[a]}
        /\ at[a] = "write" => backup[a] = file

\* A version is saved before it is sent to be published, and a validated one
\* after its answer.
VersionSaved ==
    \A r \in Requests :
        /\ version[r] \notin {r, NoRequest} => vstatus[version[r]] # "none"
        /\ pc[r] = "create" \/ (pc[r] \in CenterSteps /\ action[r] = "validate") =>
              vstatus[r] = "none" /\ version[r] = r
        /\ action[r] = "rollback" => version[r] = r
        /\ pc[r] = "create" => action[r] # "validate"
        /\ pc[r] = "save" => action[r] = "validate"
        /\ (pc[r] \in CenterSteps \ {"create"} \/ rowId[r] > 0) /\ action[r] # "validate" =>
              vstatus[version[r]] # "none"

\* A publish that is reported as a success has been loaded.
LoadedFirst ==
    \A a \in Agents :
        /\ at[a] = "report" /\ verdict[a] /\ action[doing[a]] # "validate" =>
              loaded[doing[a]] # NoConfig
        /\ at[a] = "restore" => ~verdict[a]
        /\ \A r \in Requests : ReportedPublish(a, r) => loaded[r] # NoConfig

IInv ==
    /\ TypeOK /\ Ownership /\ CallShape /\ Taken /\ Tested /\ Recorded
    /\ AnswersTrue /\ SoleAgent /\ SoleAgreement /\ VersionSaved /\ LoadedFirst
    /\ OnlyValidConfigs /\ RecordsAgree
=============================================================================
