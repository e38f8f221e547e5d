---------------------------- MODULE ConfigPublish ----------------------------
(***************************************************************************)
(* Publishing and rolling back the managed config of a local instance.     *)
(*                                                                         *)
(* Every API request runs ConfigService.Publish, Rollback, Render or       *)
(* Validate in a goroutine of its own, without any lock, and the requests  *)
(* share the version and task tables, the managed config file and the      *)
(* nginx process.  A request creates or looks up a version, tests it with  *)
(* nginx -t in a temporary file, backs the managed file up, replaces it,   *)
(* reloads nginx (which tests the file once more), records a publish task, *)
(* and then marks the version or restores the backup.                      *)
(*                                                                         *)
(* Faults, bounded by MaxFaults, are refused statements, failing file      *)
(* operations and restarts of the center.  nginx is external: it accepts   *)
(* exactly the members of ValidConfigs, and a reload may fail at any time. *)
(*                                                                         *)
(* services/config_service.go; Test and Reload of services/nginx_service.go *)
(***************************************************************************)
EXTENDS Naturals, FiniteSets

CONSTANTS
    Requests,      \* API requests; the version a request creates has its name
    Configs,       \* config bodies
    ValidConfigs,  \* those that nginx -t accepts
    NoConfig,      \* no file, or nginx runs without a managed config
    NoVersion,
    MaxOverlap,    \* bound on the requests in flight at a time
    MaxFaults      \* bound on the faults

ASSUME ConfigAssumption == ValidConfigs \subseteq Configs /\ NoConfig \notin Configs
ASSUME VersionAssumption == NoVersion \notin Requests
ASSUME BoundAssumption == MaxOverlap \in Nat /\ MaxFaults \in Nat

VARIABLES
    \* nginx_config_versions
    vstatus, vconfig, validateOK, rollbackFrom,
    \* nginx_publish_tasks and the audit records of the requests
    task, audit,
    \* the managed config file and the config that nginx has loaded
    file, live,
    \* the requests in flight
    pc,         \* the next step of the request
    action,     \* what it was asked to do
    version,    \* the version it publishes, or creates from (rollback)
    success,    \* the outcome of its last nginx command
    backup,     \* the content of its backup file
    reply,
    \* history
    before,     \* the managed file when the request began to publish
    loaded,     \* what its reload made nginx load
    alone,      \* no other request was in flight since it began
    faults

versionVars == <<vstatus, vconfig, validateOK, rollbackFrom>>
recordVars  == <<task, audit>>
nginxVars   == <<file, live>>
requestVars == <<action, version, loaded>>
scopeVars   == <<success, backup, before>>
localVars   == <<requestVars, scopeVars>>
vars == <<versionVars, recordVars, nginxVars, pc, localVars, reply, alone, faults>>

Outcomes == {"none", "success", "failed"}
StatusText(ok) == IF ok THEN "success" ELSE "failed"

\* Where a request in flight may stand.
Steps == {"create", "resolve", "test", "reject", "backup", "write", "retest",
          "reload", "record", "settle", "audit"}

TypeOK ==
    /\ vstatus \in [Requests -> {"none", "rendered", "validated", "published", "rolled_back"}]
    /\ vconfig \in [Requests -> Configs \cup {NoConfig}]
    /\ validateOK \in [Requests -> BOOLEAN]
    /\ rollbackFrom \in [Requests -> Requests \cup {NoVersion}]
    /\ task \in [Requests -> Outcomes]
    /\ audit \in [Requests -> Outcomes]
    /\ file \in Configs \cup {NoConfig}
    /\ live \in Configs \cup {NoConfig}
    /\ pc \in [Requests -> {"idle", "done"} \cup Steps]
    /\ action \in [Requests -> {"none", "render", "validate", "publish", "rollback"}]
    /\ version \in [Requests -> Requests \cup {NoVersion}]
    /\ success \in [Requests -> BOOLEAN]
    /\ backup \in [Requests -> Configs \cup {NoConfig}]
    /\ reply \in [Requests -> {"none", "ok", "failed", "error", "lost"}]
    /\ before \in [Requests -> Configs \cup {NoConfig}]
    /\ loaded \in [Requests -> Configs \cup {NoConfig}]
    /\ alone \in [Requests -> BOOLEAN]
    /\ faults \in 0..MaxFaults

\* nginx runs the managed config, if there is one yet.
Init ==
    /\ vstatus = [r \in Requests |-> "none"]
    /\ vconfig = [r \in Requests |-> NoConfig]
    /\ validateOK = [r \in Requests |-> FALSE]
    /\ rollbackFrom = [r \in Requests |-> NoVersion]
    /\ task = [r \in Requests |-> "none"]
    /\ audit = [r \in Requests |-> "none"]
    /\ file \in ValidConfigs \cup {NoConfig}
    /\ live = file
    /\ pc = [r \in Requests |-> "idle"]
    /\ action = [r \in Requests |-> "none"]
    /\ version = [r \in Requests |-> NoVersion]
    /\ success = [r \in Requests |-> FALSE]
    /\ backup = [r \in Requests |-> NoConfig]
    /\ reply = [r \in Requests |-> "none"]
    /\ before = [r \in Requests |-> NoConfig]
    /\ loaded = [r \in Requests |-> NoConfig]
    /\ alone = [r \in Requests |-> TRUE]
    /\ faults = 0

InFlight(r) == pc[r] \in Steps
Fault == faults < MaxFaults /\ faults' = faults + 1
Goto(r, step) == pc' = [pc EXCEPT ![r] = step]

\* The request is answered and its local variables go out of scope.
Return(r, answer) ==
    /\ Goto(r, "done")
    /\ reply' = [reply EXCEPT ![r] = answer]
    /\ success' = [success EXCEPT ![r] = FALSE]
    /\ backup' = [backup EXCEPT ![r] = NoConfig]
    /\ before' = [before EXCEPT ![r] = NoConfig]

\* An error return before anything is recorded.
Fail(r) ==
    /\ Fault
    /\ Return(r, "error")
    /\ UNCHANGED <<versionVars, recordVars, nginxVars, requestVars, alone>>

-----------------------------------------------------------------------------
(* Requests arrive. *)

\* From here on the requests in flight are not alone.
Arrive(r, step, a) ==
    /\ pc[r] = "idle"
    /\ Cardinality({q \in Requests : InFlight(q)}) < MaxOverlap
    /\ Goto(r, step)
    /\ action' = [action EXCEPT ![r] = a]
    /\ alone' = [q \in Requests |->
                   IF q = r THEN \A o \in Requests : ~InFlight(o)
                   ELSE alone[q] /\ ~InFlight(q)]
    /\ UNCHANGED <<vstatus, validateOK, recordVars, nginxVars, success, backup,
                   before, loaded, reply, faults>>

\* A config body, supplied or rendered from the sites, to render, validate or
\* publish.  Its version does not exist yet.
ArriveWithConfig(r, a, c) ==
    /\ Arrive(r, IF a = "validate" THEN "test" ELSE "create", a)
    /\ vconfig' = [vconfig EXCEPT ![r] = c]
    /\ version' = [version EXCEPT ![r] = r]
    /\ UNCHANGED rollbackFrom

\* Publish with a version guid: the saved version is published itself.
ArriveWithVersion(r, v) ==
    /\ vstatus[v] # "none"
    /\ Arrive(r, "resolve", "publish")
    /\ version' = [version EXCEPT ![r] = v]
    /\ UNCHANGED <<vconfig, rollbackFrom>>

\* Confirmed rollback to v: the content goes into a version of its own.
ArriveRollback(r, v) ==
    /\ vstatus[v] # "none"
    /\ Arrive(r, "create", "rollback")
    /\ vconfig' = [vconfig EXCEPT ![r] = vconfig[v]]
    /\ rollbackFrom' = [rollbackFrom EXCEPT ![r] = v]
    /\ version' = [version EXCEPT ![r] = r]

-----------------------------------------------------------------------------
(* The version row. *)

\* What the version is created as.  A publish or rollback counts it as
\* validated before anything has been tested.
FirstStatus(r) ==
    CASE action[r] = "render" -> "rendered"
      [] action[r] = "rollback" -> "rolled_back"
      [] OTHER -> "validated"

FirstValidateOK(r) ==
    action[r] # "render" /\ (action[r] = "validate" => success[r])

CreateVersion(r) ==
    /\ pc[r] = "create"
    /\ vstatus' = [vstatus EXCEPT ![r] = FirstStatus(r)]
    /\ validateOK' = [validateOK EXCEPT ![r] = FirstValidateOK(r)]
    /\ \/ /\ action[r] \in {"publish", "rollback"}
          /\ Goto(r, "resolve")
          /\ UNCHANGED <<reply, scopeVars>>
       \/ /\ action[r] = "render"
          /\ Return(r, "ok")
       \/ /\ action[r] = "validate"
          /\ Return(r, IF success[r] THEN "ok" ELSE "failed")
    /\ UNCHANGED <<vconfig, rollbackFrom, recordVars, nginxVars, requestVars, alone, faults>>

-----------------------------------------------------------------------------
(* publishVersion, and the test that Validate shares with it. *)

\* resolveNginxRuntime finds a local instance.
Resolve(r) ==
    /\ pc[r] = "resolve"
    /\ Goto(r, "test")
    /\ before' = [before EXCEPT ![r] = file]
    /\ UNCHANGED <<versionVars, recordVars, nginxVars, action, version, success,
                   backup, loaded, reply, alone, faults>>

\* Mutant: publishing goes on after a failed test.
TestIgnored(r, ok) ==
    /\ pc[r] = "test"
    /\ ok <=> vconfig[version[r]] \in ValidConfigs
    /\ success' = [success EXCEPT ![r] = ok]
    /\ Goto(r, IF action[r] = "validate" THEN "create" ELSE "backup")
    /\ UNCHANGED <<versionVars, recordVars, nginxVars, action, version, backup,
                   before, loaded, reply, alone, faults>>

\* Validate: nginx -t on a temporary copy.  A test that was not recorded
\* counts as failed.
Test(r, ok) ==
    /\ pc[r] = "test"
    /\ \/ ok /\ vconfig[version[r]] \in ValidConfigs /\ UNCHANGED faults
       \/ ~ok /\ vconfig[version[r]] \notin ValidConfigs /\ UNCHANGED faults
       \/ ~ok /\ Fault
    /\ success' = [success EXCEPT ![r] = ok]
    /\ Goto(r, IF action[r] = "validate" THEN "create"
               ELSE IF ok THEN "backup" ELSE "reject")
    /\ UNCHANGED <<versionVars, recordVars, nginxVars, action, version, backup,
                   before, loaded, reply, alone>>

\* The version was rejected: a failed task, no change of the file.
Reject(r) ==
    /\ pc[r] = "reject"
    /\ task' = [task EXCEPT ![r] = "failed"]
    /\ Goto(r, "audit")
    /\ UNCHANGED <<versionVars, audit, nginxVars, localVars, reply, alone, faults>>

\* backupExistingConfig: no file, no backup.
Backup(r) ==
    /\ pc[r] = "backup"
    /\ backup' = [backup EXCEPT ![r] = file]
    /\ Goto(r, "write")
    /\ UNCHANGED <<versionVars, recordVars, nginxVars, action, version, success,
                   before, loaded, reply, alone, faults>>

\* Mutant: the backup taken after the write.
WriteThenBackup(r) ==
    /\ pc[r] = "write"
    /\ file' = vconfig[version[r]]
    /\ backup' = [backup EXCEPT ![r] = vconfig[version[r]]]
    /\ Goto(r, "retest")
    /\ UNCHANGED <<versionVars, recordVars, live, action, version, success,
                   before, loaded, reply, alone, faults>>

\* atomicWriteFile: the file is replaced by a rename.
Write(r) ==
    /\ pc[r] = "write"
    /\ file' = vconfig[version[r]]
    /\ Goto(r, "retest")
    /\ UNCHANGED <<versionVars, recordVars, live, localVars, reply, alone, faults>>

\* Reload tests the managed file, whatever it holds by now.
Retest(r, ok) ==
    /\ pc[r] = "retest"
    /\ \/ ok /\ file \in ValidConfigs /\ UNCHANGED faults
       \/ ~ok /\ file \notin ValidConfigs /\ UNCHANGED faults
       \/ ~ok /\ Fault
    /\ success' = [success EXCEPT ![r] = ok]
    /\ Goto(r, IF ok THEN "reload" ELSE "record")
    /\ UNCHANGED <<versionVars, recordVars, nginxVars, action, version, backup,
                   before, loaded, reply, alone>>

\* nginx loads the managed file.
ReloadDone(r) ==
    /\ pc[r] = "reload"
    /\ file \in ValidConfigs
    /\ live' = file
    /\ loaded' = [loaded EXCEPT ![r] = file]
    /\ Goto(r, "record")
    /\ UNCHANGED <<versionVars, recordVars, file, action, version, success,
                   backup, before, reply, alone, faults>>

\* Mutant: the result of the reload is not looked at.
ReloadUnchecked(r) ==
    /\ pc[r] = "reload"
    /\ Goto(r, "record")
    /\ UNCHANGED <<versionVars, recordVars, nginxVars, localVars, reply, alone, faults>>

\* The reload command fails and nginx goes on as before.
ReloadRefused(r) ==
    /\ pc[r] = "reload"
    /\ success' = [success EXCEPT ![r] = FALSE]
    /\ Goto(r, "record")
    /\ UNCHANGED <<versionVars, recordVars, nginxVars, action, version, backup,
                   before, loaded, reply, alone, faults>>

\* nginx reloads, but the command times out or its operation record is
\* refused: the center takes it for a failure.
ReloadMisreported(r) ==
    /\ pc[r] = "reload"
    /\ file \in ValidConfigs
    /\ Fault
    /\ live' = file
    /\ success' = [success EXCEPT ![r] = FALSE]
    /\ Goto(r, "record")
    /\ UNCHANGED <<versionVars, recordVars, file, action, version, backup,
                   before, loaded, reply, alone>>

\* recordPublishTask comes before the version is marked or the file restored.
Record(r) ==
    /\ pc[r] = "record"
    /\ task' = [task EXCEPT ![r] = StatusText(success[r])]
    /\ Goto(r, "settle")
    /\ UNCHANGED <<versionVars, audit, nginxVars, localVars, reply, alone, faults>>

\* Mutant: the action stored as the status.
ActionAsStatus(r) == IF action[r] = "rollback" THEN action[r] ELSE "published"
PublishedStatus(r) == IF action[r] = "rollback" THEN "rolled_back" ELSE "published"

\* Mutant: the version marked whatever the outcome.
MarkAnyVersion(r) ==
    /\ pc[r] = "settle"
    /\ vstatus' = [vstatus EXCEPT ![version[r]] = PublishedStatus(r)]
    /\ validateOK' = [validateOK EXCEPT ![version[r]] = TRUE]
    /\ Goto(r, "audit")
    /\ UNCHANGED <<vconfig, rollbackFrom, recordVars, nginxVars, localVars,
                   reply, alone, faults>>

MarkVersion(r) ==
    /\ pc[r] = "settle" /\ success[r]
    /\ vstatus' = [vstatus EXCEPT ![version[r]] = PublishedStatus(r)]
    /\ validateOK' = [validateOK EXCEPT ![version[r]] = TRUE]
    /\ Goto(r, "audit")
    /\ UNCHANGED <<vconfig, rollbackFrom, recordVars, nginxVars, localVars,
                   reply, alone, faults>>

\* Mutant: the rejected file is left in place.
RestoreForgotten(r) ==
    /\ pc[r] = "settle" /\ ~success[r]
    /\ Goto(r, "audit")
    /\ UNCHANGED <<versionVars, recordVars, nginxVars, localVars, reply, alone, faults>>

\* restoreBackup, if there was a file to back up.
Restore(r) ==
    /\ pc[r] = "settle" /\ ~success[r]
    /\ file' = IF backup[r] = NoConfig THEN file ELSE backup[r]
    /\ Goto(r, "audit")
    /\ UNCHANGED <<versionVars, recordVars, live, localVars, reply, alone, faults>>

\* The error of either is ignored.
SettleFails(r) ==
    /\ pc[r] = "settle"
    /\ Fault
    /\ Goto(r, "audit")
    /\ UNCHANGED <<versionVars, recordVars, nginxVars, localVars, reply, alone>>

\* auditConfigChange, whose failure is only logged, then the answer with the
\* outcome of the task.
Audit(r) ==
    /\ pc[r] = "audit"
    /\ \/ audit' = [audit EXCEPT ![r] = task[r]] /\ UNCHANGED faults
       \/ Fault /\ UNCHANGED audit
    /\ Return(r, IF task[r] = "success" THEN "ok" ELSE "failed")
    /\ UNCHANGED <<versionVars, task, nginxVars, requestVars, alone>>

\* The error returns of publishVersion, Render and Validate: createVersion,
\* resolveNginxRuntime, writeTempConfig (for Validate itself),
\* backupExistingConfig, atomicWriteFile and recordPublishTask.  They leave
\* everything else as it is by then.
ErrorReturn(r) ==
    /\ \/ pc[r] \in {"create", "resolve", "reject", "backup", "write", "record"}
       \/ pc[r] = "test" /\ action[r] = "validate"
    /\ Fail(r)

-----------------------------------------------------------------------------
(* The center restarts in the middle of the requests. *)
Crash ==
    /\ Fault
    /\ \E r \in Requests : InFlight(r)
    /\ pc' = [r \in Requests |-> IF InFlight(r) THEN "done" ELSE pc[r]]
    /\ reply' = [r \in Requests |-> IF InFlight(r) THEN "lost" ELSE reply[r]]
    /\ success' = [r \in Requests |-> FALSE]
    /\ backup' = [r \in Requests |-> NoConfig]
    /\ before' = [r \in Requests |-> NoConfig]
    /\ UNCHANGED <<versionVars, recordVars, nginxVars, requestVars, alone>>

-----------------------------------------------------------------------------
ArriveStep(r) ==
    \/ \E a \in {"render", "validate", "publish"}, c \in Configs : ArriveWithConfig(r, a, c)
    \/ \E v \in Requests : ArriveWithVersion(r, v) \/ ArriveRollback(r, v)

RequestStep(r) ==
    \/ CreateVersion(r) \/ Resolve(r) \/ Reject(r) \/ Backup(r) \/ Write(r)
    \/ \E ok \in BOOLEAN : Test(r, ok) \/ Retest(r, ok)
    \/ ReloadDone(r) \/ ReloadRefused(r) \/ ReloadMisreported(r)
    \/ Record(r) \/ MarkVersion(r) \/ Restore(r) \/ SettleFails(r)
    \/ Audit(r) \/ ErrorReturn(r)

Next ==
    \/ \E r \in Requests : ArriveStep(r)
    \/ \E r \in Requests : RequestStep(r)
    \/ Crash

Spec == Init /\ [][Next]_vars

-----------------------------------------------------------------------------
(* Properties. *)

\* nginx could be restarted at any time: whatever the requests in flight,
\* the faults and the crashes, neither the managed file nor nginx ever holds a
\* config that nginx -t rejects.  A publish tests a copy, and the file it tests
\* again, backs up and restores is shared (publishVersion).
OnlyValidConfigs ==
    /\ file \in ValidConfigs \cup {NoConfig}
    /\ live \in ValidConfigs \cup {NoConfig}

\* A version is only marked as published when some publish of it succeeded and
\* its task says so, and an audit record never disagrees with the task: the
\* task is recorded before either (publishVersion, auditConfigChange).
RecordsAgree ==
    /\ \A v \in Requests : vstatus[v] = "published" =>
          \E r \in Requests : version[r] = v /\ task[r] = "success"
    /\ \A r \in Requests : audit[r] # "none" => audit[r] = task[r]

\* What a successful publish claims: nginx loaded the version, and after a
\* rollback the content of the version that was rolled back to.  The file
\* may be another's when nginx reads it (Reload after atomicWriteFile).
Delivered(r) ==
    task[r] = "success" =>
        /\ loaded[r] = vconfig[version[r]]
        /\ rollbackFrom[r] # NoVersion => loaded[r] = vconfig[rollbackFrom[r]]

\* It is true of every request that was alone throughout.
AloneDelivers == \A r \in Requests : alone[r] => Delivered(r)

\* The comment on Publish ("validates, atomically writes managed config, reloads
\* nginx, and records the task") does not restrict it to those.
SuccessDelivers == \A r \in Requests : Delivered(r)

\* When a request that was alone gives up its publish, by rejecting the version or
\* by restoring the backup, the managed file is again what it was when the
\* request began, provided there was one (restoreBackup).
RestoreUndoesPublish ==
    [][\A r \in Requests :
          (alone[r] /\ before[r] # NoConfig /\ (Reject(r) \/ Restore(r)))
              => file' = before[r]]_vars

\* README: when the reload fails, the config from before the publish is
\* restored.  Stated of a request that was alone, for any outcome of before.
FailedReloadRestores ==
    [][\A r \in Requests : (alone[r] /\ Restore(r)) => file' = before[r]]_vars

Quiet == \A r \in Requests : ~InFlight(r)

\* Only versions that nginx -t rejects failed.
NoReloadRefused ==
    \A r \in Requests : task[r] = "failed" => vconfig[version[r]] \notin ValidConfigs

\* Every request that has come was answered with success.
AllAnsweredOK == \A r \in Requests : reply[r] \in {"none", "ok"}

\* Once the requests have returned, nginx runs what the managed file holds, so
\* that a restart of nginx changes nothing.  Without faults: if the requests came
\* one after the other, whatever the reloads did, and if they overlapped, as
\* long as no reload was refused (before its first successful reload nginx has
\* no managed config).  With whatever faults and overlaps: unless some caller was
\* told that its request failed, or lost the connection.  A restore that is
\* skipped or fails and a reload that is misreported are never silent
\* (publishVersion from atomicWriteFile to its return).
QuietAgreement ==
    (/\ Quiet
     /\ \/ AllAnsweredOK
        \/ /\ faults = 0 /\ live # NoConfig
           /\ (\A r \in Requests : alone[r]) \/ NoReloadRefused)
    => file = live

\* The requests for which nginx has loaded a config.
Served == {r \in Requests : loaded[r] # NoConfig}

Tables == INSTANCE PublishRecord WITH served <- Served

\* Overlapping requests, faults and restarts leave tables that tell the truth:
\* versions, tasks and audit records are written once, in the order of
\* PublishRecord, and a success only after nginx has loaded a config for the
\* request (publishVersion).
KeepsRecord == Tables!Spec

-----------------------------------------------------------------------------
(* The inductive invariant behind the properties. *)

\* A version belongs to the request it is named after and is used by others
\* only once that request has begun.
Ownership ==
    /\ \A r \in Requests : pc[r] = "idle" =>
          /\ vstatus[r] = "none" /\ task[r] = "none"
          /\ version[r] = NoVersion /\ rollbackFrom[r] = NoVersion
    /\ \A r \in Requests : InFlight(r) => version[r] # NoVersion
    /\ \A r \in Requests : version[r] # NoVersion => pc[version[r]] # "idle"
    /\ \A r \in Requests : rollbackFrom[r] # NoVersion =>
          /\ version[r] = r
          /\ pc[rollbackFrom[r]] # "idle"
          /\ vconfig[rollbackFrom[r]] = vconfig[r]

\* Only tested configs are written, reloaded, backed up or restored.
Tested ==
    /\ \A r \in Requests :
          pc[r] \in {"backup", "write", "retest", "reload", "record", "settle"} =>
              vconfig[version[r]] \in ValidConfigs
    /\ \A r \in Requests : backup[r] \in ValidConfigs \cup {NoConfig}

\* The task comes before the audit record and says what the request saw of its
\* last nginx command.
Recorded ==
    \A r \in Requests :
        /\ InFlight(r) /\ pc[r] \notin {"settle", "audit"} => task[r] = "none"
        /\ pc[r] = "reload" => success[r]
        /\ pc[r] = "settle" => task[r] = StatusText(success[r])
        /\ pc[r] = "audit" => task[r] # "none"
        /\ audit[r] # "none" => pc[r] = "done"

\* A request that is alone has the others out of its way.
Solitude ==
    \A r \in Requests :
        /\ pc[r] = "idle" => alone[r]
        /\ alone[r] /\ InFlight(r) => \A q \in Requests \ {r} : ~InFlight(q)

\* The file and the backup of a request that is alone are its own doing.
OwnFile ==
    \A r \in Requests : alone[r] =>
        /\ \/ pc[r] \in {"reject", "backup", "write"}
           \/ pc[r] = "test" /\ action[r] # "validate"
           => file = before[r]
        /\ pc[r] \in {"write", "retest", "reload", "record", "settle"} =>
              backup[r] = before[r]
        /\ pc[r] \in {"retest", "reload", "record"} => file = vconfig[version[r]]
        /\ pc[r] \in {"record", "settle"} /\ success[r] =>
              loaded[r] = vconfig[version[r]]

\* Between its write and its end, a request that never met another holds the
\* config that nginx runs either in the file or in its backup.
AloneAgreement ==
    faults = 0 /\ (\A r \in Requests : alone[r]) =>
        /\ (\A r \in Requests : pc[r] \notin {"retest", "reload", "record", "settle"}) =>
              live \in {NoConfig, file}
        /\ \A r \in Requests :
              /\ pc[r] \in {"retest", "reload"} => live \in {NoConfig, backup[r]}
              /\ pc[r] \in {"record", "settle"} =>
                    IF success[r] THEN live = file ELSE live \in {NoConfig, backup[r]}

\* The reload of a tested config was refused.
Refused(r) ==
    \/ pc[r] = "record" /\ ~success[r]
    \/ task[r] = "failed" /\ vconfig[version[r]] \in ValidConfigs

\* Without refused reloads whoever has replaced the file is about to reload it.
OverlapAgreement ==
    faults = 0 /\ (\A r \in Requests : ~Refused(r)) =>
        live = file \/ \E r \in Requests : pc[r] \in {"retest", "reload"}

\* The caller was told that the request failed, lost the connection, or is about
\* to be told.
Told(r) ==
    \/ reply[r] \in {"failed", "error", "lost"}
    \/ pc[r] = "record" /\ ~success[r]
    \/ task[r] = "failed"

\* A file that nginx has not loaded is left behind only if a caller is told of a
\* failure, and a caller is never answered before the end or against its task.
ToldAgreement ==
    /\ \A r \in Requests : reply[r] # "none" => pc[r] = "done"
    /\ \A r \in Requests : task[r] = "failed" /\ pc[r] = "done" =>
          reply[r] \in {"failed", "lost"}
    /\ (\A r \in Requests : ~Told(r)) =>
          live = file \/ \E r \in Requests : pc[r] \in {"retest", "reload"}

\* Once a request works on a version, the version is saved or its own; a test and
\* all that follows it need the saved one.
VersionSaved ==
    \A r \in Requests :
        /\ version[r] \notin {r, NoVersion} => vstatus[version[r]] # "none"
        /\ pc[r] = "create" => vstatus[r] = "none" /\ version[r] = r
        /\ action[r] = "rollback" => version[r] = r
        /\ pc[r] \in Steps \ {"create"} /\ action[r] # "validate" =>
              vstatus[version[r]] # "none"
        /\ pc[r] = "test" /\ action[r] = "validate" => vstatus[r] = "none" /\ version[r] = r
        /\ pc[r] \in Steps \ {"create", "test"} => action[r] # "validate"

\* A success in the making has been loaded.
LoadedFirst ==
    \A r \in Requests :
        pc[r] \in {"record", "settle"} /\ success[r] => loaded[r] # NoConfig

IInv == /\ TypeOK /\ Ownership /\ Tested /\ Recorded /\ Solitude /\ OwnFile
        /\ AloneAgreement /\ OverlapAgreement /\ ToldAgreement /\ VersionSaved
        /\ LoadedFirst /\ OnlyValidConfigs /\ RecordsAgree /\ AloneDelivers
=============================================================================
