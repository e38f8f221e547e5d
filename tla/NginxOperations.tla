-------------------------- MODULE NginxOperations --------------------------
(***************************************************************************)
(* The operations on nginx: test, reload, restart, start, stop, refresh    *)
(* and status of one instance, while the registry of instances and nodes   *)
(* changes.                                                                *)
(*                                                                         *)
(* A request resolves where to run (the instance row, then the row of the  *)
(* node it is bound to: two statements), runs its command in the center or *)
(* sends it to the agent of the node through the task channel (TaskQueue), *)
(* and records the outcome.  Reload does this twice: a test, then the      *)
(* reload.  Restarts of the center and lost polls are left to AgentTasks   *)
(* and RemotePublish; nothing but these requests touches nginx.            *)
(*                                                                         *)
(* services/nginx_service.go, node_service.go, instance_service.go,        *)
(* agent_service.go (Register, Poll), cmd/nginx-agent/main.go (operation). *)
(***************************************************************************)
EXTENDS Naturals, Sequences, Functions

CONSTANTS
    Requests,       \* the requests, all for one instance guid
    Agents, Nodes, AgentNode,
    Center,         \* the machine of the center
    Modes,          \* the values of the column mode
    DefaultMode,    \* setting nginx.mode
    IsDefault,      \* the instance guid is "default", which needs no row
    ConfirmActions, \* setting nginx.require-confirm-actions
    Actions,        \* the operations that are requested
    MaxEdits,       \* bound on the changes of the registry
    MaxFaults,      \* bound on the statements that fail
    None

Stages   == {"test", "act"}
Machines == Nodes \cup {Center}

\* A dispatched command: its request, its stage and the node it goes to.
Tasks == Requests \X Stages \X Nodes
TaskNode == [t \in Tasks |-> t[3]]

ASSUME NamesAssumption ==
    /\ Center \notin Nodes /\ None \notin Machines \cup Requests
    /\ Requests \cap Agents = {}
\* A node has one agent: agent_id is unique, and an agent polls for its own id.
ASSUME AgentAssumption ==
    /\ AgentNode \in [Agents -> Nodes]
    /\ \A a, b \in Agents : AgentNode[a] = AgentNode[b] => a = b
ASSUME ActionsAssumption ==
    Actions \subseteq {"test", "reload", "restart", "start", "stop", "refresh", "status"}
ASSUME ModesAssumption == IsDefault \in BOOLEAN
ASSUME BoundsAssumption == MaxEdits \in Nat /\ MaxFaults \in Nat

VARIABLES
    \* the database: the instance row, the node rows, the operation records
    instance, nodes, record,
    \* the requests
    pc, action, confirmed, stage,
    target, mode,       \* the resolved runtime
    todo,               \* the commands a request or an agent still has to run
    cmd, answer,
    \* the task channel and the agents
    call, ran,
    rows,   \* nginx_agent_tasks in the order of id
    over,   \* the rows that are not pending any more
    batch,  \* what an agent has been given and has not finished
    good,   \* the commands that succeeded
    \* nginx on each machine
    running,
    \* history
    seen,       \* the states of the registry since the request arrived
    touched,    \* where each stage ran a command
    succeeded,  \* where each stage did what it was asked
    last,       \* the request whose command last decided whether nginx runs
    edits, faults

registryVars == <<instance, nodes, edits>>
requestVars  == <<pc, action, confirmed, stage, target, mode, cmd, answer>>
agentVars    == <<rows, over, batch, good>>
effectVars   == <<todo, running, touched, succeeded, last>>
vars == <<registryVars, requestVars, record, call, ran, agentVars, effectVars,
          seen, faults>>

\* The place of a task in the queue, 0 if it is not queued.
Place == [t \in Tasks |-> IF \E i \in DOMAIN rows : rows[i] = t
                          THEN CHOOSE i \in DOMAIN rows : rows[i] = t
                          ELSE 0]

Channel == INSTANCE TaskQueue WITH rowId <- Place

\* An instance is bound to a node or (Center) to none.
InstanceRows == [state : {"absent", "disabled", "enabled"}, node : Machines, mode : Modes]
\* An enabled node is shown by its access mode.
NodeStates == {"absent", "disabled", "agent", "local"}
Registry == [instance : InstanceRows, nodes : [Nodes -> NodeStates]]
CurrentRegistry == [instance |-> instance, nodes |-> nodes]

Verbs == {"test", "reload", "restart", "start", "stop", "status"}
Outcomes == {"none", "success", "failed"}

\* The types; no command is queued twice, and at most one half of a
\* restart is left to do.
TypeOK ==
    /\ CurrentRegistry \in Registry
    /\ record \in [Requests -> [Stages -> Outcomes]]
    /\ pc \in [Requests -> {"idle", "instance", "node", "run", "insert", "wait", "record", "done"}]
    /\ action \in [Requests -> Actions \cup {"none"}]
    /\ confirmed \in [Requests -> BOOLEAN]
    /\ stage \in [Requests -> Stages]
    /\ target \in [Requests -> Machines]
    /\ mode \in [Requests -> Modes \cup {DefaultMode}]
    /\ todo \in [Requests \cup Agents -> Seq(Verbs)]
    /\ \A w \in Requests \cup Agents : Len(todo[w]) <= 1
    /\ cmd \in [Requests -> Outcomes]
    /\ answer \in [Requests -> Outcomes \cup {"refused", "error"}]
    /\ call \in [Tasks -> {"idle", "open", "ok", "failed", "timeout", "error", "lost"}]
    /\ ran \in [Agents -> [Tasks -> {"no", "ok", "failed"}]]
    /\ rows \in Seq(Tasks) /\ IsInjective(rows)
    /\ over \in SUBSET Tasks
    /\ batch \in [Agents -> SUBSET Tasks]
    /\ good \in [Agents -> SUBSET Tasks]
    /\ running \in [Machines -> BOOLEAN]
    /\ seen \in [Requests -> SUBSET Registry]
    /\ touched \in [Requests -> SUBSET (Stages \X Machines)]
    /\ succeeded \in [Requests -> SUBSET (Stages \X Machines)]
    /\ last \in [Machines -> Requests \cup {None}]
    /\ edits \in 0..MaxEdits /\ faults \in 0..MaxFaults

Init ==
    /\ instance \in {row \in InstanceRows : row.state = "enabled"}
    /\ nodes = [n \in Nodes |-> "agent"]
    /\ record = [r \in Requests |-> [s \in Stages |-> "none"]]
    /\ pc = [r \in Requests |-> "idle"]
    /\ action = [r \in Requests |-> "none"]
    /\ confirmed = [r \in Requests |-> FALSE]
    /\ stage = [r \in Requests |-> "act"]
    /\ target = [r \in Requests |-> Center]
    /\ mode = [r \in Requests |-> DefaultMode]
    /\ todo = [w \in Requests \cup Agents |-> <<>>]
    /\ cmd = [r \in Requests |-> "none"]
    /\ answer = [r \in Requests |-> "none"]
    /\ Channel!Init
    /\ rows = <<>> /\ over = {}
    /\ batch = [a \in Agents |-> {}]
    /\ good = [a \in Agents |-> {}]
    /\ running = [m \in Machines |-> TRUE]
    /\ seen = [r \in Requests |-> {}]
    /\ touched = [r \in Requests |-> {}]
    /\ succeeded = [r \in Requests |-> {}]
    /\ last = [m \in Machines |-> None]
    /\ edits = 0 /\ faults = 0

Fault == faults < MaxFaults /\ faults' = faults + 1
Goto(r, step) == pc' = [pc EXCEPT ![r] = step]

\* The request is answered; nothing of it is left in the center.
Return(r, a) ==
    /\ Goto(r, "done")
    /\ answer' = [answer EXCEPT ![r] = a]

-----------------------------------------------------------------------------
(* The registry. *)

Edit(row, ns) ==
    /\ edits < MaxEdits
    /\ edits' = edits + 1
    /\ <<row, ns>> # <<instance, nodes>>
    /\ instance' = row /\ nodes' = ns
    /\ seen' = [r \in Requests |-> IF pc[r] = "idle" THEN {}
                                   ELSE seen[r] \cup {[instance |-> row, nodes |-> ns]}]
    /\ UNCHANGED <<requestVars, record, call, ran, agentVars, effectVars, faults>>

SetNode(n, state) == Edit(instance, [nodes EXCEPT ![n] = state])

\* Updated, or registered again by its agent, which enables it.  A deleted node
\* does not come back: its guid is not used again.
NodeSave(n) ==
    \E s \in NodeStates \ {"absent"} : nodes[n] # "absent" /\ SetNode(n, s)
NodeDelete(n) == SetNode(n, "absent")

\* An edit of the mode is left out: a request reads it together with the rest.
InstanceSave ==
    \E row \in InstanceRows :
        row.state # "absent" /\ row.mode = instance.mode /\ Edit(row, nodes)
InstanceDelete == Edit([instance EXCEPT !.state = "absent"], nodes)

-----------------------------------------------------------------------------
(* A request and what it runs on: resolveNginxRuntime. *)

\* Mutant: nothing needs a confirmation.
NoConfirmation(act, c) == TRUE
\* requireConfirm is asked by Restart and Stop only.
ConfirmOk(act, c) == act \in {"restart", "stop"} \cap ConfirmActions => c

Arrive(r, act, c) ==
    /\ pc[r] = "idle"
    /\ c => act \in {"restart", "stop"}   \* the others ignore the flag
    /\ action' = [action EXCEPT ![r] = act]
    /\ confirmed' = [confirmed EXCEPT ![r] = c]
    /\ seen' = [seen EXCEPT ![r] = {CurrentRegistry}]
    /\ stage' = [stage EXCEPT ![r] = IF act \in {"test", "reload"} THEN "test" ELSE "act"]
    /\ \/ ~ConfirmOk(act, c) /\ Return(r, "refused") /\ UNCHANGED cmd
       \/ /\ act = "refresh"
          /\ Goto(r, "record")
          /\ cmd' = [cmd EXCEPT ![r] = "success"]
          /\ UNCHANGED answer
       \/ /\ act # "refresh" /\ ConfirmOk(act, c)
          /\ Goto(r, "instance")
          /\ UNCHANGED <<cmd, answer>>
    /\ UNCHANGED <<registryVars, record, target, mode, call, ran, agentVars,
                   effectVars, faults>>

\* The instance row: not found, disabled, bound to a node or not.
ReadInstance(r) ==
    /\ pc[r] = "instance"
    /\ mode' = [mode EXCEPT ![r] = IF instance.state = "enabled" THEN instance.mode
                                                                 ELSE DefaultMode]
    /\ target' = [target EXCEPT ![r] = IF instance.state = "enabled" THEN instance.node
                                                                     ELSE Center]
    /\ \/ /\ \/ instance.state = "disabled"
             \/ instance.state = "absent" /\ ~IsDefault
          /\ Return(r, "error")
       \/ /\ \/ instance.state = "enabled"
             \/ instance.state = "absent" /\ IsDefault
          /\ Goto(r, IF target'[r] = Center THEN "run" ELSE "node")
          /\ UNCHANGED answer
    /\ UNCHANGED <<registryVars, record, action, confirmed, stage, cmd, call, ran,
                   agentVars, effectVars, seen, faults>>

\* Mutant: the center stands in for a node that cannot be used.
ReadNodeOrFallBack(r) ==
    /\ pc[r] = "node"
    /\ \/ /\ nodes[target[r]] # "agent"
          /\ Goto(r, "run")
          /\ target' = [target EXCEPT ![r] = Center]
          /\ UNCHANGED <<call, ran>>
       \/ /\ nodes[target[r]] = "agent"
          /\ Goto(r, "insert")
          /\ Channel!Open(<<r, stage[r], target[r]>>)
          /\ UNCHANGED target
    /\ UNCHANGED <<registryVars, record, answer, action, confirmed, stage, mode, cmd,
                   agentVars, effectVars, seen, faults>>

\* The row of the node: not found, disabled, local or remote.  For a remote one
\* Dispatch then registers its waiter.
ReadNode(r) ==
    /\ pc[r] = "node"
    /\ \/ /\ nodes[target[r]] \in {"absent", "disabled"}
          /\ Return(r, "error")
          /\ UNCHANGED <<target, call, ran>>
       \/ /\ nodes[target[r]] = "local"
          /\ Goto(r, "run")
          /\ target' = [target EXCEPT ![r] = Center]
          /\ UNCHANGED <<answer, call, ran>>
       \/ /\ nodes[target[r]] = "agent"
          /\ Goto(r, "insert")
          /\ Channel!Open(<<r, stage[r], target[r]>>)
          /\ UNCHANGED <<target, answer>>
    /\ UNCHANGED <<registryVars, record, action, confirmed, stage, mode, cmd,
                   agentVars, effectVars, seen, faults>>

-----------------------------------------------------------------------------
(* Commands.  A failing one may have been stopped after its effect. *)

Verb(r, s) == IF s = "test" THEN "test" ELSE action[r]

\* A restart in command mode is a stop and a start; the start needs the stop.
Commands(md, verb) ==
    IF verb = "restart" /\ md = "command" THEN <<"stop", "start">> ELSE <<verb>>

\* Whether a command can return e.ok and leave nginx running or not (e.up) where
\* it runs or not (b).  nginx refuses to start twice or to stop what does not
\* run; systemctl and docker do not.  A container must run to test in it.  A
\* status is "ok" if nginx is thought to run; except for a container that is
\* any process with nginx in its name, as nginx-go and nginx-agent have.
Possible(md, verb, b, e) ==
    \/ verb \in {"status", "test"} /\ e.up = b /\ (e.ok => md # "docker" \/ b)
    \/ verb = "reload" /\ e.up = b /\ (e.ok => b)
    \/ verb = "start" /\ (b => e.up) /\ (e.ok => e.up /\ ~(md = "command" /\ b))
    \/ verb = "stop" /\ (e.up => b) /\ (e.ok => ~e.up /\ ~(md = "command" /\ ~b))
    \/ verb = "restart" /\ (e.ok => e.up)

\* Worker w runs the next command of stage s of request r on machine m.  It has
\* finished when nothing is left to do; ok tells whether that was a success.
RunNext(w, r, s, m, md, ok) ==
    LET commands == IF todo[w] = <<>> THEN Commands(md, Verb(r, s)) ELSE todo[w]
        verb == Head(commands)
    IN \E e \in [ok : BOOLEAN, up : BOOLEAN] :
        /\ Possible(md, verb, running[m], e)
        /\ e.ok = ok
        /\ running' = [running EXCEPT ![m] = e.up]
        /\ todo' = [todo EXCEPT ![w] = IF ok THEN Tail(commands) ELSE <<>>]
        /\ touched' = [touched EXCEPT ![r] = @ \cup {<<s, m>>}]
        /\ succeeded' = [succeeded EXCEPT ![r] =
                            IF ok /\ Len(commands) = 1 THEN @ \cup {<<s, m>>} ELSE @]
        /\ last' = [last EXCEPT ![m] =
                      IF verb \in {"start", "stop", "restart"} /\ (ok \/ e.up # running[m])
                      THEN r ELSE @]

\* The outcome of a stage: a status is answered, the others are recorded first.
Settle(r, outcome) ==
    \/ action[r] = "status" /\ Return(r, outcome) /\ UNCHANGED cmd
    \/ /\ action[r] # "status"
       /\ Goto(r, "record")
       /\ cmd' = [cmd EXCEPT ![r] = outcome]
       /\ UNCHANGED answer

Outcome(ok) == IF ok THEN "success" ELSE "failed"

\* The switch over the mode in runServiceAction; a test does not look at it.
Supported(r) == stage[r] = "test" \/ action[r] = "status"
                \/ mode[r] \in {"command", "systemd", "docker"}

RunLocal(r) ==
    /\ pc[r] = "run" /\ Supported(r)
    /\ \E ok \in BOOLEAN :
        /\ RunNext(r, r, stage[r], Center, mode[r], ok)
        /\ \/ todo'[r] # <<>> /\ UNCHANGED <<pc, cmd, answer>>
           \/ todo'[r] = <<>> /\ Settle(r, Outcome(ok))
    /\ UNCHANGED <<registryVars, record, action, confirmed, stage, target, mode, call,
                   ran, agentVars, seen, faults>>

Refuse(r) ==
    /\ pc[r] = "run" /\ ~Supported(r)
    /\ Return(r, "error")
    /\ UNCHANGED <<registryVars, record, action, confirmed, stage, target, mode, cmd,
                   call, ran, agentVars, effectVars, seen, faults>>

-----------------------------------------------------------------------------
(* Remote commands: dispatchAgent, and operation in the agent. *)

Task(r) == <<r, stage[r], target[r]>>

Insert(r) ==
    /\ pc[r] = "insert"
    /\ rows' = Append(rows, Task(r))
    /\ Goto(r, "wait")
    /\ UNCHANGED <<registryVars, record, action, confirmed, stage, target, mode, cmd,
                   answer, call, ran, over, batch, good, effectVars, seen, faults>>

InsertFails(r) ==
    /\ pc[r] = "insert"
    /\ Fault
    /\ Channel!Refuse(Task(r))
    /\ Settle(r, "failed")
    /\ UNCHANGED <<registryVars, record, action, confirmed, stage, target, mode,
                   agentVars, effectVars, seen>>

\* Mutant: the newest rows come first.
NewestFrom(n, p) ==
    {rows[i] : i \in {k \in p..Len(rows) : rows[k][3] = n /\ rows[k] \notin over}}

\* The rows an agent of node n can be given, up to place p of the queue.
PendingUpTo(n, p) ==
    {rows[i] : i \in {k \in 1..p : rows[k][3] = n /\ rows[k] \notin over}}

\* A poll of an enabled node takes some of the oldest rows (at most five).
Poll(a) ==
    /\ batch[a] = {}
    /\ nodes[AgentNode[a]] \in {"agent", "local"}
    /\ \E p \in DOMAIN rows :
        /\ PendingUpTo(AgentNode[a], p) # {}
        /\ batch' = [batch EXCEPT ![a] = PendingUpTo(AgentNode[a], p)]
        /\ over' = over \cup PendingUpTo(AgentNode[a], p)
    /\ UNCHANGED <<registryVars, requestVars, record, call, ran, rows, good,
                   effectVars, seen, faults>>

\* The agent takes a mode it does not know for "command".
AgentMode(md) == IF md \in {"systemd", "docker"} THEN md ELSE "command"

Before(t, u) == \E i, j \in DOMAIN rows : i < j /\ rows[i] = t /\ rows[j] = u

\* The agent runs what it has been given, oldest first.
RunRemote(a) ==
    \E t \in batch[a], ok \in BOOLEAN :
        /\ \A u \in batch[a] : ~Before(u, t)
        /\ RunNext(a, t[1], t[2], t[3], AgentMode(mode[t[1]]), ok)
        /\ \/ todo'[a] # <<>> /\ UNCHANGED <<call, ran, batch, good>>
           \/ /\ todo'[a] = <<>>
              /\ Channel!Run(a, t, "ok")
              /\ batch' = [batch EXCEPT ![a] = @ \ {t}]
              /\ good' = [good EXCEPT ![a] = IF ok THEN @ \cup {t} ELSE @]
        /\ UNCHANGED <<registryVars, requestVars, record, rows, over, seen, faults>>

\* The result of the agent reaches the waiting request.
Reply(r) ==
    /\ pc[r] = "wait"
    /\ Channel!Answer(Task(r), "ok")
    /\ \E a \in Agents : ran[a][Task(r)] = "ok" /\ Settle(r, Outcome(Task(r) \in good[a]))
    /\ UNCHANGED <<registryVars, record, action, confirmed, stage, target, mode,
                   agentVars, effectVars, seen, faults>>

\* Mutant: a request without an answer queues its task again.
ExpireAndRetry(r) ==
    /\ pc[r] = "wait"
    /\ rows' = Append(rows, Task(r))
    /\ UNCHANGED <<registryVars, requestVars, record, call, ran, over, batch, good,
                   effectVars, seen, faults>>

\* Mutant: a request whose answer is late counts as done.
ExpireAsDone(r) ==
    /\ pc[r] = "wait"
    /\ Channel!GiveUp(Task(r))
    /\ over' = over \cup {Task(r)}
    /\ Settle(r, "success")
    /\ UNCHANGED <<registryVars, record, action, confirmed, stage, target, mode,
                   rows, batch, good, effectVars, seen, faults>>

\* The update of the row to timeout may fail; it then stays pending.
Expire(r) ==
    /\ pc[r] = "wait"
    /\ Channel!GiveUp(Task(r))
    /\ \/ over' = over \cup {Task(r)} /\ UNCHANGED faults
       \/ Fault /\ UNCHANGED over
    /\ Settle(r, "failed")
    /\ UNCHANGED <<registryVars, record, action, confirmed, stage, target, mode,
                   rows, batch, good, effectVars, seen>>

-----------------------------------------------------------------------------
(* The record of a stage. *)

\* Mutant: a reload is not held up by a failed test.
ReloadAnyway(r) == stage[r] = "test" /\ action[r] = "reload"
\* Reload goes on to its second stage.
TestPassed(r) == stage[r] = "test" /\ action[r] = "reload" /\ cmd[r] = "success"

\* recordOnly: the record (the audit entry and the notification that follow are
\* left out); then the answer, or the reload after its test.
Record(r) ==
    /\ pc[r] = "record"
    /\ record' = [record EXCEPT ![r] = [@ EXCEPT ![stage[r]] = cmd[r]]]
    /\ \/ TestPassed(r) /\ Goto(r, "instance") /\ UNCHANGED answer
       \/ ~TestPassed(r) /\ Return(r, cmd[r])
    /\ stage' = [stage EXCEPT ![r] = IF TestPassed(r) THEN "act" ELSE @]
    /\ cmd' = [cmd EXCEPT ![r] = "none"]
    /\ UNCHANGED <<registryVars, action, confirmed, target, mode, call, ran,
                   agentVars, effectVars, seen, faults>>

\* The record is refused: an error, although the command has run.
RecordFails(r) ==
    /\ pc[r] = "record"
    /\ Fault
    /\ Return(r, "error")
    /\ cmd' = [cmd EXCEPT ![r] = "none"]
    /\ UNCHANGED <<registryVars, record, action, confirmed, stage, target, mode,
                   call, ran, agentVars, effectVars, seen>>

RequestStep(r) ==
    \/ \E act \in Actions, c \in BOOLEAN : Arrive(r, act, c)
    \/ ReadInstance(r) \/ ReadNode(r) \/ RunLocal(r) \/ Refuse(r)
    \/ Insert(r) \/ InsertFails(r) \/ Reply(r) \/ Expire(r)
    \/ Record(r) \/ RecordFails(r)

RegistryStep ==
    \/ \E n \in Nodes : NodeSave(n) \/ NodeDelete(n)
    \/ InstanceSave \/ InstanceDelete

Next ==
    \/ \E r \in Requests : RequestStep(r)
    \/ \E a \in Agents : Poll(a) \/ RunRemote(a)
    \/ RegistryStep

Spec == Init /\ [][Next]_vars

-----------------------------------------------------------------------------
(* Properties. *)

\* Where a request may run if it reads the instance in state g of the registry
\* and the node in state h.
Resolves(g, h) ==
    LET row == g.instance IN
    {m \in Machines :
        \/ row.state = "absent" /\ IsDefault /\ m = Center
        \/ row.state = "enabled" /\ row.node = Center /\ m = Center
        \/ row.state = "enabled" /\ row.node # Center /\
              \/ h.nodes[row.node] = "agent" /\ m = row.node
              \/ h.nodes[row.node] = "local" /\ m = Center}

\* A request runs nothing on a machine that the registry has ruled out ever since
\* it arrived: not for a disabled instance, not on a disabled or deleted node, and
\* not in the center instead of a remote node, however late the agent comes.
DisabledUntouched ==
    \A r \in Requests : \A x \in touched[r] :
        \E g, h \in seen[r] : x[2] \in Resolves(g, h)

\* A recorded success has happened, a recorded failure of the center has not, a
\* success that is answered is recorded, and each stage of a request runs on one
\* machine.
RecordsTrue ==
    \A r \in Requests, s \in Stages :
        /\ record[r][s] = "success" /\ action[r] # "refresh"
           => \E m \in Machines : <<s, m>> \in succeeded[r]
        /\ record[r][s] = "failed" => <<s, Center>> \notin succeeded[r]
        /\ answer[r] = "success" /\ action[r] # "status" => record[r][stage[r]] = "success"
        /\ \A x, y \in touched[r] : x[1] = y[1] => x = y

\* nginx is down only because of a stop or restart that was confirmed if it had to
\* be, and where the request that last decided is recorded as a success nginx is as
\* it asked, whatever ran in between.
LastWord ==
    \A m \in Machines :
        LET r == last[m] IN
        /\ ~running[m] =>
             /\ r # None /\ action[r] \in {"stop", "restart"}
             /\ action[r] \in ConfirmActions => confirmed[r]
        /\ r # None /\ record[r]["act"] = "success" => running[m] = (action[r] # "stop")

\* Of two starts, stops or restarts sent to an agent the one queued first cannot
\* undo the other after the other is recorded as done: not even if it was given
\* up and comes late.
NewestStands ==
    \A i, j \in DOMAIN rows :
        LET t == rows[i]  u == rows[j] IN
        /\ i < j /\ t[3] = u[3] /\ t[1] # u[1]
        /\ u[2] = "act" /\ action[u[1]] \in {"start", "stop", "restart"}
        /\ record[u[1]]["act"] = "success"
        => last[u[3]] # t[1]

\* README: a reload comes after a test that passed; and it is a test on the same
\* machine unless the registry has changed since the request arrived.
ReloadTested ==
    \A r \in Requests, m \in Machines :
        action[r] = "reload" /\ <<"act", m>> \in touched[r] =>
            /\ \E n \in Machines : <<"test", n>> \in succeeded[r]
            /\ (\A g, h \in seen[r] : g = h) => <<"test", m>> \in succeeded[r]

\* Agents that are given the oldest rows of an enabled node and run them one after
\* the other keep to the queue, although rows are given up, a row stays pending
\* when that update fails, and nodes change between two polls (Dispatch, Poll).
KeepsTaskQueue == Channel!QueueSpec
=============================================================================
