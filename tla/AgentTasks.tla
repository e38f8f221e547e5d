----------------------------- MODULE AgentTasks -----------------------------
(***************************************************************************)
(* The task channel between the center and its nginx agents.               *)
(*                                                                         *)
(* A center request that concerns a remote instance calls                  *)
(* AgentService.Dispatch: it inserts a task row and waits for the row to   *)
(* be completed.  The agent process of the node polls for rows, runs each  *)
(* task and posts its result.  Every SQL statement is one step; handlers   *)
(* of different requests interleave between statements.  Requests and      *)
(* answers may be lost, the agent gives up on a slow poll (30 s) while its *)
(* handler keeps running, the database may refuse a statement, and the     *)
(* center and the agents may crash.  Faults share the budget MaxFaults.    *)
(*                                                                         *)
(* services/agent_service.go (Dispatch, Poll, Complete, the waiter hub)    *)
(* and cmd/nginx-agent/main.go (main loop, handleTask).                    *)
(***************************************************************************)
EXTENDS Naturals, FiniteSets

CONSTANTS
    Tasks,      \* the task guids, one call of Dispatch each
    Agents,     \* agent processes
    Nodes,      \* node guids
    Polls,      \* slots for poll handlers running in the center
    TaskNode,   \* the node a task is dispatched to
    AgentNode,  \* the node an agent process has registered as
    PollLimit,  \* the LIMIT of a poll (5 in the code)
    MaxFaults,  \* how many losses, refused statements and crashes may happen
    None        \* the absence of a task, a poll handler or an agent

ASSUME TasksAssumption == IsFiniteSet(Tasks)
ASSUME NodeAssumption ==
    /\ TaskNode \in [Tasks -> Nodes]
    /\ AgentNode \in [Agents -> Nodes]
ASSUME PollLimitAssumption == PollLimit \in Nat \ {0}
ASSUME MaxFaultsAssumption == MaxFaults \in Nat
ASSUME NoneAssumption == None \notin Tasks \cup Polls \cup Agents

VARIABLES
    \* the database: nginx_agent_tasks
    status,     \* the status column of a task's row
    rowId,      \* its auto-incremented id, 0 before the insert
    nextId,
    \* center memory: one Dispatch call per task
    caller,     \* where the call is
    answer,     \* what it returned
    waiters,    \* agentWaiterHub.waiters
    channel,    \* the content of the call's one-place channel
    \* center memory: poll handlers
    pollPc, pollBy, todo, envelopes,
    \* center memory: complete handlers, one per agent and task
    completePc, reread,
    \* agent processes
    waitsOn,    \* the poll handler whose answer the agent waits for
    batch,      \* envelopes received and not yet handled
    doing,      \* the task that has run and is not yet reported
    runs,       \* how often the process ran the task (effect on nginx)
    result,     \* the outcome of that run
    faults

callerVars   == <<caller, answer, waiters>>
rowVars      == <<rowId, nextId>>
pollVars     == <<pollPc, pollBy, todo, envelopes>>
completeVars == <<completePc, reread>>
agentVars    == <<waitsOn, batch, doing, runs, result>>
vars == <<status, rowVars, callerVars, channel, pollVars, completeVars,
          agentVars, faults>>

Unfinished == {"pending", "dispatched"}
Completed  == {"success", "failed"}
Statuses   == {"absent", "timeout"} \cup Unfinished \cup Completed

\* Dispatch has registered its waiter and has not returned.
InDispatch == {"creating", "waiting", "expiring"}

TypeOK ==
    /\ status \in [Tasks -> Statuses]
    /\ rowId \in [Tasks -> Nat]
    /\ nextId \in Nat \ {0}
    /\ caller \in [Tasks -> {"idle", "done"} \cup InDispatch]
    /\ answer \in [Tasks -> {"none", "ok", "failed", "timeout", "error", "lost"}]
    /\ waiters \subseteq Tasks
    /\ channel \in [Tasks -> {"empty"} \cup Completed]
    /\ pollPc \in [Polls -> {"free", "resolve", "select", "mark"}]
    /\ pollBy \in [Polls -> Agents \cup {None}]
    /\ todo \in [Polls -> SUBSET Tasks]
    /\ envelopes \in [Polls -> SUBSET Tasks]
    /\ completePc \in [Agents -> [Tasks -> {"none", "posted", "stored", "read", "over"}]]
    /\ reread \in [Agents -> [Tasks -> {"none"} \cup Completed]]
    /\ waitsOn \in [Agents -> Polls \cup {None}]
    /\ batch \in [Agents -> SUBSET Tasks]
    /\ doing \in [Agents -> Tasks \cup {None}]
    /\ runs \in [Agents -> [Tasks -> Nat]]
    /\ result \in [Agents -> [Tasks -> {"none", "ok", "failed"}]]
    /\ faults \in 0..MaxFaults

Init ==
    /\ status = [t \in Tasks |-> "absent"]
    /\ rowId = [t \in Tasks |-> 0]
    /\ nextId = 1
    /\ caller = [t \in Tasks |-> "idle"]
    /\ answer = [t \in Tasks |-> "none"]
    /\ waiters = {}
    /\ channel = [t \in Tasks |-> "empty"]
    /\ pollPc = [p \in Polls |-> "free"]
    /\ pollBy = [p \in Polls |-> None]
    /\ todo = [p \in Polls |-> {}]
    /\ envelopes = [p \in Polls |-> {}]
    /\ completePc = [a \in Agents |-> [t \in Tasks |-> "none"]]
    /\ reread = [a \in Agents |-> [t \in Tasks |-> "none"]]
    /\ waitsOn = [a \in Agents |-> None]
    /\ batch = [a \in Agents |-> {}]
    /\ doing = [a \in Agents |-> None]
    /\ runs = [a \in Agents |-> [t \in Tasks |-> 0]]
    /\ result = [a \in Agents |-> [t \in Tasks |-> "none"]]
    /\ faults = 0

\* One more fault of the budget happens in this step.
Fault == faults < MaxFaults /\ faults' = faults + 1

-----------------------------------------------------------------------------
(* AgentService.Dispatch: one call per task. *)

\* The waiter is registered before the row exists, so no completion of the
\* row can miss it.
Register(t) ==
    /\ caller[t] = "idle"
    /\ caller' = [caller EXCEPT ![t] = "creating"]
    /\ waiters' = waiters \cup {t}
    /\ UNCHANGED <<status, rowVars, answer, channel, pollVars, completeVars,
                   agentVars, faults>>

\* Mutant: no deferred unregister.
ReturnKeepingWaiter(t, r) ==
    /\ caller' = [caller EXCEPT ![t] = "done"]
    /\ answer' = [answer EXCEPT ![t] = r]
    /\ waiters' = waiters

\* Dispatch returns r; its deferred unregister drops the waiter.
Return(t, r) ==
    /\ caller' = [caller EXCEPT ![t] = "done"]
    /\ answer' = [answer EXCEPT ![t] = r]
    /\ waiters' = waiters \ {t}

Create(t) ==
    /\ caller[t] = "creating"
    /\ caller' = [caller EXCEPT ![t] = "waiting"]
    /\ status' = [status EXCEPT ![t] = "pending"]
    /\ rowId' = [rowId EXCEPT ![t] = nextId]
    /\ nextId' = nextId + 1
    /\ UNCHANGED <<answer, waiters, channel, pollVars, completeVars,
                   agentVars, faults>>

CreateFails(t) ==
    /\ caller[t] = "creating"
    /\ Fault
    /\ Return(t, "error")
    /\ UNCHANGED <<status, rowVars, channel, pollVars, completeVars, agentVars>>

\* decodeAgentTaskResponse: anything but success is an error for the caller.
Decode(s) == IF s = "success" THEN "ok" ELSE "failed"

\* case completed := <-ch
Receive(t) ==
    /\ caller[t] = "waiting"
    /\ channel[t] # "empty"
    /\ channel' = [channel EXCEPT ![t] = "empty"]
    /\ Return(t, Decode(channel[t]))
    /\ UNCHANGED <<status, rowVars, pollVars, completeVars, agentVars, faults>>

\* Mutant: completedTask does not look at the status of the row.
TickAnyRow(t) ==
    /\ caller[t] = "waiting"
    /\ Return(t, Decode(status[t]))
    /\ UNCHANGED <<status, rowVars, channel, pollVars, completeVars,
                   agentVars, faults>>

\* case <-ticker.C with a finished row; otherwise the loop goes on.
Tick(t) ==
    /\ caller[t] = "waiting"
    /\ status[t] \in Completed \cup {"timeout"}
    /\ Return(t, Decode(status[t]))
    /\ UNCHANGED <<status, rowVars, channel, pollVars, completeVars,
                   agentVars, faults>>

\* case <-timer.C is chosen, perhaps while the other cases are ready too.
TimerFires(t) ==
    /\ caller[t] = "waiting"
    /\ caller' = [caller EXCEPT ![t] = "expiring"]
    /\ UNCHANGED <<status, rowVars, answer, waiters, channel, pollVars,
                   completeVars, agentVars, faults>>

\* Mutant: the update of the timer branch has no condition on the status.
ExpireAnyRow(t) ==
    /\ caller[t] = "expiring"
    /\ status' = [status EXCEPT ![t] = "timeout"]
    /\ Return(t, "timeout")
    /\ UNCHANGED <<rowVars, channel, pollVars, completeVars, agentVars, faults>>

\* Mutant: the timer branch returns only if its update hit the row.
ExpireUnfinishedOnly(t) ==
    /\ caller[t] = "expiring"
    /\ status[t] \in Unfinished
    /\ status' = [status EXCEPT ![t] = "timeout"]
    /\ Return(t, "timeout")
    /\ UNCHANGED <<rowVars, channel, pollVars, completeVars, agentVars, faults>>

\* The conditional update of the timer branch, then the timeout error.
Expire(t) ==
    /\ caller[t] = "expiring"
    /\ status' = [status EXCEPT ![t] = IF @ \in Unfinished THEN "timeout" ELSE @]
    /\ Return(t, "timeout")
    /\ UNCHANGED <<rowVars, channel, pollVars, completeVars, agentVars, faults>>

\* The error of that update is ignored: the caller is told of the timeout and
\* the row stays as it was.
ExpireFails(t) ==
    /\ caller[t] = "expiring"
    /\ Fault
    /\ Return(t, "timeout")
    /\ UNCHANGED <<status, rowVars, channel, pollVars, completeVars, agentVars>>

-----------------------------------------------------------------------------
(* AgentService.Poll, in a handler p, and the agent that asked for it. *)

\* The main loop of the agent asks for tasks when it has none in hand.
StartPoll(a, p) ==
    /\ waitsOn[a] = None /\ batch[a] = {} /\ doing[a] = None
    /\ pollPc[p] = "free"
    /\ waitsOn' = [waitsOn EXCEPT ![a] = p]
    /\ pollPc' = [pollPc EXCEPT ![p] = "resolve"]
    /\ pollBy' = [pollBy EXCEPT ![p] = a]
    /\ UNCHANGED <<status, rowVars, callerVars, channel, todo, envelopes,
                   completeVars, batch, doing, runs, result, faults>>

\* resolveNode finds an enabled node, whose last_seen_at is refreshed.
ResolveNode(p) ==
    /\ pollPc[p] = "resolve"
    /\ pollPc' = [pollPc EXCEPT ![p] = "select"]
    /\ UNCHANGED <<status, rowVars, callerVars, channel, pollBy, todo,
                   envelopes, completeVars, agentVars, faults>>

\* Mutants: the query forgets the node; it selects timed out rows as well.
PendingAnywhere(n) == {t \in Tasks : status[t] = "pending"}
PendingOrTimedOut(n) == {t \in Tasks : TaskNode[t] = n /\ status[t] \in {"pending", "timeout"}}

\* WHERE node_guid = ? AND status = pending
PendingOf(n) == {t \in Tasks : TaskNode[t] = n /\ status[t] = "pending"}

\* S is what ORDER BY id LIMIT l returns of the rows R.
IsOldest(S, R, l) ==
    /\ S \subseteq R
    /\ Cardinality(S) =< l
    /\ S = R \/ Cardinality(S) = l
    /\ \A t \in S, u \in R \ S : rowId[t] < rowId[u]

\* SELECT the oldest pending rows of the node.
SelectPending(p) ==
    /\ pollPc[p] = "select"
    /\ \E S \in SUBSET Tasks :
          /\ IsOldest(S, PendingOf(AgentNode[pollBy[p]]), PollLimit)
          /\ todo' = [todo EXCEPT ![p] = S]
    /\ pollPc' = [pollPc EXCEPT ![p] = "mark"]
    /\ UNCHANGED <<status, rowVars, callerVars, channel, pollBy, envelopes,
                   completeVars, agentVars, faults>>

\* Mutant: the row is handed out without being marked.
HandOutUnmarked(p, t) ==
    /\ pollPc[p] = "mark"
    /\ t \in todo[p]
    /\ \A u \in todo[p] : rowId[t] =< rowId[u]
    /\ todo' = [todo EXCEPT ![p] = @ \ {t}]
    /\ envelopes' = [envelopes EXCEPT ![p] = @ \cup {t}]
    /\ UNCHANGED <<status, rowVars, callerVars, channel, pollPc, pollBy,
                   completeVars, agentVars, faults>>

\* Mutant: the update does not ask whether the row is still pending.
MarkAnyRow(p, t) ==
    /\ pollPc[p] = "mark"
    /\ t \in todo[p]
    /\ \A u \in todo[p] : rowId[t] =< rowId[u]
    /\ status' = [status EXCEPT ![t] = "dispatched"]
    /\ todo' = [todo EXCEPT ![p] = @ \ {t}]
    /\ envelopes' = [envelopes EXCEPT ![p] = @ \cup {t}]
    /\ UNCHANGED <<rowVars, callerVars, channel, pollPc, pollBy, completeVars,
                   agentVars, faults>>

\* Mutant: no ORDER BY, the rows come in any order.
MarkInAnyOrder(p, t) ==
    /\ pollPc[p] = "mark"
    /\ t \in todo[p]
    /\ status' = [status EXCEPT ![t] = IF @ = "pending" THEN "dispatched" ELSE @]
    /\ todo' = [todo EXCEPT ![p] = @ \ {t}]
    /\ envelopes' = [envelopes EXCEPT ![p] = @ \cup {t}]
    /\ UNCHANGED <<rowVars, callerVars, channel, pollPc, pollBy, completeVars,
                   agentVars, faults>>

\* One turn of the loop: UPDATE ... WHERE status = pending.  The envelope is
\* appended whether or not the update found the row still pending.
MarkDispatched(p, t) ==
    /\ pollPc[p] = "mark"
    /\ t \in todo[p]
    /\ \A u \in todo[p] : rowId[t] =< rowId[u]
    /\ status' = [status EXCEPT ![t] = IF @ = "pending" THEN "dispatched" ELSE @]
    /\ todo' = [todo EXCEPT ![p] = @ \ {t}]
    /\ envelopes' = [envelopes EXCEPT ![p] = @ \cup {t}]
    /\ UNCHANGED <<rowVars, callerVars, channel, pollPc, pollBy, completeVars,
                   agentVars, faults>>

\* The handler ends and its slot is free again.
EndPoll(p) ==
    /\ pollPc' = [pollPc EXCEPT ![p] = "free"]
    /\ todo' = [todo EXCEPT ![p] = {}]
    /\ envelopes' = [envelopes EXCEPT ![p] = {}]
    /\ pollBy' = [pollBy EXCEPT ![p] = None]

\* The answer reaches the agent if it still waits for it.
ReplyPoll(p) ==
    /\ pollPc[p] = "mark" /\ todo[p] = {}
    /\ \/ /\ waitsOn[pollBy[p]] = p
          /\ batch' = [batch EXCEPT ![pollBy[p]] = envelopes[p]]
          /\ waitsOn' = [waitsOn EXCEPT ![pollBy[p]] = None]
       \/ /\ waitsOn[pollBy[p]] # p
          /\ UNCHANGED <<batch, waitsOn>>
    /\ EndPoll(p)
    /\ UNCHANGED <<status, rowVars, callerVars, channel, completeVars, doing,
                   runs, result, faults>>

\* The node is unknown or disabled, or a statement fails: the handler returns
\* an error and the rows it has marked so far are not handed out.
PollFails(p) ==
    /\ pollPc[p] # "free"
    /\ Fault
    /\ waitsOn' = [a \in Agents |-> IF waitsOn[a] = p THEN None ELSE waitsOn[a]]
    /\ EndPoll(p)
    /\ UNCHANGED <<status, rowVars, callerVars, channel, completeVars, batch,
                   doing, runs, result>>

\* The client times out or loses the connection; the handler is not stopped.
AbandonPoll(a) ==
    /\ waitsOn[a] # None
    /\ Fault
    /\ waitsOn' = [waitsOn EXCEPT ![a] = None]
    /\ UNCHANGED <<status, rowVars, callerVars, channel, pollVars,
                   completeVars, batch, doing, runs, result>>

-----------------------------------------------------------------------------
(* handleTask in the agent: run the oldest task in hand, then report it. *)

\* Mutant: the tasks in hand are run in any order.
ExecuteAny(a, t, r) ==
    /\ doing[a] = None
    /\ t \in batch[a]
    /\ runs' = [runs EXCEPT ![a][t] = @ + 1]
    /\ result' = [result EXCEPT ![a][t] = r]
    /\ doing' = [doing EXCEPT ![a] = t]
    /\ batch' = [batch EXCEPT ![a] = @ \ {t}]
    /\ UNCHANGED <<status, rowVars, callerVars, channel, pollVars,
                   completeVars, waitsOn, faults>>

Execute(a, t, r) ==
    /\ doing[a] = None
    /\ t \in batch[a]
    /\ \A u \in batch[a] : rowId[t] =< rowId[u]
    /\ runs' = [runs EXCEPT ![a][t] = @ + 1]
    /\ result' = [result EXCEPT ![a][t] = r]
    /\ doing' = [doing EXCEPT ![a] = t]
    /\ batch' = [batch EXCEPT ![a] = @ \ {t}]
    /\ UNCHANGED <<status, rowVars, callerVars, channel, pollVars,
                   completeVars, waitsOn, faults>>

\* The completion request reaches the center.  Whether the agent waits for
\* its answer makes no difference: it may time out at any moment.
PostComplete(a, t) ==
    /\ doing[a] = t
    /\ doing' = [doing EXCEPT ![a] = None]
    /\ completePc' = [completePc EXCEPT ![a][t] = "posted"]
    /\ UNCHANGED <<status, rowVars, callerVars, channel, pollVars, reread,
                   waitsOn, batch, runs, result, faults>>

\* The completion request is lost; handleTask does not repeat it.
LoseComplete(a) ==
    /\ doing[a] # None
    /\ Fault
    /\ doing' = [doing EXCEPT ![a] = None]
    /\ UNCHANGED <<status, rowVars, callerVars, channel, pollVars,
                   completeVars, waitsOn, batch, runs, result>>

\* The agent process restarts and forgets what it had in hand.
AgentCrash(a) ==
    /\ Fault
    /\ waitsOn' = [waitsOn EXCEPT ![a] = None]
    /\ batch' = [batch EXCEPT ![a] = {}]
    /\ doing' = [doing EXCEPT ![a] = None]
    /\ UNCHANGED <<status, rowVars, callerVars, channel, pollVars,
                   completeVars, runs, result>>

-----------------------------------------------------------------------------
(* AgentService.Complete for the report of agent a on task t. *)

\* Mutant: a status that is none of the declared ones.
ReportedAsError(r) == IF r = "ok" THEN "success" ELSE "error"

\* The status column a report is stored as.
Reported(r) == IF r = "ok" THEN "success" ELSE "failed"

\* UPDATE ... WHERE guid = ?, whatever the row's status is by now.
StoreResult(a, t) ==
    /\ completePc[a][t] = "posted"
    /\ status' = [status EXCEPT ![t] = Reported(result[a][t])]
    /\ completePc' = [completePc EXCEPT ![a][t] = "stored"]
    /\ UNCHANGED <<rowVars, callerVars, channel, pollVars, reread, agentVars,
                   faults>>

\* The row is read back for the waiter and for the answer.
RereadTask(a, t) ==
    /\ completePc[a][t] = "stored"
    /\ reread' = [reread EXCEPT ![a][t] = status[t]]
    /\ completePc' = [completePc EXCEPT ![a][t] = "read"]
    /\ UNCHANGED <<status, rowVars, callerVars, channel, pollVars, agentVars,
                   faults>>

\* agentWaiterHub.complete: a send that never blocks, to a waiter that may be
\* gone or may have its one place taken.
NotifyWaiter(a, t) ==
    /\ completePc[a][t] = "read"
    /\ channel' = IF t \in waiters /\ channel[t] = "empty"
                  THEN [channel EXCEPT ![t] = reread[a][t]]
                  ELSE channel
    /\ completePc' = [completePc EXCEPT ![a][t] = "over"]
    /\ reread' = [reread EXCEPT ![a][t] = "none"]
    /\ UNCHANGED <<status, rowVars, callerVars, pollVars, agentVars, faults>>

CompleteFails(a, t) ==
    /\ completePc[a][t] \in {"posted", "stored"}
    /\ Fault
    /\ completePc' = [completePc EXCEPT ![a][t] = "over"]
    /\ UNCHANGED <<status, rowVars, callerVars, channel, pollVars, reread,
                   agentVars>>

-----------------------------------------------------------------------------
\* Mutant: the client of the agent has no timeout and waits for an answer
\* that the restarted center will never give.
CenterCrashUnnoticed ==
    /\ Fault
    /\ caller' = [t \in Tasks |-> IF caller[t] \in InDispatch THEN "done" ELSE caller[t]]
    /\ answer' = [t \in Tasks |-> IF caller[t] \in InDispatch THEN "lost" ELSE answer[t]]
    /\ waiters' = {}
    /\ channel' = [t \in Tasks |-> "empty"]
    /\ pollPc' = [p \in Polls |-> "free"]
    /\ todo' = [p \in Polls |-> {}]
    /\ envelopes' = [p \in Polls |-> {}]
    /\ pollBy' = [p \in Polls |-> None]
    /\ reread' = [a \in Agents |-> [t \in Tasks |-> "none"]]
    /\ completePc' = [a \in Agents |-> [t \in Tasks |->
                        IF completePc[a][t] = "none" THEN "none" ELSE "over"]]
    /\ UNCHANGED <<status, rowVars, waitsOn, batch, doing, runs, result>>

(* The center restarts: its memory is gone, the rows survive. *)
CenterCrash ==
    /\ Fault
    /\ caller' = [t \in Tasks |-> IF caller[t] \in InDispatch THEN "done" ELSE caller[t]]
    /\ answer' = [t \in Tasks |-> IF caller[t] \in InDispatch THEN "lost" ELSE answer[t]]
    /\ waiters' = {}
    /\ channel' = [t \in Tasks |-> "empty"]
    /\ pollPc' = [p \in Polls |-> "free"]
    /\ todo' = [p \in Polls |-> {}]
    /\ envelopes' = [p \in Polls |-> {}]
    /\ pollBy' = [p \in Polls |-> None]
    /\ reread' = [a \in Agents |-> [t \in Tasks |-> "none"]]
    /\ completePc' = [a \in Agents |-> [t \in Tasks |->
                        IF completePc[a][t] = "none" THEN "none" ELSE "over"]]
    /\ waitsOn' = [a \in Agents |-> None]
    /\ UNCHANGED <<status, rowVars, batch, doing, runs, result>>

-----------------------------------------------------------------------------
DispatchStep(t) ==
    \/ Register(t) \/ Create(t) \/ CreateFails(t) \/ Receive(t) \/ Tick(t)
    \/ TimerFires(t) \/ Expire(t) \/ ExpireFails(t)

PollStep(p) ==
    \/ ResolveNode(p) \/ SelectPending(p) \/ ReplyPoll(p) \/ PollFails(p)
    \/ \E t \in Tasks : MarkDispatched(p, t)

AgentStep(a) ==
    \/ \E p \in Polls : StartPoll(a, p)
    \/ AbandonPoll(a) \/ LoseComplete(a) \/ AgentCrash(a)
    \/ \E t \in Tasks : PostComplete(a, t)
    \/ \E t \in Tasks, r \in {"ok", "failed"} : Execute(a, t, r)

CompleteStep(a, t) ==
    \/ StoreResult(a, t) \/ RereadTask(a, t) \/ NotifyWaiter(a, t)
    \/ CompleteFails(a, t)

Next ==
    \/ \E t \in Tasks : DispatchStep(t)
    \/ \E p \in Polls : PollStep(p)
    \/ \E a \in Agents : AgentStep(a)
    \/ \E a \in Agents, t \in Tasks : CompleteStep(a, t)
    \/ CenterCrash

Spec == Init /\ [][Next]_vars

-----------------------------------------------------------------------------
(* Safety. *)

\* "ok" and "failed" are never made up: a process of the addressed node has
\* run the task, and with that outcome, however late or often it reported.
AnswerTruthful ==
    \A t \in Tasks : answer[t] \in {"ok", "failed"} =>
        \E a \in Agents : /\ AgentNode[a] = TaskNode[t]
                          /\ runs[a][t] > 0
                          /\ result[a][t] = answer[t]

\* No agent process runs a task twice: lost answers, abandoned poll handlers
\* and restarts of either side never bring a task back to the process.
RunsOnce == \A a \in Agents, t \in Tasks : runs[a][t] =< 1

\* Rows are marked in the order of their insertion.
QueueInOrder ==
    \A t, u \in Tasks :
        /\ TaskNode[t] = TaskNode[u]
        /\ status[t] = "dispatched" /\ status[u] = "pending"
        => rowId[t] < rowId[u]

\* What a process has in hand is newer than what it has run.
HandsInOrder ==
    \A a \in Agents, t \in Tasks : runs[a][t] > 0 =>
        \A u \in batch[a] : rowId[t] < rowId[u]

\* The queue of a node is served in the order of insertion: a task is not
\* handed out while an older one still waits, and a process never has in hand
\* a task that is older than one it has run.
OldestFirst == QueueInOrder /\ HandsInOrder

\* If only one process ran the task, the caller's answer agrees with the row
\* that the task list shows, for good.
AnswerMatchesRow ==
    \A t \in Tasks :
        /\ answer[t] \in {"ok", "failed"}
        /\ \E a \in Agents : \A b \in Agents : runs[b][t] > 0 => a = b
        => status[t] = Reported(answer[t])

\* A recorded completion is not undone by a late timeout or a late poll.
CompletionStays ==
    [][\A t \in Tasks : status[t] \in Completed => status'[t] \in Completed]_vars

\* A process runs newer and newer tasks (the loop of main over what Poll ordered).
\* TaskQueue says it in terms of the calls.
RunsNewer ==
    [][\A a \in Agents : \A t, u \in Tasks :
          runs'[a][t] > runs[a][t] /\ runs[a][u] > 0 => rowId[u] < rowId[t]]_vars

\* The row has timed out before any poll handler saw it.
TimedOutUnseen(t) ==
    /\ status[t] = "timeout"
    /\ \A p \in Polls : t \notin todo[p] \cup envelopes[p]
    /\ \A a \in Agents : t \notin batch[a] /\ runs[a][t] = 0

\* A task that timed out in the queue is never run later.
TimedOutUnseenForGood ==
    [][\A t \in Tasks : TimedOutUnseen(t) => TimedOutUnseen(t)']_vars

-----------------------------------------------------------------------------
(* The promise to the callers. *)

\* A call is open until Dispatch returns, and then is what it returned.
CallState ==
    [t \in Tasks |-> IF caller[t] = "idle" THEN "idle"
                     ELSE IF caller[t] = "done" THEN answer[t] ELSE "open"]

\* What the task did in each process.
RunState ==
    [a \in Agents |-> [t \in Tasks |-> IF runs[a][t] = 0 THEN "no" ELSE result[a][t]]]

TQ == INSTANCE TaskQueue WITH call <- CallState, ran <- RunState

\* AgentTasks implements TaskCall: no call runs twice in a process, and none is
\* answered with what no process of its node has done (Dispatch).
ImplementsTaskCall == TQ!Spec

\* It does so in the order of TaskQueue: whatever polls, timeouts, losses and
\* restarts overlap, a process runs newer and newer tasks, each of them queued
\* once (Dispatch, Poll, the loop of main).
ImplementsTaskQueue == TQ!QueueSpec

-----------------------------------------------------------------------------
(* Liveness.  The goroutine of Dispatch runs and its timer fires; poll and  *)
(* complete handlers run; an agent's loop keeps polling and handling.       *)

DispatchFairness ==
    \A t \in Tasks :
        /\ WF_vars(Create(t) \/ CreateFails(t))
        /\ WF_vars(Receive(t) \/ Tick(t) \/ TimerFires(t))
        /\ WF_vars(Expire(t) \/ ExpireFails(t))

HandlerFairness ==
    \A p \in Polls :
        WF_vars(ResolveNode(p) \/ SelectPending(p) \/ ReplyPoll(p)
                \/ \E t \in Tasks : MarkDispatched(p, t))

AgentFairness ==
    \A a \in Agents :
        /\ WF_vars(\E p \in Polls : StartPoll(a, p))
        /\ WF_vars(\E t \in Tasks, r \in {"ok", "failed"} : Execute(a, t, r))
        /\ WF_vars(\E t \in Tasks : PostComplete(a, t))

FairSpec == Spec /\ DispatchFairness
FairQueueSpec == Spec /\ HandlerFairness /\ AgentFairness

\* Every Dispatch returns, even if no agent ever polls or answers.
DispatchReturns ==
    \A t \in Tasks : caller[t] = "creating" ~> caller[t] = "done"

\* Once the faults are over, a queued task is picked up by an agent of its
\* node, also when its caller died with the center.
QueueDrains ==
    \A t \in Tasks :
        (status[t] = "pending" /\ \E a \in Agents : AgentNode[a] = TaskNode[t])
            ~> status[t] # "pending"

-----------------------------------------------------------------------------
(* The inductive invariant behind the safety properties. *)

\* The report s on task t goes back to a run in a process of its node.
Produced(t, s) ==
    \E a \in Agents : /\ AgentNode[a] = TaskNode[t]
                      /\ runs[a][t] > 0
                      /\ Reported(result[a][t]) = s

\* The row exists from Create on, and times out only in its own Dispatch.
CallAndRow ==
    \A t \in Tasks :
        /\ caller[t] \in {"idle", "creating"} => status[t] = "absent"
        /\ caller[t] \in {"waiting", "expiring"} => status[t] # "absent"
        /\ answer[t] = "none" <=> caller[t] # "done"
        /\ answer[t] = "error" => status[t] = "absent"
        /\ status[t] = "timeout" => caller[t] = "done"
        /\ t \in waiters <=> caller[t] \in InDispatch

\* Rows, and nothing else, are numbered, in the order of their insertion.
IdsInOrder ==
    \A t \in Tasks :
        /\ rowId[t] = 0 <=> status[t] = "absent"
        /\ rowId[t] < nextId
        /\ status[t] # "absent" =>
              \A u \in Tasks \ {t} : status[u] # "absent" => rowId[t] # rowId[u]

\* A handler in use has a client, which waits for it or has given up on it.
PollShape ==
    /\ \A p \in Polls : /\ pollPc[p] = "free" <=> pollBy[p] = None
                        /\ pollPc[p] # "mark" => todo[p] = {} /\ envelopes[p] = {}
    /\ \A a \in Agents : waitsOn[a] # None =>
          /\ pollBy[waitsOn[a]] = a
          /\ batch[a] = {} /\ doing[a] = None

\* What a handler has selected is of its node, older than what else is
\* pending there, and new to the process that waits for it.
SelectedRows ==
    \A p \in Polls : \A t \in todo[p] :
        /\ status[t] # "absent"
        /\ TaskNode[t] = AgentNode[pollBy[p]]
        /\ waitsOn[pollBy[p]] = p => runs[pollBy[p]][t] = 0
        /\ \A u \in Tasks \ todo[p] :
              TaskNode[u] = TaskNode[t] /\ status[u] = "pending" => rowId[t] < rowId[u]

\* A task on its way to a process is no longer pending and new to it.
HandedOut ==
    /\ \A p \in Polls : \A t \in envelopes[p] :
          /\ status[t] \notin {"absent", "pending"}
          /\ TaskNode[t] = AgentNode[pollBy[p]]
          /\ waitsOn[pollBy[p]] = p => runs[pollBy[p]][t] = 0
    /\ \A a \in Agents : \A t \in batch[a] :
          /\ status[t] \notin {"absent", "pending"}
          /\ TaskNode[t] = AgentNode[a]
          /\ runs[a][t] = 0

\* A task that ran did so once, in a process of its node, and reports follow
\* runs.
RunAndReport ==
    \A a \in Agents, t \in Tasks :
        /\ runs[a][t] > 0 => /\ status[t] \notin {"absent", "pending"}
                             /\ TaskNode[t] = AgentNode[a]
                             /\ runs[a][t] = 1
                             /\ result[a][t] # "none"
        /\ doing[a] = t \/ completePc[a][t] # "none" => runs[a][t] > 0
        /\ completePc[a][t] = "stored" => status[t] \in Completed
        /\ completePc[a][t] = "read" =>
              status[t] \in Completed /\ Produced(t, reread[a][t])

\* Rows, channels and answers carry only what was reported, and a report that
\* reached the caller is in the row.
ReportTrue(t) ==
    /\ status[t] \in Completed => Produced(t, status[t])
    /\ channel[t] # "empty" => status[t] \in Completed /\ Produced(t, channel[t])
    /\ answer[t] \in {"ok", "failed"} =>
          status[t] \in Completed /\ Produced(t, Reported(answer[t]))

ReportsAreTrue == \A t \in Tasks : ReportTrue(t)

\* What the properties but the order of the runs rest on.
BaseInv ==
    /\ TypeOK /\ CallAndRow /\ IdsInOrder /\ PollShape /\ SelectedRows
    /\ HandedOut /\ RunAndReport /\ ReportsAreTrue /\ QueueInOrder

\* A process, or a handler on its way to one, has taken the task.
Taken(t) ==
    \/ \E p \in Polls : t \in envelopes[p]
    \/ \E a \in Agents : t \in batch[a] \/ runs[a][t] > 0

\* Whatever was taken is older than what is pending, and whatever a process has
\* run is older than what the handler it waits for has selected.
TakenInOrder ==
    /\ \A t, u \in Tasks :
          Taken(t) /\ TaskNode[t] = TaskNode[u] /\ status[u] = "pending" => rowId[t] < rowId[u]
    /\ \A a \in Agents, t \in Tasks : waitsOn[a] # None /\ runs[a][t] > 0 =>
          \A u \in todo[waitsOn[a]] \cup envelopes[waitsOn[a]] : rowId[t] < rowId[u]

\* The inductive invariant.
IInv == BaseInv /\ TakenInOrder /\ HandsInOrder
=============================================================================
