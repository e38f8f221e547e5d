----------------------------- MODULE TaskQueue -----------------------------
(***************************************************************************)
(* The order in which an agent serves the calls of TaskCall: every call    *)
(* that gets through is queued under a number of its own, larger than all  *)
(* before, and a process runs newer and newer tasks.  A task that is given *)
(* up on keeps its place and may run late, but not after a newer one.      *)
(* AgentTasks implements this specification; RemotePublish and             *)
(* NginxOperations rely on it and keep to it.                              *)
(***************************************************************************)
EXTENDS TaskCall, Naturals

VARIABLE rowId      \* the number of the task, 0 as long as it is not queued

queueVars == <<callVars, rowId>>

QueueInit == Init /\ rowId = [t \in Tasks |-> 0]

\* The row is inserted; ids are never used again, but may leave gaps.
Insert(t) ==
    /\ call[t] = "open" /\ rowId[t] = 0
    /\ rowId' \in [Tasks -> Nat]
    /\ \A u \in Tasks : rowId[u] < rowId'[t]
    /\ \A u \in Tasks \ {t} : rowId'[u] = rowId[u]
    /\ UNCHANGED callVars

\* A call is refused only while it has no place in the queue.
RefuseUnqueued(t) ==
    /\ rowId[t] = 0
    /\ Refuse(t)

\* The task is queued, and newer than all that the process has run.
RunInOrder(a, t, r) ==
    /\ rowId[t] > 0
    /\ \A u \in Tasks : ran[a][u] # "no" => rowId[u] < rowId[t]
    /\ Run(a, t, r)

\* What the calls do; their places stay.
CallNext ==
    /\ \/ \E t \in Tasks : Open(t) \/ RefuseUnqueued(t) \/ GiveUp(t)
       \/ \E t \in Tasks, r \in {"ok", "failed"} :
             Answer(t, r) \/ \E a \in Agents : RunInOrder(a, t, r)
       \/ Forget
    /\ UNCHANGED rowId

QueueNext == CallNext \/ \E t \in Tasks : Insert(t)

QueueSpec == QueueInit /\ [][QueueNext]_queueVars
=============================================================================
