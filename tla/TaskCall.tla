------------------------------ MODULE TaskCall ------------------------------
(***************************************************************************)
(* What AgentService.Dispatch promises the rest of the center: a remote    *)
(* call that runs at most once in each agent process of the addressed      *)
(* node, and whose answer is "ok" or "failed" only if a process has run    *)
(* the task with that outcome.  A timeout or a lost call promises nothing: *)
(* the task may have run, be running or still run later.                   *)
(* AgentTasks implements this specification.                               *)
(***************************************************************************)
CONSTANTS Tasks, Agents, Nodes, TaskNode, AgentNode

VARIABLES
    call,   \* the state of the call, or what it returned
    ran     \* the outcome of the task in each agent process

callVars == <<call, ran>>

Init ==
    /\ call = [t \in Tasks |-> "idle"]
    /\ ran = [a \in Agents |-> [t \in Tasks |-> "no"]]

Open(t) ==
    /\ call[t] = "idle"
    /\ call' = [call EXCEPT ![t] = "open"]
    /\ UNCHANGED ran

\* The task could not be queued: the call fails and nothing will run.
Refuse(t) ==
    /\ call[t] = "open"
    /\ \A a \in Agents : ran[a][t] = "no"
    /\ call' = [call EXCEPT ![t] = "error"]
    /\ UNCHANGED ran

Run(a, t, r) ==
    /\ AgentNode[a] = TaskNode[t]
    /\ call[t] \notin {"idle", "error"}
    /\ ran[a][t] = "no"
    /\ ran' = [ran EXCEPT ![a][t] = r]
    /\ UNCHANGED call

Answer(t, r) ==
    /\ call[t] = "open"
    /\ \E a \in Agents : ran[a][t] = r
    /\ call' = [call EXCEPT ![t] = r]
    /\ UNCHANGED ran

GiveUp(t) ==
    /\ call[t] = "open"
    /\ call' = [call EXCEPT ![t] = "timeout"]
    /\ UNCHANGED ran

\* A restart of the center takes every open call with it.
Forget ==
    /\ call' = [t \in Tasks |-> IF call[t] = "open" THEN "lost" ELSE call[t]]
    /\ UNCHANGED ran

Next ==
    \/ \E t \in Tasks : Open(t) \/ Refuse(t) \/ GiveUp(t)
    \/ \E t \in Tasks, r \in {"ok", "failed"} :
          Answer(t, r) \/ \E a \in Agents : Run(a, t, r)
    \/ Forget

Spec == Init /\ [][Next]_callVars
=============================================================================
