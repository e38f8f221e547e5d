------------------------ MODULE NginxOperationsProofs ------------------------
(* Proofs about NginxOperations, for any requests, nodes, agents, modes and     *)
(* bounds.                                                                      *)
EXTENDS NginxOperations, TLAPS

-----------------------------------------------------------------------------
(* The inductive invariant. *)

Queued == {rows[i] : i \in DOMAIN rows}

\* The machines on which a stage of a request has run or is queued to run.
At(r, s) == {m \in Machines : <<s, m>> \in touched[r] \/ <<r, s, m>> \in Queued}

\* Where the registry has allowed request r to run since it arrived.
Allowed(r) == {m \in Machines : \E g, h \in seen[r] : m \in Resolves(g, h)}

\* What a request is about to do.
Requesting ==
    \A r \in Requests :
        /\ pc[r] # "idle" => CurrentRegistry \in seen[r] /\ action[r] \in Actions
        /\ answer[r] # "none" <=> pc[r] = "done"
        /\ cmd[r] # "none" <=> pc[r] = "record"
        /\ stage[r] = "test" => action[r] \in {"test", "reload"}
        /\ pc[r] # "idle" /\ answer[r] # "refused" => ConfirmOk(action[r], confirmed[r])

\* Only the start of a restart is ever left to do.
Todo ==
    /\ \A w \in Requests \cup Agents : todo[w] \in {<<>>, <<"start">>}
    /\ \A r \in Requests : todo[r] # <<>> =>
          pc[r] = "run" /\ action[r] = "restart" /\ mode[r] = "command"

\* A machine is resolved before anything is sent to it.
Placed(r) ==
    /\ pc[r] = "node" =>
          /\ target[r] \in Nodes
          /\ \E g \in seen[r] : g.instance.state = "enabled" /\ g.instance.node = target[r]
    /\ pc[r] = "run" => target[r] = Center /\ Center \in Allowed(r)
    /\ pc[r] \in {"insert", "wait"} => target[r] \in Nodes /\ target[r] \in Allowed(r)
    /\ \A s \in Stages : At(r, s) \subseteq Allowed(r)
Placing == \A r \in Requests : Placed(r)

\* Each stage has one machine, and none before it is resolved.
HasOnePlace(r) ==
    /\ \A s \in Stages : \A m, n \in At(r, s) : m = n
    /\ pc[r] \in {"instance", "node", "insert"} => At(r, stage[r]) = {}
    /\ pc[r] = "run" => At(r, stage[r]) \subseteq {Center}
    /\ pc[r] = "wait" => At(r, stage[r]) \subseteq {target[r]}
    /\ pc[r] = "idle" \/ answer[r] = "refused" => \A s \in Stages : At(r, s) = {}
    /\ stage[r] = "test" => At(r, "act") = {}
    /\ action[r] \notin {"test", "reload"} => At(r, "test") = {}
OnePlace == \A r \in Requests : HasOnePlace(r)

\* A record or an answer says what has happened.
Truthful(r) ==
    /\ succeeded[r] \subseteq touched[r]
    /\ pc[r] = "run" => <<stage[r], Center>> \notin succeeded[r]
    /\ cmd[r] = "success" /\ action[r] # "refresh"
          => \E m \in Machines : <<stage[r], m>> \in succeeded[r]
    /\ cmd[r] = "failed" => <<stage[r], Center>> \notin succeeded[r]
    /\ action[r] = "reload" /\ stage[r] = "act"
          => \E m \in Machines : <<"test", m>> \in succeeded[r]
    /\ \A s \in Stages :
          /\ record[r][s] = "success" /\ action[r] # "refresh"
                => \E m \in Machines : <<s, m>> \in succeeded[r]
          /\ record[r][s] = "failed" => <<s, Center>> \notin succeeded[r]
          /\ pc[r] = "idle" => record[r][s] = "none"
    /\ pc[r] # "done" => record[r][stage[r]] = "none"
    /\ stage[r] = "test" => record[r]["act"] = "none"
    /\ answer[r] = "success" /\ action[r] # "status" => record[r][stage[r]] = "success"
Truth == \A r \in Requests : Truthful(r)

\* Who decides whether nginx runs.
Decides(r, s) == s = "act" /\ action[r] \in {"start", "stop", "restart"}
Decided ==
    \A m \in Machines :
        /\ ~running[m] => last[m] # None
        /\ last[m] # None =>
              /\ action[last[m]] \in {"start", "stop", "restart"}
              /\ <<"act", m>> \in touched[last[m]]
              /\ ~running[m] => action[last[m]] # "start"
              /\ <<"act", m>> \in succeeded[last[m]] => running[m] = (action[last[m]] # "stop")

\* A task of an agent is run once.
First(a, t) == t \in batch[a] /\ \A u \in batch[a] : ~Before(u, t)
Handed(a) ==
    /\ batch[a] \subseteq Queued \cap over
    /\ \A t \in batch[a] : /\ t[3] = AgentNode[a] /\ ran[a][t] = "no"
                           /\ <<t[2], t[3]>> \notin succeeded[t[1]]
    /\ \A t \in Tasks : ran[a][t] # "no" => t \in Queued \cap over /\ t[3] = AgentNode[a]
    /\ \A t \in good[a] : <<t[2], t[3]>> \in succeeded[t[1]]
    /\ todo[a] # <<>> => batch[a] # {}
    /\ \A t \in batch[a] : First(a, t) /\ todo[a] # <<>> => t[2] = "act" /\ action[t[1]] = "restart"
Handing == \A a \in Agents : Handed(a)
Given(t) == \E a \in Agents : t \in batch[a] \/ ran[a][t] # "no"
Over(t)  == \E a \in Agents : ran[a][t] # "no"
Tracked ==
    \A t \in Queued :
        /\ <<t[2], t[3]>> \in touched[t[1]] => Given(t)
        /\ <<t[2], t[3]>> \in succeeded[t[1]] => Over(t)

\* The tasks of a node are run in the order of the queue.
InOrder(t, u) ==
    /\ Given(u) => t \in over
    /\ Over(u) => \A a \in Agents : t \notin batch[a]
Stands(t, u) ==
    /\ t[1] # u[1] /\ Decides(u[1], u[2]) /\ <<u[2], u[3]>> \in succeeded[u[1]]
    => last[u[3]] # t[1]
Fifo ==
    \A t, u \in Queued : Before(t, u) /\ t[3] = u[3] => InOrder(t, u) /\ Stands(t, u)

IInv ==
    /\ TypeOK /\ Requesting /\ Todo /\ Placing /\ OnePlace /\ Truth /\ Decided
    /\ Handing /\ Tracked /\ Fifo

-----------------------------------------------------------------------------
(* Lemmas about the pieces of a step. *)

\* A task and its three parts.
LEMMA TaskShape ==
    /\ \A t \in Tasks : /\ t[1] \in Requests /\ t[2] \in Stages /\ t[3] \in Nodes
                        /\ t = <<t[1], t[2], t[3]>>
    /\ \A r \in Requests, s \in Stages, n \in Nodes :
          /\ <<r, s, n>> \in Tasks
          /\ <<r, s, n>>[1] = r /\ <<r, s, n>>[2] = s /\ <<r, s, n>>[3] = n
  BY DEF Tasks

\* A worker runs one command; Ran says what the rest of the proof needs of it.
Ran(w, r, s, m, md, ok) ==
    /\ touched' = [touched EXCEPT ![r] = @ \cup {<<s, m>>}]
    /\ \/ /\ succeeded' = [succeeded EXCEPT ![r] = @ \cup {<<s, m>>}]
          /\ ok /\ todo'[w] = <<>>
       \/ /\ succeeded' = succeeded
          /\ ~(ok /\ todo'[w] = <<>>)
    /\ todo' \in [Requests \cup Agents -> {<<>>, <<"start">>}]
    /\ \A x \in Requests \cup Agents : x # w => todo'[x] = todo[x]
    /\ todo'[w] # <<>> => s = "act" /\ action[r] = "restart" /\ md = "command"
    /\ running' \in [Machines -> BOOLEAN] /\ last' \in [Machines -> Requests \cup {None}]
    /\ \A n \in Machines : n # m => running'[n] = running[n] /\ last'[n] = last[n]
    /\ \/ /\ running'[m] = running[m] /\ last'[m] = last[m]
          /\ Decides(r, s) => succeeded' = succeeded
       \/ /\ Decides(r, s) /\ last'[m] = r
          /\ ~running'[m] => action[r] # "start"
          /\ succeeded' # succeeded => running'[m] = (action[r] # "stop")

\* A command of a worker is one that Ran describes.
LEMMA RunNextRan ==
    ASSUME TypeOK, Todo, NEW w \in Requests \cup Agents, NEW r \in Requests,
           NEW s \in Stages, NEW m \in Machines, NEW md, NEW ok \in BOOLEAN,
           action[r] \in Actions, todo[w] # <<>> => s = "act" /\ action[r] = "restart",
           RunNext(w, r, s, m, md, ok)
    PROVE  Ran(w, r, s, m, md, ok)
<1> DEFINE commands == IF todo[w] = <<>> THEN Commands(md, Verb(r, s)) ELSE todo[w]
           verb == Head(commands)
<1>1. PICK e \in [ok : BOOLEAN, up : BOOLEAN] :
        /\ Possible(md, verb, running[m], e)
        /\ e.ok = ok
        /\ running' = [running EXCEPT ![m] = e.up]
        /\ todo' = [todo EXCEPT ![w] = IF ok THEN Tail(commands) ELSE <<>>]
        /\ touched' = [touched EXCEPT ![r] = @ \cup {<<s, m>>}]
        /\ succeeded' = [succeeded EXCEPT ![r] =
                            IF ok /\ Len(commands) = 1 THEN @ \cup {<<s, m>>} ELSE @]
        /\ last' = [last EXCEPT ![m] =
                      IF verb \in {"start", "stop", "restart"} /\ (ok \/ e.up # running[m])
                      THEN r ELSE @]
  BY DEF RunNext
<1>2. /\ Len(commands) = 1 <=> Tail(commands) = <<>>
      /\ Tail(commands) \in {<<>>, <<"start">>}
      /\ \/ Len(commands) = 1 /\ verb = Verb(r, s)
         \/ verb \in {"stop", "start"} /\ s = "act" /\ action[r] = "restart"
      /\ Len(commands) = 1 => verb # "stop" \/ verb = Verb(r, s)
      /\ Tail(commands) # <<>> => s = "act" /\ action[r] = "restart" /\ md = "command"
  <2> USE DEF Stages
  <2>1. CASE todo[w] # <<>>
    <3>1. commands = <<"start">>
      BY <2>1 DEF Todo
    <3>2. /\ Len(<<"start">>) = 1 /\ Tail(<<"start">>) = <<>>
          /\ Head(<<"start">>) = "start"
      OBVIOUS
    <3>3. Len(commands) = 1 /\ Tail(commands) = <<>> /\ verb = "start"
      BY <3>1, <3>2
    <3> HIDE DEF commands, verb
    <3> QED BY <2>1, <3>3
  <2>2. CASE todo[w] = <<>> /\ Verb(r, s) = "restart" /\ md = "command"
    <3>1. PICK c : c = <<"stop", "start">>
      OBVIOUS
    <3>2. Len(c) # 1 /\ Tail(c) = <<"start">> /\ Head(c) = "stop"
      BY <3>1
    <3>3. Tail(c) # <<>>
      BY <3>1
    <3>5. commands = c
      BY <2>2, <3>1 DEF Commands
    <3>4. s = "act" /\ action[r] = "restart" /\ md = "command"
      BY <2>2 DEF Verb
    <3>6. Len(commands) # 1 /\ Tail(commands) = <<"start">> /\ Tail(commands) # <<>>
          /\ verb = "stop"
      BY <3>2, <3>3, <3>5
    <3> HIDE DEF commands, verb
    <3> QED BY <3>4, <3>6
  <2>3. CASE todo[w] = <<>> /\ ~(Verb(r, s) = "restart" /\ md = "command")
    <3>1. commands = <<Verb(r, s)>>
      BY <2>3 DEF Commands
    <3>2. PICK v : v = Verb(r, s)
      OBVIOUS
    <3>3. Len(<<v>>) = 1 /\ Tail(<<v>>) = <<>> /\ Head(<<v>>) = v
      OBVIOUS
    <3>4. Len(commands) = 1 /\ Tail(commands) = <<>> /\ verb = Verb(r, s)
      BY <3>1, <3>2, <3>3
    <3> HIDE DEF commands, verb
    <3> QED BY <3>4
  <2> QED BY <2>1, <2>2, <2>3
<1> HIDE DEF commands, verb
<1>3. Verb(r, s) \in {"start", "stop", "restart"} => s = "act" /\ Verb(r, s) = action[r]
  BY DEF Verb, Stages
<1>4. Decides(r, s) => Verb(r, s) = action[r]
  BY DEF Decides, Verb
<1>5. /\ e.ok \in BOOLEAN /\ e.up \in BOOLEAN /\ running[m] \in BOOLEAN
      /\ running'[m] = e.up
      /\ last'[m] = IF verb \in {"start", "stop", "restart"} /\ (ok \/ e.up # running[m])
                    THEN r ELSE last[m]
      /\ \A n \in Machines : n # m => running'[n] = running[n] /\ last'[n] = last[n]
  BY <1>1 DEF TypeOK
<1>6. /\ todo'[w] = IF ok THEN Tail(commands) ELSE <<>>
      /\ todo' \in [Requests \cup Agents -> {<<>>, <<"start">>}]
      /\ \A x \in Requests \cup Agents : x # w => todo'[x] = todo[x]
  BY <1>1, <1>2 DEF TypeOK, Todo
<1>7. ok /\ Len(commands) = 1 <=> ok /\ todo'[w] = <<>>
  <2>1. Len(commands) = 1 <=> Tail(commands) = <<>>
    BY <1>2
  <2>2. CASE ok
    BY <1>6, <2>1, <2>2
  <2>3. CASE ~ok
    BY <2>3
  <2> QED BY <2>2, <2>3
<1>8. \/ /\ succeeded' = [succeeded EXCEPT ![r] = @ \cup {<<s, m>>}]
         /\ ok /\ todo'[w] = <<>>
      \/ /\ succeeded' = succeeded
         /\ ~(ok /\ todo'[w] = <<>>)
  BY <1>1, <1>7 DEF TypeOK
<1>9. running' \in [Machines -> BOOLEAN] /\ last' \in [Machines -> Requests \cup {None}]
  BY <1>1 DEF TypeOK
<1>10. verb \in {"start", "stop", "restart"} <=> Decides(r, s)
  BY <1>2, <1>3, <1>4 DEF Decides
<1>11. \/ /\ running'[m] = running[m] /\ last'[m] = last[m]
          /\ Decides(r, s) => succeeded' = succeeded
       \/ /\ Decides(r, s) /\ last'[m] = r
          /\ ~running'[m] => action[r] # "start"
          /\ succeeded' # succeeded => running'[m] = (action[r] # "stop")
  <2>1. CASE ~Decides(r, s)
    <3>1. verb \in {"status", "test", "reload"} \/ e.up = running[m]
      BY <1>1, <1>10, <2>1 DEF Possible
    <3>2. e.up = running[m]
      BY <1>1, <3>1 DEF Possible
    <3> QED BY <1>5, <1>10, <2>1, <3>2
  <2>2. CASE Decides(r, s) /\ (ok \/ e.up # running[m])
    <3>1. last'[m] = r
      BY <1>5, <1>10, <2>2
    <3>2. ~e.up => verb # "start"
      BY <1>1, <1>5, <2>2 DEF Possible
    <3>3. verb = "start" <=> action[r] = "start" \/ (verb = "start" /\ action[r] = "restart")
      BY <1>2, <1>4, <2>2 DEF Decides
    <3>4. ~running'[m] => action[r] # "start"
      BY <1>5, <3>2, <3>3
    <3>5. succeeded' # succeeded => Len(commands) = 1 /\ ok
      BY <1>7, <1>8
    <3>6. succeeded' # succeeded => running'[m] = (action[r] # "stop")
      BY <1>1, <1>2, <1>4, <1>5, <2>2, <3>5 DEF Possible, Decides
    <3> QED BY <2>2, <3>1, <3>4, <3>6
  <2>3. CASE Decides(r, s) /\ ~ok /\ e.up = running[m]
    BY <1>5, <1>8, <2>3
  <2> QED BY <2>1, <2>2, <2>3
<1>12. todo'[w] # <<>> => s = "act" /\ action[r] = "restart" /\ md = "command"
  BY <1>2, <1>6
<1> QED BY <1>1, <1>5, <1>6, <1>8, <1>9, <1>11, <1>12 DEF Ran

\* A step of the registry replaces its rows.
LEMMA EditStep ==
    ASSUME TypeOK, RegistryStep
    PROVE  \E row \in InstanceRows, ns \in [Nodes -> NodeStates] : Edit(row, ns)
<1>1. ASSUME NEW n \in Nodes, NEW x \in NodeStates, SetNode(n, x)
      PROVE  \E row \in InstanceRows, ns \in [Nodes -> NodeStates] : Edit(row, ns)
  BY <1>1 DEF SetNode, TypeOK, CurrentRegistry, Registry
<1>2. ASSUME InstanceDelete
      PROVE  \E row \in InstanceRows, ns \in [Nodes -> NodeStates] : Edit(row, ns)
  BY <1>2 DEF InstanceDelete, TypeOK, CurrentRegistry, Registry, InstanceRows
<1>3. ASSUME InstanceSave
      PROVE  \E row \in InstanceRows, ns \in [Nodes -> NodeStates] : Edit(row, ns)
  BY <1>3 DEF InstanceSave, TypeOK, CurrentRegistry, Registry
<1> QED BY <1>1, <1>2, <1>3 DEF RegistryStep, NodeSave, NodeDelete, NodeStates

\* The center runs a command of request r.
LEMMA LocalStep ==
    ASSUME TypeOK, Requesting, Todo, NEW r \in Requests, RunLocal(r)
    PROVE  \E ok \in BOOLEAN :
              /\ Ran(r, r, stage[r], Center, mode[r], ok)
              /\ \/ todo'[r] # <<>> /\ UNCHANGED <<pc, cmd, answer>>
                 \/ todo'[r] = <<>> /\ Settle(r, Outcome(ok))
<1>1. PICK ok \in BOOLEAN :
        /\ RunNext(r, r, stage[r], Center, mode[r], ok)
        /\ \/ todo'[r] # <<>> /\ UNCHANGED <<pc, cmd, answer>>
           \/ todo'[r] = <<>> /\ Settle(r, Outcome(ok))
  BY DEF RunLocal
<1>2. pc[r] = "run" /\ action[r] \in Actions /\ stage[r] \in Stages
  BY DEF RunLocal, Requesting, TypeOK
<1>3. todo[r] # <<>> => stage[r] = "act" /\ action[r] = "restart"
  BY <1>2 DEF Todo, Requesting, Stages
<1>4. Ran(r, r, stage[r], Center, mode[r], ok)
  BY <1>1, <1>2, <1>3, RunNextRan DEF Machines
<1> QED BY <1>1, <1>4

\* A task that has been queued, and its request.
LEMMA QueuedTask ==
    ASSUME TypeOK, OnePlace, NEW t \in Queued
    PROVE  /\ t \in Tasks /\ t[1] \in Requests /\ t[2] \in Stages /\ t[3] \in Nodes
           /\ t[3] \in At(t[1], t[2]) /\ t[3] \in Machines /\ t[3] # Center
           /\ pc[t[1]] # "idle" /\ answer[t[1]] # "refused"
<1>1. t \in Tasks
  BY DEF Queued, TypeOK
<1>2. t = <<t[1], t[2], t[3]>> /\ t[1] \in Requests /\ t[2] \in Stages /\ t[3] \in Nodes
  BY <1>1, TaskShape
<1>3. t[3] \in At(t[1], t[2])
  BY <1>2 DEF At, Machines
<1> QED BY <1>1, <1>2, <1>3, NamesAssumption DEF OnePlace, HasOnePlace, Machines

\* The agent runs a command of the oldest task t it has.
RanTask(a, t, ok) ==
    /\ Ran(a, t[1], t[2], t[3], AgentMode(mode[t[1]]), ok)
    /\ \/ todo'[a] # <<>> /\ UNCHANGED <<call, ran, batch, good>>
       \/ /\ todo'[a] = <<>>
          /\ ran' = [ran EXCEPT ![a][t] = "ok"] /\ UNCHANGED call
          /\ batch' = [batch EXCEPT ![a] = @ \ {t}]
          /\ good' = [good EXCEPT ![a] = IF ok THEN @ \cup {t} ELSE @]
    /\ UNCHANGED <<registryVars, requestVars, record, rows, over, seen, faults>>

\* An agent runs the oldest task it has been given.
LEMMA RemoteStep ==
    ASSUME TypeOK, Requesting, Todo, OnePlace, Handing, NEW a \in Agents, RunRemote(a)
    PROVE  \E t \in Tasks, ok \in BOOLEAN :
              /\ t \in Queued /\ t \in batch[a] /\ First(a, t) /\ RanTask(a, t, ok)
<1>1. PICK t \in batch[a], ok \in BOOLEAN :
        /\ \A u \in batch[a] : ~Before(u, t)
        /\ RunNext(a, t[1], t[2], t[3], AgentMode(mode[t[1]]), ok)
        /\ \/ todo'[a] # <<>> /\ UNCHANGED <<call, ran, batch, good>>
           \/ /\ todo'[a] = <<>>
              /\ Channel!Run(a, t, "ok")
              /\ batch' = [batch EXCEPT ![a] = @ \ {t}]
              /\ good' = [good EXCEPT ![a] = IF ok THEN @ \cup {t} ELSE @]
        /\ UNCHANGED <<registryVars, requestVars, record, rows, over, seen, faults>>
  BY DEF RunRemote
<1>2. t \in Queued /\ First(a, t)
  BY <1>1 DEF Handing, Handed, First
<1>3. /\ t \in Tasks /\ t[1] \in Requests /\ t[2] \in Stages /\ t[3] \in Machines
      /\ action[t[1]] \in Actions
  BY <1>2, QueuedTask DEF Requesting
<1>4. todo[a] # <<>> => t[2] = "act" /\ action[t[1]] = "restart"
  BY <1>1, <1>2 DEF Handing, Handed
<1>5. Ran(a, t[1], t[2], t[3], AgentMode(mode[t[1]]), ok)
  BY <1>1, <1>3, <1>4, RunNextRan
<1>6. RanTask(a, t, ok)
  BY <1>1, <1>5 DEF RanTask, Channel!Run
<1> QED BY <1>1, <1>2, <1>3, <1>6

\* A command leaves at most one to do.
LEMMA ShortTodo ==
    ASSUME NEW w, NEW r, NEW s, NEW m, NEW md, NEW ok, Ran(w, r, s, m, md, ok)
    PROVE  /\ todo' \in [Requests \cup Agents -> Seq(Verbs)]
           /\ \A x \in Requests \cup Agents : Len(todo'[x]) <= 1
<1>1. todo' \in [Requests \cup Agents -> {<<>>, <<"start">>}]
  BY DEF Ran
<1>2. /\ <<>> \in Seq(Verbs) /\ <<"start">> \in Seq(Verbs)
      /\ Len(<<>>) = 0 /\ Len(<<"start">>) = 1
  BY DEF Verbs
<1>3. ASSUME NEW q \in {<<>>, <<"start">>}
      PROVE  q \in Seq(Verbs) /\ Len(q) <= 1
  <2>1. CASE q = <<>>
    BY <1>2, <2>1
  <2>2. CASE q = <<"start">>
    BY <1>2, <2>2
  <2> QED BY <2>1, <2>2
<1> QED BY <1>1, <1>3

\* The outcome of a stage keeps the types.
LEMMA SettleTypes ==
    ASSUME TypeOK, NEW r \in Requests, NEW b,
           Settle(r, Outcome(b)) \/ Settle(r, "failed")
    PROVE  /\ pc' \in [Requests -> {"idle", "instance", "node", "run", "insert", "wait", "record", "done"}]
           /\ cmd' \in [Requests -> Outcomes]
           /\ answer' \in [Requests -> Outcomes \cup {"refused", "error"}]
<1>1. PICK o \in {"success", "failed"} : Settle(r, o)
  BY DEF Outcome
<1>2. CASE Return(r, o) /\ UNCHANGED cmd
  BY <1>2 DEF TypeOK, Return, Goto, Outcomes
<1>3. CASE Goto(r, "record") /\ cmd' = [cmd EXCEPT ![r] = o] /\ UNCHANGED answer
  BY <1>3 DEF TypeOK, Goto, Outcomes
<1> QED BY <1>1, <1>2, <1>3 DEF Settle

\* So does a command.
LEMMA RanTypes ==
    ASSUME TypeOK, NEW w, NEW r \in Requests, NEW s \in Stages, NEW m \in Machines,
           NEW md, NEW ok, Ran(w, r, s, m, md, ok)
    PROVE  /\ touched' \in [Requests -> SUBSET (Stages \X Machines)]
           /\ succeeded' \in [Requests -> SUBSET (Stages \X Machines)]
           /\ running' \in [Machines -> BOOLEAN] /\ last' \in [Machines -> Requests \cup {None}]
<1>1. PICK P, x : P = Stages \X Machines /\ x = <<s, m>>
  OBVIOUS
<1>2. x \in P
  BY <1>1
<1>3. touched \in [Requests -> SUBSET P] /\ succeeded \in [Requests -> SUBSET P]
  BY <1>1 DEF TypeOK
<1>4. touched' = [touched EXCEPT ![r] = @ \cup {x}]
  BY <1>1 DEF Ran
<1>5. succeeded' = succeeded \/ succeeded' = [succeeded EXCEPT ![r] = @ \cup {x}]
  BY <1>1 DEF Ran
<1>6. touched' \in [Requests -> SUBSET P]
  BY <1>2, <1>3, <1>4
<1>7. succeeded' \in [Requests -> SUBSET P]
  BY <1>2, <1>3, <1>5
<1> QED BY <1>1, <1>6, <1>7 DEF Ran

\* A task that is about to be queued is not in the queue.
LEMMA NotQueuedYet ==
    ASSUME TypeOK, OnePlace, Placing, NEW r \in Requests, pc[r] = "insert"
    PROVE  /\ Task(r) \in Tasks /\ Task(r) = <<r, stage[r], target[r]>>
           /\ target[r] \in Nodes /\ stage[r] \in Stages
           /\ Task(r) \notin Queued
<1>1. stage[r] \in Stages /\ target[r] \in Nodes
  BY DEF TypeOK, Placing, Placed
<1>2. Task(r) = <<r, stage[r], target[r]>>
  BY DEF Task
<1>3. target[r] \notin At(r, stage[r])
  BY DEF OnePlace, HasOnePlace
<1> QED BY <1>1, <1>2, <1>3, TaskShape DEF At, Machines

\* A new task in the queue keeps its rows distinct.
LEMMA InjectiveAppend ==
    ASSUME TypeOK, NEW t \in Tasks, t \notin Queued
    PROVE  Append(rows, t) \in Seq(Tasks) /\ IsInjective(Append(rows, t))
<1>1. rows \in Seq(Tasks) /\ IsInjective(rows)
  BY DEF TypeOK
<1>2. /\ Append(rows, t) \in Seq(Tasks) /\ Len(rows) \in Nat
      /\ DOMAIN rows = 1..Len(rows) /\ DOMAIN Append(rows, t) = 1..(Len(rows) + 1)
      /\ \A i \in 1..Len(rows) : Append(rows, t)[i] = rows[i] /\ rows[i] # t
      /\ Append(rows, t)[Len(rows) + 1] = t
  BY <1>1 DEF Queued
<1> DEFINE q == Append(rows, t)
           n == Len(rows)
<1> HIDE DEF q, n
<1>3. ASSUME NEW i \in 1..(n + 1), NEW j \in 1..(n + 1), q[i] = q[j]
      PROVE  i = j
  <2>1. \A k \in 1..(n + 1) : k \in 1..n \/ k = n + 1
    BY <1>2 DEF n
  <2>2. CASE i \in 1..n /\ j \in 1..n
    BY <1>1, <1>2, <1>3, <2>2 DEF q, n, IsInjective
  <2>3. CASE i = n + 1 \/ j = n + 1
    BY <1>2, <1>3, <2>1, <2>3 DEF q, n
  <2> QED BY <2>1, <2>2, <2>3
<1> QED BY <1>2, <1>3 DEF q, n, IsInjective

\* Types are kept, and no task is queued twice.
LEMMA TypeNext ==
    ASSUME TypeOK, Requesting, Todo, Placing, OnePlace, Handing, [Next]_vars
    PROVE  TypeOK'
<1> USE DEF TypeOK, CurrentRegistry, Outcomes, registryVars, requestVars, agentVars, effectVars, Goto
<1>1. ASSUME NEW r \in Requests, NEW act \in Actions, NEW c \in BOOLEAN, Arrive(r, act, c)
      PROVE  TypeOK'
  <2>1. [instance |-> instance, nodes |-> nodes] \in Registry
    BY DEF Registry
  <2> QED BY <1>1, <2>1 DEF Arrive, Return, Stages
<1>2. ASSUME NEW r \in Requests, ReadInstance(r)
      PROVE  TypeOK'
  <2>1. instance.mode \in Modes /\ instance.node \in Machines
    BY DEF Registry, InstanceRows
  <2> QED BY <1>2, <2>1 DEF ReadInstance, Return, Machines
<1>3. ASSUME NEW r \in Requests, ReadNode(r)
      PROVE  TypeOK'
  <2>1. Center \in Machines
    BY DEF Machines
  <2>2. target' = target \/ target' = [target EXCEPT ![r] = Center]
    BY <1>3 DEF ReadNode
  <2>3. \E x \in {"done", "run", "insert"} : pc' = [pc EXCEPT ![r] = x]
    BY <1>3 DEF ReadNode, Return
  <2>4. answer' = answer \/ answer' = [answer EXCEPT ![r] = "error"]
    BY <1>3 DEF ReadNode, Return
  <2>5. /\ ran' = ran
        /\ call' = call \/ call' = [call EXCEPT ![<<r, stage[r], target[r]>>] = "open"]
    BY <1>3 DEF ReadNode, Channel!Open
  <2>6. target' \in [Requests -> Machines]
    BY <2>1, <2>2
  <2>7. pc' \in [Requests -> {"idle", "instance", "node", "run", "insert", "wait", "record", "done"}]
    BY <2>3
  <2>8. answer' \in [Requests -> Outcomes \cup {"refused", "error"}]
    BY <2>4
  <2>9. call' \in [Tasks -> {"idle", "open", "ok", "failed", "timeout", "error", "lost"}]
    BY <2>5
  <2> QED BY <1>3, <2>5, <2>6, <2>7, <2>8, <2>9 DEF ReadNode
<1>4. ASSUME NEW r \in Requests, RunLocal(r)
      PROVE  TypeOK'
  <2>1. PICK ok \in BOOLEAN :
          /\ Ran(r, r, stage[r], Center, mode[r], ok)
          /\ \/ todo'[r] # <<>> /\ UNCHANGED <<pc, cmd, answer>>
             \/ todo'[r] = <<>> /\ Settle(r, Outcome(ok))
    BY <1>4, LocalStep
  <2>2. stage[r] \in Stages /\ Center \in Machines
    BY DEF Machines
  <2>3. /\ todo' \in [Requests \cup Agents -> Seq(Verbs)]
        /\ \A w \in Requests \cup Agents : Len(todo'[w]) <= 1
    BY <2>1, ShortTodo
  <2>4. /\ touched' \in [Requests -> SUBSET (Stages \X Machines)]
        /\ succeeded' \in [Requests -> SUBSET (Stages \X Machines)]
        /\ running' \in [Machines -> BOOLEAN] /\ last' \in [Machines -> Requests \cup {None}]
    BY <2>1, <2>2, RanTypes
  <2>5. /\ pc' \in [Requests -> {"idle", "instance", "node", "run", "insert", "wait", "record", "done"}]
        /\ cmd' \in [Requests -> Outcomes]
        /\ answer' \in [Requests -> Outcomes \cup {"refused", "error"}]
    BY <2>1 DEF Settle, Return, Outcome
  <2> QED BY <1>4, <2>3, <2>4, <2>5 DEF RunLocal
<1>5. ASSUME NEW r \in Requests, Refuse(r)
      PROVE  TypeOK'
  BY <1>5 DEF Refuse, Return
<1>6. ASSUME NEW r \in Requests, Insert(r)
      PROVE  TypeOK'
  <2>1. Task(r) \in Tasks /\ Task(r) \notin Queued
    BY <1>6, NotQueuedYet DEF Insert
  <2>2. rows' \in Seq(Tasks) /\ IsInjective(rows')
    BY <1>6, <2>1, InjectiveAppend DEF Insert
  <2> QED BY <1>6, <2>2 DEF Insert
<1>7. ASSUME NEW r \in Requests, InsertFails(r)
      PROVE  TypeOK'
  <2>1. /\ pc' \in [Requests -> {"idle", "instance", "node", "run", "insert", "wait", "record", "done"}]
        /\ cmd' \in [Requests -> Outcomes]
        /\ answer' \in [Requests -> Outcomes \cup {"refused", "error"}]
    BY <1>7, SettleTypes DEF InsertFails
  <2>2. call' \in [Tasks -> {"idle", "open", "ok", "failed", "timeout", "error", "lost"}] /\ ran' = ran
    BY <1>7 DEF InsertFails, Channel!Refuse
  <2> QED BY <1>7, <2>1, <2>2, BoundsAssumption DEF InsertFails, Fault
<1>8. ASSUME NEW r \in Requests, Reply(r)
      PROVE  TypeOK'
  BY <1>8 DEF Reply, Channel!Answer, Settle, Return, Outcome
<1>9. ASSUME NEW r \in Requests, Expire(r)
      PROVE  TypeOK'
  <2>1. /\ pc' \in [Requests -> {"idle", "instance", "node", "run", "insert", "wait", "record", "done"}]
        /\ cmd' \in [Requests -> Outcomes]
        /\ answer' \in [Requests -> Outcomes \cup {"refused", "error"}]
    BY <1>9, SettleTypes DEF Expire
  <2>2. call' \in [Tasks -> {"idle", "open", "ok", "failed", "timeout", "error", "lost"}] /\ ran' = ran
    BY <1>9 DEF Expire, Channel!GiveUp
  <2>3. Task(r) \in Tasks
    BY <1>9, TaskShape DEF Expire, Placing, Placed, Task
  <2>4. over' \in SUBSET Tasks /\ faults' \in 0..MaxFaults
    BY <1>9, <2>3, BoundsAssumption DEF Expire, Fault
  <2> QED BY <1>9, <2>1, <2>2, <2>4 DEF Expire
<1>10. ASSUME NEW r \in Requests, Record(r)
      PROVE  TypeOK'
  <2>1. cmd[r] \in Outcomes /\ stage[r] \in Stages
    OBVIOUS
  <2>2. [record[r] EXCEPT ![stage[r]] = cmd[r]] \in [Stages -> Outcomes]
    BY <2>1
  <2>3. record' \in [Requests -> [Stages -> Outcomes]]
    BY <1>10, <2>2 DEF Record
  <2>4. answer' \in [Requests -> Outcomes \cup {"refused", "error"}]
    BY <1>10, <2>1 DEF Record, Return
  <2> QED BY <1>10, <2>3, <2>4 DEF Record, Return, Stages
<1>11. ASSUME NEW r \in Requests, RecordFails(r)
      PROVE  TypeOK'
  BY <1>11, BoundsAssumption DEF RecordFails, Fault, Return
<1>12. ASSUME NEW a \in Agents, Poll(a)
      PROVE  TypeOK'
  <2>1. \A p \in DOMAIN rows : PendingUpTo(AgentNode[a], p) \subseteq Tasks
    BY DEF PendingUpTo
  <2> QED BY <1>12, <2>1 DEF Poll
<1>13. ASSUME NEW a \in Agents, RunRemote(a)
      PROVE  TypeOK'
  <2>1. PICK t \in Tasks, ok \in BOOLEAN : t \in Queued /\ RanTask(a, t, ok)
    BY <1>13, RemoteStep
  <2>2. t[1] \in Requests /\ t[2] \in Stages /\ t[3] \in Machines
    BY TaskShape DEF Machines
  <2>3. /\ todo' \in [Requests \cup Agents -> Seq(Verbs)]
        /\ \A w \in Requests \cup Agents : Len(todo'[w]) <= 1
    BY <2>1, ShortTodo DEF RanTask
  <2>4. /\ touched' \in [Requests -> SUBSET (Stages \X Machines)]
        /\ succeeded' \in [Requests -> SUBSET (Stages \X Machines)]
        /\ running' \in [Machines -> BOOLEAN] /\ last' \in [Machines -> Requests \cup {None}]
    BY <2>1, <2>2, RanTypes DEF RanTask
  <2>5. ran' \in [Agents -> [Tasks -> {"no", "ok", "failed"}]]
    <3>1. CASE ran' = [ran EXCEPT ![a][t] = "ok"]
      <4>1. ran' = [ran EXCEPT ![a] = [ran[a] EXCEPT ![t] = "ok"]]
        BY <3>1
      <4>2. [ran[a] EXCEPT ![t] = "ok"] \in [Tasks -> {"no", "ok", "failed"}]
        OBVIOUS
      <4> QED BY <4>1, <4>2
    <3> QED BY <2>1, <3>1 DEF RanTask
  <2>6. batch' \in [Agents -> SUBSET Tasks] /\ good' \in [Agents -> SUBSET Tasks]
    <3>1. CASE UNCHANGED <<batch, good>>
      BY <3>1
    <3>2. CASE /\ batch' = [batch EXCEPT ![a] = @ \ {t}]
               /\ good' = [good EXCEPT ![a] = IF ok THEN @ \cup {t} ELSE @]
      BY <3>2
    <3> QED BY <2>1, <3>1, <3>2 DEF RanTask
  <2> QED BY <2>1, <2>3, <2>4, <2>5, <2>6 DEF RanTask
<1>14. ASSUME NEW row \in InstanceRows, NEW ns \in [Nodes -> NodeStates], Edit(row, ns)
      PROVE  TypeOK'
  <2>1. [instance |-> row, nodes |-> ns] \in Registry
    BY DEF Registry
  <2> QED BY <1>14, <2>1, BoundsAssumption DEF Edit
<1>15. ASSUME UNCHANGED vars
      PROVE  TypeOK'
  BY <1>15 DEF vars
<1> HIDE DEF TypeOK, CurrentRegistry, Outcomes, registryVars, requestVars, agentVars, effectVars, Goto
<1> QED BY <1>1, <1>2, <1>3, <1>4, <1>5, <1>6, <1>7, <1>8, <1>9, <1>10, <1>11, <1>12, <1>13, <1>14, <1>15, EditStep
        DEF Next, RequestStep

\* What Settle does to the request.
LEMMA Settled ==
    ASSUME TypeOK, NEW r \in Requests, NEW o \in {"success", "failed"}, Settle(r, o)
    PROVE  /\ \A q \in Requests : q # r => /\ pc'[q] = pc[q] /\ cmd'[q] = cmd[q]
                                         /\ answer'[q] = answer[q]
           /\ \/ /\ action[r] = "status" /\ pc'[r] = "done"
                 /\ cmd'[r] = cmd[r] /\ answer'[r] = o
              \/ /\ action[r] # "status" /\ pc'[r] = "record"
                 /\ cmd'[r] = o /\ answer'[r] = answer[r]
  BY DEF Settle, Return, Goto, TypeOK

\* A request that settles goes on in order.
LEMMA SettledInOrder ==
    ASSUME TypeOK, Requesting, NEW r \in Requests, NEW o \in {"success", "failed"},
           Settle(r, o), pc[r] \notin {"idle", "record", "done"},
           UNCHANGED <<instance, nodes, seen, action, confirmed, stage>>
    PROVE  Requesting'
<1>1. /\ \A q \in Requests : q # r => /\ pc'[q] = pc[q] /\ cmd'[q] = cmd[q]
                                     /\ answer'[q] = answer[q]
      /\ \/ pc'[r] = "done" /\ cmd'[r] = cmd[r] /\ answer'[r] = o
         \/ pc'[r] = "record" /\ cmd'[r] = o /\ answer'[r] = answer[r]
  BY Settled
<1>2. CurrentRegistry' = CurrentRegistry
  BY DEF CurrentRegistry
<1> SUFFICES ASSUME NEW q \in Requests
             PROVE  /\ pc'[q] # "idle" => CurrentRegistry' \in seen'[q] /\ action'[q] \in Actions
                    /\ answer'[q] # "none" <=> pc'[q] = "done"
                    /\ cmd'[q] # "none" <=> pc'[q] = "record"
                    /\ stage'[q] = "test" => action'[q] \in {"test", "reload"}
                    /\ pc'[q] # "idle" /\ answer'[q] # "refused"
                       => ConfirmOk(action'[q], confirmed'[q])
  BY DEF Requesting
<1>3. /\ pc[q] # "idle" => CurrentRegistry \in seen[q] /\ action[q] \in Actions
      /\ answer[q] # "none" <=> pc[q] = "done"
      /\ cmd[q] # "none" <=> pc[q] = "record"
      /\ stage[q] = "test" => action[q] \in {"test", "reload"}
      /\ pc[q] # "idle" /\ answer[q] # "refused" => ConfirmOk(action[q], confirmed[q])
  BY DEF Requesting
<1>4. CASE q # r
  BY <1>1, <1>2, <1>3, <1>4
<1>5. CASE q = r
  BY <1>1, <1>2, <1>3, <1>5
<1> QED BY <1>4, <1>5

\* Requests go through their steps in order.
LEMMA RequestingNext ==
    ASSUME TypeOK, Requesting, Todo, OnePlace, Handing, [Next]_vars
    PROVE  Requesting'
<1> USE DEF Requesting, TypeOK, CurrentRegistry, Stages, Outcomes, registryVars, requestVars, agentVars, effectVars, Goto
<1>1. ASSUME NEW r \in Requests, NEW act \in Actions, NEW c \in BOOLEAN, Arrive(r, act, c)
      PROVE  Requesting'
  <2>1. /\ action' = [action EXCEPT ![r] = act] /\ confirmed' = [confirmed EXCEPT ![r] = c]
        /\ seen' = [seen EXCEPT ![r] = {CurrentRegistry}] /\ UNCHANGED <<instance, nodes>>
        /\ stage' = [stage EXCEPT ![r] = IF act \in {"test", "reload"} THEN "test" ELSE "act"]
        /\ pc[r] = "idle"
    BY <1>1 DEF Arrive
  <2>2. CASE ~ConfirmOk(act, c) /\ Return(r, "refused") /\ UNCHANGED cmd
    BY <2>1, <2>2 DEF Return
  <2>3. CASE act = "refresh" /\ Goto(r, "record") /\ cmd' = [cmd EXCEPT ![r] = "success"] /\ UNCHANGED answer
    BY <2>1, <2>3 DEF ConfirmOk
  <2>4. CASE ConfirmOk(act, c) /\ Goto(r, "instance") /\ UNCHANGED <<cmd, answer>>
    BY <2>1, <2>4
  <2> QED BY <1>1, <2>2, <2>3, <2>4 DEF Arrive
<1>2. ASSUME NEW r \in Requests, ReadInstance(r)
      PROVE  Requesting'
  BY <1>2 DEF ReadInstance, Return
<1>3. ASSUME NEW r \in Requests, ReadNode(r)
      PROVE  Requesting'
  BY <1>3 DEF ReadNode, Return, Channel!Open
<1>4. ASSUME NEW r \in Requests, RunLocal(r)
      PROVE  Requesting'
  <2>1. PICK ok \in BOOLEAN :
          /\ Ran(r, r, stage[r], Center, mode[r], ok)
          /\ \/ todo'[r] # <<>> /\ UNCHANGED <<pc, cmd, answer>>
             \/ todo'[r] = <<>> /\ Settle(r, Outcome(ok))
    BY <1>4, LocalStep
  <2>2. CASE UNCHANGED <<pc, cmd, answer>>
    BY <1>4, <2>2 DEF RunLocal
  <2>3. CASE todo'[r] = <<>> /\ Settle(r, Outcome(ok))
    <3>1. PICK o \in {"success", "failed"} : Settle(r, o)
      BY <2>3 DEF Outcome
    <3>2. pc[r] = "run" /\ UNCHANGED <<instance, nodes, seen, action, confirmed, stage>>
      BY <1>4 DEF RunLocal
    <3>3. pc[r] \notin {"idle", "record", "done"}
      BY <3>2
    <3> HIDE DEF TypeOK, Requesting
    <3> QED BY <3>1, <3>2, <3>3, SettledInOrder
  <2> QED BY <2>1, <2>2, <2>3
<1>5. ASSUME NEW r \in Requests, Refuse(r)
      PROVE  Requesting'
  BY <1>5 DEF Refuse, Return
<1>6. ASSUME NEW r \in Requests, Insert(r)
      PROVE  Requesting'
  BY <1>6 DEF Insert
<1>7. ASSUME NEW r \in Requests, InsertFails(r)
      PROVE  Requesting'
  <2>1. PICK o \in {"success", "failed"} : Settle(r, o)
    BY <1>7 DEF InsertFails, Outcome
  <2>2. pc[r] = "insert" /\ UNCHANGED <<instance, nodes, seen, action, confirmed, stage>>
    BY <1>7 DEF InsertFails
  <2>3. pc[r] \notin {"idle", "record", "done"}
    BY <2>2
  <2> HIDE DEF TypeOK, Requesting
  <2> QED BY <2>1, <2>2, <2>3, SettledInOrder
<1>8. ASSUME NEW r \in Requests, Reply(r)
      PROVE  Requesting'
  <2>1. PICK o \in {"success", "failed"} : Settle(r, o)
    BY <1>8 DEF Reply, Outcome
  <2>2. pc[r] = "wait" /\ UNCHANGED <<instance, nodes, seen, action, confirmed, stage>>
    BY <1>8 DEF Reply
  <2>3. pc[r] \notin {"idle", "record", "done"}
    BY <2>2
  <2> HIDE DEF TypeOK, Requesting
  <2> QED BY <2>1, <2>2, <2>3, SettledInOrder
<1>9. ASSUME NEW r \in Requests, Expire(r)
      PROVE  Requesting'
  <2>1. PICK o \in {"success", "failed"} : Settle(r, o)
    BY <1>9 DEF Expire, Outcome
  <2>2. pc[r] = "wait" /\ UNCHANGED <<instance, nodes, seen, action, confirmed, stage>>
    BY <1>9 DEF Expire
  <2>3. pc[r] \notin {"idle", "record", "done"}
    BY <2>2
  <2> HIDE DEF TypeOK, Requesting
  <2> QED BY <2>1, <2>2, <2>3, SettledInOrder
<1>10. ASSUME NEW r \in Requests, Record(r)
      PROVE  Requesting'
  BY <1>10 DEF Record, Return
<1>11. ASSUME NEW r \in Requests, RecordFails(r)
      PROVE  Requesting'
  BY <1>11 DEF RecordFails, Fault, Return
<1>12. ASSUME NEW a \in Agents, Poll(a)
      PROVE  Requesting'
  BY <1>12 DEF Poll
<1>13. ASSUME NEW a \in Agents, RunRemote(a)
      PROVE  Requesting'
  <2>1. PICK t \in Tasks, ok \in BOOLEAN :
          t \in Queued /\ t \in batch[a] /\ First(a, t) /\ RanTask(a, t, ok)
    BY <1>13, RemoteStep
  <2> QED BY <2>1 DEF RanTask
<1>14. ASSUME NEW row \in InstanceRows, NEW ns \in [Nodes -> NodeStates], Edit(row, ns)
      PROVE  Requesting'
  BY <1>14 DEF Edit
<1>15. ASSUME UNCHANGED vars
      PROVE  Requesting'
  BY <1>15 DEF vars
<1> HIDE DEF Requesting, TypeOK, CurrentRegistry, Stages, Outcomes, registryVars, requestVars, agentVars, effectVars, Goto
<1> QED BY <1>1, <1>2, <1>3, <1>4, <1>5, <1>6, <1>7, <1>8, <1>9, <1>10, <1>11, <1>12, <1>13, <1>14, <1>15, EditStep
        DEF Next, RequestStep

\* Only restarts are interrupted.
LEMMA TodoNext ==
    ASSUME TypeOK, Requesting, Todo, OnePlace, Handing, [Next]_vars
    PROVE  Todo'
<1> USE DEF Todo, TypeOK, registryVars, requestVars, agentVars, effectVars, Goto
<1>1. ASSUME NEW r \in Requests, NEW act \in Actions, NEW c \in BOOLEAN, Arrive(r, act, c)
      PROVE  Todo'
  BY <1>1 DEF Arrive, Return
<1>2. ASSUME NEW r \in Requests, ReadInstance(r)
      PROVE  Todo'
  BY <1>2 DEF ReadInstance, Return
<1>3. ASSUME NEW r \in Requests, ReadNode(r)
      PROVE  Todo'
  BY <1>3 DEF ReadNode, Return, Channel!Open
<1>4. ASSUME NEW r \in Requests, RunLocal(r)
      PROVE  Todo'
  <2>1. PICK ok \in BOOLEAN :
          /\ Ran(r, r, stage[r], Center, mode[r], ok)
          /\ \/ todo'[r] # <<>> /\ UNCHANGED <<pc, cmd, answer>>
             \/ todo'[r] = <<>> /\ Settle(r, Outcome(ok))
    BY <1>4, LocalStep
  <2>2. \A w \in Requests \cup Agents : todo'[w] \in {<<>>, <<"start">>}
    BY <2>1 DEF Ran
  <2>3. ASSUME NEW q \in Requests, todo'[q] # <<>>
        PROVE  pc'[q] = "run" /\ action'[q] = "restart" /\ mode'[q] = "command"
    <3>1. CASE q = r
      <4>1. pc' = pc /\ action' = action /\ mode' = mode
        BY <1>4, <2>1, <2>3, <3>1 DEF RunLocal
      <4> QED BY <1>4, <2>1, <2>3, <3>1, <4>1 DEF RunLocal, Ran
    <3>2. CASE q # r
      <4>1. /\ todo'[q] = todo[q] /\ pc'[q] = pc[q]
            /\ action' = action /\ mode' = mode
        <5>1. PICK o \in {"success", "failed"} : Settle(r, o) \/ UNCHANGED pc
          BY <2>1 DEF Outcome
        <5> QED BY <1>4, <2>1, <3>2, <5>1, Settled DEF RunLocal, Ran
      <4> QED BY <2>3, <4>1
    <3> QED BY <3>1, <3>2
  <2> QED BY <2>2, <2>3 DEF Todo
<1>5. ASSUME NEW r \in Requests, Refuse(r)
      PROVE  Todo'
  <2>1. todo[r] = <<>>
    BY <1>5 DEF Refuse, Supported
  <2> QED BY <1>5, <2>1 DEF Refuse, Return
<1>6. ASSUME NEW r \in Requests, Insert(r)
      PROVE  Todo'
  BY <1>6 DEF Insert
<1>7. ASSUME NEW r \in Requests, InsertFails(r)
      PROVE  Todo'
  <2>1. PICK o \in {"success", "failed"} : Settle(r, o)
    BY <1>7 DEF InsertFails, Outcome
  <2> QED BY <1>7, <2>1, Settled DEF InsertFails
<1>8. ASSUME NEW r \in Requests, Reply(r)
      PROVE  Todo'
  <2>1. PICK o \in {"success", "failed"} : Settle(r, o)
    BY <1>8 DEF Reply, Outcome
  <2> QED BY <1>8, <2>1, Settled DEF Reply
<1>9. ASSUME NEW r \in Requests, Expire(r)
      PROVE  Todo'
  <2>1. PICK o \in {"success", "failed"} : Settle(r, o)
    BY <1>9 DEF Expire, Outcome
  <2> QED BY <1>9, <2>1, Settled DEF Expire
<1>10. ASSUME NEW r \in Requests, Record(r)
      PROVE  Todo'
  BY <1>10 DEF Record, Return
<1>11. ASSUME NEW r \in Requests, RecordFails(r)
      PROVE  Todo'
  BY <1>11 DEF RecordFails, Fault, Return
<1>12. ASSUME NEW a \in Agents, Poll(a)
      PROVE  Todo'
  BY <1>12 DEF Poll
<1>13. ASSUME NEW a \in Agents, RunRemote(a)
      PROVE  Todo'
  <2>1. PICK t \in Tasks, ok \in BOOLEAN :
          t \in Queued /\ t \in batch[a] /\ First(a, t) /\ RanTask(a, t, ok)
    BY <1>13, RemoteStep
  <2>2. \A w \in Requests \cup Agents : todo'[w] \in {<<>>, <<"start">>}
    BY <2>1 DEF RanTask, Ran
  <2>3. \A q \in Requests : todo'[q] = todo[q]
    BY <2>1, NamesAssumption DEF RanTask, Ran
  <2> QED BY <2>1, <2>2, <2>3 DEF RanTask
<1>14. ASSUME NEW row \in InstanceRows, NEW ns \in [Nodes -> NodeStates], Edit(row, ns)
      PROVE  Todo'
  BY <1>14 DEF Edit
<1>15. ASSUME UNCHANGED vars
      PROVE  Todo'
  BY <1>15 DEF vars
<1> HIDE DEF Todo, TypeOK, registryVars, requestVars, agentVars, effectVars, Goto
<1> QED BY <1>1, <1>2, <1>3, <1>4, <1>5, <1>6, <1>7, <1>8, <1>9, <1>10, <1>11, <1>12, <1>13, <1>14, <1>15, EditStep
        DEF Next, RequestStep

\* What has been seen of the registry is kept.
LEMMA SeenGrows ==
    ASSUME TypeOK, Requesting, Todo, OnePlace, Handing, [Next]_vars, NEW r \in Requests,
           pc[r] # "idle"
    PROVE  seen[r] \subseteq seen'[r] /\ Allowed(r) \subseteq Allowed(r)'
<1>1. seen[r] \subseteq seen'[r]
  <2> USE DEF TypeOK, registryVars, requestVars, agentVars, effectVars, Goto
  <2>1. ASSUME NEW q \in Requests, NEW act \in Actions, NEW c \in BOOLEAN, Arrive(q, act, c)
        PROVE  seen[r] \subseteq seen'[r]
    BY <2>1 DEF Arrive, Return
  <2>2. ASSUME NEW q \in Requests, ReadInstance(q)
        PROVE  seen[r] \subseteq seen'[r]
    BY <2>2 DEF ReadInstance, Return
  <2>3. ASSUME NEW q \in Requests, ReadNode(q)
        PROVE  seen[r] \subseteq seen'[r]
    BY <2>3 DEF ReadNode, Return, Channel!Open
  <2>4. ASSUME NEW q \in Requests, RunLocal(q)
        PROVE  seen[r] \subseteq seen'[r]
    BY <2>4 DEF RunLocal
  <2>5. ASSUME NEW q \in Requests, Refuse(q)
        PROVE  seen[r] \subseteq seen'[r]
    BY <2>5 DEF Refuse, Return
  <2>6. ASSUME NEW q \in Requests, Insert(q)
        PROVE  seen[r] \subseteq seen'[r]
    BY <2>6 DEF Insert
  <2>7. ASSUME NEW q \in Requests, InsertFails(q)
        PROVE  seen[r] \subseteq seen'[r]
    BY <2>7 DEF InsertFails
  <2>8. ASSUME NEW q \in Requests, Reply(q)
        PROVE  seen[r] \subseteq seen'[r]
    BY <2>8 DEF Reply
  <2>9. ASSUME NEW q \in Requests, Expire(q)
        PROVE  seen[r] \subseteq seen'[r]
    BY <2>9 DEF Expire
  <2>10. ASSUME NEW q \in Requests, Record(q)
        PROVE  seen[r] \subseteq seen'[r]
    BY <2>10 DEF Record, Return
  <2>11. ASSUME NEW q \in Requests, RecordFails(q)
        PROVE  seen[r] \subseteq seen'[r]
    BY <2>11 DEF RecordFails, Fault, Return
  <2>12. ASSUME NEW a \in Agents, Poll(a)
        PROVE  seen[r] \subseteq seen'[r]
    BY <2>12 DEF Poll
  <2>13. ASSUME NEW a \in Agents, RunRemote(a)
        PROVE  seen[r] \subseteq seen'[r]
    BY <2>13 DEF RunRemote
  <2>14. ASSUME NEW row \in InstanceRows, NEW ns \in [Nodes -> NodeStates], Edit(row, ns)
        PROVE  seen[r] \subseteq seen'[r]
    BY <2>14 DEF Edit
  <2>15. ASSUME UNCHANGED vars
        PROVE  seen[r] \subseteq seen'[r]
    BY <2>15 DEF vars
  <2> QED BY <2>1, <2>2, <2>3, <2>4, <2>5, <2>6, <2>7, <2>8, <2>9, <2>10, <2>11, <2>12, <2>13, <2>14, <2>15, EditStep
          DEF Next, RequestStep
<1> QED BY <1>1 DEF Allowed

\* An insert adds its task to the queue and nothing else.
LEMMA InsertQueues ==
    ASSUME TypeOK, NEW r \in Requests, Insert(r)
    PROVE  Queued' = Queued \cup {Task(r)}
<1>1. /\ rows \in Seq(Tasks) /\ rows' = Append(rows, Task(r))
      /\ Len(rows) \in Nat /\ DOMAIN rows = 1..Len(rows)
  BY DEF Insert, TypeOK
<1>2. /\ DOMAIN rows' = 1..(Len(rows) + 1) /\ rows'[Len(rows) + 1] = Task(r)
      /\ \A i \in 1..Len(rows) : rows'[i] = rows[i]
  BY <1>1
<1>3. \A i \in 1..(Len(rows) + 1) : i \in 1..Len(rows) \/ i = Len(rows) + 1
  BY <1>1
<1>4. 1..Len(rows) \subseteq 1..(Len(rows) + 1) /\ Len(rows) + 1 \in 1..(Len(rows) + 1)
  BY <1>1
<1> QED BY <1>1, <1>2, <1>3, <1>4 DEF Queued

Adds(q, z, m) ==
    \A r \in Requests, s \in Stages :
        At(r, s)' = IF r = q /\ s = z THEN At(r, s) \cup {m} ELSE At(r, s)

\* A machine is new to a stage when the center runs there, or when a task is queued.
LEMMA AtStep ==
    ASSUME TypeOK, Requesting, Todo, Placing, OnePlace, Handing, [Next]_vars
    PROVE  \/ \A r \in Requests, s \in Stages : At(r, s)' = At(r, s)
           \/ \E r \in Requests : RunLocal(r) /\ Adds(r, stage[r], Center)
           \/ \E r \in Requests : Insert(r) /\ Adds(r, stage[r], target[r])
<1>1. ASSUME UNCHANGED <<touched, rows>>
      PROVE  \A r \in Requests, s \in Stages : At(r, s)' = At(r, s)
  BY <1>1 DEF At, Queued
<1>2. ASSUME NEW r \in Requests, RunLocal(r)
      PROVE  Adds(r, stage[r], Center)
  <2>1. PICK ok \in BOOLEAN : Ran(r, r, stage[r], Center, mode[r], ok)
    BY <1>2, LocalStep
  <2>2. Center \in Machines /\ stage[r] \in Stages /\ Queued' = Queued
    BY <1>2 DEF Machines, TypeOK, RunLocal, agentVars, Queued
  <2>3. touched' = [touched EXCEPT ![r] = @ \cup {<<stage[r], Center>>}]
    BY <2>1 DEF Ran
  <2> QED BY <2>2, <2>3 DEF Adds, At, TypeOK
<1>3. ASSUME NEW r \in Requests, Insert(r)
      PROVE  Adds(r, stage[r], target[r])
  <2>1. /\ Task(r) = <<r, stage[r], target[r]>> /\ target[r] \in Machines /\ stage[r] \in Stages
        /\ touched' = touched
    BY <1>3, NotQueuedYet DEF Insert, effectVars, Machines
  <2>2. Queued' = Queued \cup {Task(r)}
    BY <1>3, InsertQueues
  <2> QED BY <2>1, <2>2 DEF Adds, At
<1>4. ASSUME NEW a \in Agents, RunRemote(a)
      PROVE  \A r \in Requests, s \in Stages : At(r, s)' = At(r, s)
  <2>1. PICK t \in Tasks, ok \in BOOLEAN :
          t \in Queued /\ t \in batch[a] /\ First(a, t) /\ RanTask(a, t, ok)
    BY <1>4, RemoteStep
  <2>2. /\ t[1] \in Requests /\ t[2] \in Stages /\ t[3] \in Machines
        /\ t = <<t[1], t[2], t[3]>>
    BY TaskShape DEF Machines
  <2>3. /\ touched' = [touched EXCEPT ![t[1]] = @ \cup {<<t[2], t[3]>>}]
        /\ Queued' = Queued
    BY <2>1 DEF RanTask, Ran, Queued
  <2>4. ASSUME NEW r \in Requests, NEW s \in Stages, NEW m \in Machines
        PROVE  m \in At(r, s)' <=> m \in At(r, s)
    <3>1. <<s, m>> \in touched'[r] <=>
            <<s, m>> \in touched[r] \/ (r = t[1] /\ <<s, m>> = <<t[2], t[3]>>)
      BY <2>2, <2>3 DEF TypeOK
    <3>2. r = t[1] /\ <<s, m>> = <<t[2], t[3]>> => <<r, s, m>> \in Queued
      BY <2>1, <2>2
    <3> QED BY <2>3, <3>1, <3>2 DEF At
  <2> QED BY <2>4 DEF At
<1>5. ASSUME NEW r \in Requests, RequestStep(r), ~RunLocal(r), ~Insert(r)
      PROVE  UNCHANGED <<touched, rows>>
  BY <1>5 DEF RequestStep, Arrive, ReadInstance, ReadNode, Refuse, InsertFails, Reply, Expire,
     Record, RecordFails, effectVars, agentVars
<1>6. ASSUME RegistryStep \/ UNCHANGED vars \/ \E a \in Agents : Poll(a)
      PROVE  UNCHANGED <<touched, rows>>
  <2>1. CASE RegistryStep
    BY <2>1, EditStep DEF Edit, effectVars, agentVars
  <2>2. CASE UNCHANGED vars
    BY <2>2 DEF vars, effectVars, agentVars
  <2>3. CASE \E a \in Agents : Poll(a)
    BY <2>3 DEF Poll, effectVars
  <2> QED BY <1>6, <2>1, <2>2, <2>3
<1> QED BY <1>1, <1>2, <1>3, <1>4, <1>5, <1>6 DEF Next

\* Where a stage is, after any step.
LEMMA AtOf ==
    ASSUME TypeOK, Requesting, Todo, Placing, OnePlace, Handing, [Next]_vars,
           NEW r \in Requests, NEW s \in Stages
    PROVE  \/ At(r, s)' = At(r, s)
           \/ RunLocal(r) /\ s = stage[r] /\ At(r, s)' = At(r, s) \cup {Center}
           \/ Insert(r) /\ s = stage[r] /\ At(r, s)' = At(r, s) \cup {target[r]}
  BY AtStep DEF Adds

-----------------------------------------------------------------------------
(* A step from the point of view of a request. *)

Stays(r) ==
    /\ pc'[r] = pc[r] /\ action'[r] = action[r] /\ confirmed'[r] = confirmed[r]
    /\ stage'[r] = stage[r] /\ target'[r] = target[r] /\ mode'[r] = mode[r]
    /\ cmd'[r] = cmd[r] /\ answer'[r] = answer[r] /\ record'[r] = record[r]

\* A request changes only by a step of its own.
LEMMA OthersStay ==
    ASSUME TypeOK, Requesting, Todo, OnePlace, Handing, [Next]_vars, NEW r \in Requests
    PROVE  Stays(r) \/ RequestStep(r)
<1> USE DEF TypeOK, registryVars, requestVars, agentVars, effectVars, Goto
<1>1. ASSUME NEW q \in Requests, NEW act \in Actions, NEW c \in BOOLEAN, q # r, Arrive(q, act, c)
      PROVE  Stays(r)
  <2>1. \E x \in {"done", "record", "instance"} : pc' = [pc EXCEPT ![q] = x]
    BY <1>1 DEF Arrive, Return
  <2>2. cmd' = cmd \/ cmd' = [cmd EXCEPT ![q] = "success"]
    BY <1>1 DEF Arrive
  <2>3. answer' = answer \/ answer' = [answer EXCEPT ![q] = "refused"]
    BY <1>1 DEF Arrive, Return
  <2>4. pc'[r] = pc[r] /\ cmd'[r] = cmd[r] /\ answer'[r] = answer[r]
    BY <1>1, <2>1, <2>2, <2>3
  <2> QED BY <1>1, <2>4 DEF Arrive, Stays
<1>2. ASSUME NEW q \in Requests, q # r, ReadInstance(q)
      PROVE  Stays(r)
  BY <1>2 DEF ReadInstance, Return, Stays
<1>3. ASSUME NEW q \in Requests, q # r, ReadNode(q)
      PROVE  Stays(r)
  BY <1>3 DEF ReadNode, Return, Channel!Open, Stays
<1>4. ASSUME NEW q \in Requests, q # r, RunLocal(q)
      PROVE  Stays(r)
  <2>1. PICK ok \in BOOLEAN : UNCHANGED <<pc, cmd, answer>> \/ Settle(q, Outcome(ok))
    BY <1>4 DEF RunLocal
  <2>2. PICK o \in {"success", "failed"} : UNCHANGED <<pc, cmd, answer>> \/ Settle(q, o)
    BY <2>1 DEF Outcome
  <2> QED BY <1>4, <2>2, Settled DEF RunLocal, Stays
<1>5. ASSUME NEW q \in Requests, q # r, Refuse(q)
      PROVE  Stays(r)
  BY <1>5 DEF Refuse, Return, Stays
<1>6. ASSUME NEW q \in Requests, q # r, Insert(q)
      PROVE  Stays(r)
  BY <1>6 DEF Insert, Stays
<1>7. ASSUME NEW q \in Requests, q # r, InsertFails(q)
      PROVE  Stays(r)
  <2>1. PICK o \in {"success", "failed"} : Settle(q, o)
    BY <1>7 DEF InsertFails, Outcome
  <2> QED BY <1>7, <2>1, Settled DEF InsertFails, Stays
<1>8. ASSUME NEW q \in Requests, q # r, Reply(q)
      PROVE  Stays(r)
  <2>1. PICK o \in {"success", "failed"} : Settle(q, o)
    BY <1>8 DEF Reply, Outcome
  <2> QED BY <1>8, <2>1, Settled DEF Reply, Stays
<1>9. ASSUME NEW q \in Requests, q # r, Expire(q)
      PROVE  Stays(r)
  <2>1. PICK o \in {"success", "failed"} : Settle(q, o)
    BY <1>9 DEF Expire, Outcome
  <2> QED BY <1>9, <2>1, Settled DEF Expire, Stays
<1>10. ASSUME NEW q \in Requests, q # r, Record(q)
      PROVE  Stays(r)
  BY <1>10 DEF Record, Return, Stays
<1>11. ASSUME NEW q \in Requests, q # r, RecordFails(q)
      PROVE  Stays(r)
  BY <1>11 DEF RecordFails, Fault, Return, Stays
<1>12. ASSUME NEW a \in Agents, Poll(a)
      PROVE  Stays(r)
  BY <1>12 DEF Poll, Stays
<1>13. ASSUME NEW a \in Agents, RunRemote(a)
      PROVE  Stays(r)
  <2>1. UNCHANGED <<requestVars, record>>
    BY <1>13, RemoteStep DEF RanTask
  <2> QED BY <2>1 DEF Stays
<1>14. ASSUME NEW row \in InstanceRows, NEW ns \in [Nodes -> NodeStates], Edit(row, ns)
      PROVE  Stays(r)
  BY <1>14 DEF Edit, Stays
<1>15. ASSUME UNCHANGED vars
      PROVE  Stays(r)
  BY <1>15 DEF vars, Stays
<1> HIDE DEF TypeOK, registryVars, requestVars, agentVars, effectVars, Goto
<1> QED BY <1>1, <1>2, <1>3, <1>4, <1>5, <1>6, <1>7, <1>8, <1>9, <1>10, <1>11, <1>12, <1>13, <1>14, <1>15, EditStep
        DEF Next, RequestStep

\* What a stage has touched or done it has touched or done for good.
LEMMA EffectGrows ==
    ASSUME TypeOK, Requesting, Todo, OnePlace, Handing, [Next]_vars, NEW r \in Requests
    PROVE  /\ touched[r] \subseteq touched'[r]
           /\ succeeded[r] \subseteq succeeded'[r]
           /\ succeeded[r] \subseteq touched[r] => succeeded'[r] \subseteq touched'[r]
           /\ \A x \in succeeded'[r] \ succeeded[r] :
                 \/ RunLocal(r) /\ x = <<stage[r], Center>>
                 \/ \E a \in Agents, t \in Queued : /\ RunRemote(a) /\ t \in batch[a] /\ t[1] = r
                                                  /\ x = <<t[2], t[3]>>
<1> DEFINE Goal ==
        /\ touched[r] \subseteq touched'[r]
        /\ succeeded[r] \subseteq succeeded'[r]
        /\ succeeded[r] \subseteq touched[r] => succeeded'[r] \subseteq touched'[r]
        /\ \A x \in succeeded'[r] \ succeeded[r] :
              \/ RunLocal(r) /\ x = <<stage[r], Center>>
              \/ \E a \in Agents, t \in Queued : /\ RunRemote(a) /\ t \in batch[a] /\ t[1] = r
                                               /\ x = <<t[2], t[3]>>
<1>1. CASE UNCHANGED <<touched, succeeded>>
  BY <1>1
<1>2. ASSUME NEW q \in Requests, RunLocal(q)
      PROVE  Goal
  <2>1. PICK ok \in BOOLEAN : Ran(q, q, stage[q], Center, mode[q], ok)
    BY <1>2, LocalStep
  <2>2. PICK x : x = <<stage[q], Center>>
    OBVIOUS
  <2>3. /\ touched' = [touched EXCEPT ![q] = @ \cup {x}]
        /\ succeeded' = succeeded \/ succeeded' = [succeeded EXCEPT ![q] = @ \cup {x}]
    BY <2>1, <2>2 DEF Ran
  <2> QED BY <1>2, <2>2, <2>3 DEF TypeOK
<1>3. ASSUME NEW a \in Agents, RunRemote(a)
      PROVE  Goal
  <2>1. PICK t \in Tasks, ok \in BOOLEAN :
          t \in Queued /\ t \in batch[a] /\ First(a, t) /\ RanTask(a, t, ok)
    BY <1>3, RemoteStep
  <2>2. PICK x : x = <<t[2], t[3]>>
    OBVIOUS
  <2>3. /\ touched' = [touched EXCEPT ![t[1]] = @ \cup {x}]
        /\ succeeded' = succeeded \/ succeeded' = [succeeded EXCEPT ![t[1]] = @ \cup {x}]
    BY <2>1, <2>2 DEF RanTask, Ran
  <2>4. t[1] \in Requests
    BY TaskShape
  <2>5. \A y \in succeeded'[r] \ succeeded[r] : y = x /\ t[1] = r
    BY <2>3, <2>4 DEF TypeOK
  <2>6. /\ touched[r] \subseteq touched'[r] /\ succeeded[r] \subseteq succeeded'[r]
        /\ succeeded[r] \subseteq touched[r] => succeeded'[r] \subseteq touched'[r]
    BY <2>3, <2>4 DEF TypeOK
  <2> QED BY <1>3, <2>1, <2>2, <2>5, <2>6
<1>4. ASSUME NEW q \in Requests, RequestStep(q), ~RunLocal(q)
      PROVE  UNCHANGED <<touched, succeeded>>
  BY <1>4 DEF RequestStep, Arrive, ReadInstance, ReadNode, Refuse, Insert, InsertFails, Reply,
     Expire, Record, RecordFails, effectVars
<1>5. ASSUME RegistryStep \/ UNCHANGED vars \/ \E a \in Agents : Poll(a)
      PROVE  UNCHANGED <<touched, succeeded>>
  <2>1. CASE RegistryStep
    BY <2>1, EditStep DEF Edit, effectVars
  <2>2. CASE UNCHANGED vars
    BY <2>2 DEF vars, effectVars
  <2>3. CASE \E a \in Agents : Poll(a)
    BY <2>3 DEF Poll, effectVars
  <2> QED BY <1>5, <2>1, <2>2, <2>3
<1> HIDE DEF Goal
<1>6. Goal
  <2>1. CASE \E q \in Requests : RequestStep(q)
    BY <1>1, <1>2, <1>4, <2>1 DEF Goal
  <2>2. CASE \E a \in Agents : RunRemote(a)
    BY <1>3, <2>2
  <2>3. CASE RegistryStep \/ UNCHANGED vars \/ \E a \in Agents : Poll(a)
    BY <1>1, <1>5, <2>3 DEF Goal
  <2> QED BY <2>1, <2>2, <2>3 DEF Next
<1> QED BY <1>6 DEF Goal

\* No request is sent where the registry has not allowed it to run.
LEMMA PlacingNext ==
    ASSUME TypeOK, Requesting, Todo, Placing, OnePlace, Handing, [Next]_vars
    PROVE  Placing'
<1> SUFFICES ASSUME NEW r \in Requests
             PROVE  Placed(r)'
  BY DEF Placing
<1> USE DEF TypeOK, registryVars, requestVars, agentVars, effectVars, Goto
<1>13. \A s \in Stages : At(r, s)' \subseteq Allowed(r)'
  <2>1. pc[r] # "idle" => Allowed(r) \subseteq Allowed(r)'
    BY SeenGrows
  <2>2. ASSUME NEW s \in Stages
        PROVE  At(r, s) \subseteq Allowed(r)'
    BY <2>1 DEF Placing, Placed, OnePlace, HasOnePlace
  <2>3. RunLocal(r) => Center \in Allowed(r)'
    BY <2>1 DEF RunLocal, Placing, Placed
  <2>4. Insert(r) => target[r] \in Allowed(r)'
    BY <2>1 DEF Insert, Placing, Placed
  <2> HIDE DEF TypeOK, registryVars, requestVars, agentVars, effectVars, Goto
  <2> QED BY <2>2, <2>3, <2>4, AtStep DEF Adds
<1>14. CurrentRegistry \in seen[r] \/ pc[r] = "idle"
  BY DEF Requesting
<1>15. /\ CurrentRegistry.instance = instance /\ CurrentRegistry.nodes = nodes
       /\ instance.node \in Machines
  BY DEF CurrentRegistry, Registry, InstanceRows
<1>1. CASE Stays(r) /\ ~RequestStep(r)
  <2>1. CASE pc[r] = "idle"
    BY <1>1, <1>13, <2>1 DEF Placed, Stays
  <2>2. CASE pc[r] # "idle"
    <3>1. seen[r] \subseteq seen'[r] /\ Allowed(r) \subseteq Allowed(r)'
      BY <2>2, SeenGrows
    <3>2. /\ pc[r] = "node" =>
                /\ target[r] \in Nodes
                /\ \E g \in seen[r] : g.instance.state = "enabled" /\ g.instance.node = target[r]
          /\ pc[r] = "run" => target[r] = Center /\ Center \in Allowed(r)
          /\ pc[r] \in {"insert", "wait"} => target[r] \in Nodes /\ target[r] \in Allowed(r)
      BY DEF Placing, Placed
    <3>3. pc'[r] = pc[r] /\ target'[r] = target[r]
      BY <1>1 DEF Stays
    <3> HIDE DEF TypeOK
    <3> QED BY <1>13, <3>1, <3>2, <3>3 DEF Placed
  <2> QED BY <2>1, <2>2
<1>2. ASSUME NEW act \in Actions, NEW c \in BOOLEAN, Arrive(r, act, c)
      PROVE  Placed(r)'
  <2>1. pc'[r] \in {"done", "instance", "record"}
    BY <1>2 DEF Arrive, Return
  <2> QED BY <1>13, <2>1 DEF Placed
<1>3. ASSUME ReadInstance(r)
      PROVE  Placed(r)'
  <2>1. seen' = seen /\ pc[r] = "instance"
    BY <1>3 DEF ReadInstance
  <2>2. CASE pc'[r] = "node"
    <3>1. instance.state = "enabled" /\ target'[r] = instance.node /\ target'[r] # Center
      BY <1>3, <2>2 DEF ReadInstance, Return
    <3> QED BY <1>13, <1>14, <1>15, <2>1, <2>2, <3>1 DEF Placed, Machines
  <2>3. CASE pc'[r] = "run"
    <3>1. /\ target'[r] = Center
          /\ \/ instance.state = "enabled" /\ instance.node = Center
             \/ instance.state = "absent" /\ IsDefault
      BY <1>3, <2>3 DEF ReadInstance, Return
    <3>2. Center \in Resolves(CurrentRegistry, CurrentRegistry)
      BY <1>15, <3>1 DEF Resolves, Machines
    <3>3. Center \in Allowed(r)'
      BY <1>14, <2>1, <3>2 DEF Allowed, Machines
    <3> QED BY <1>13, <2>3, <3>1, <3>3 DEF Placed
  <2>4. pc'[r] \in {"node", "run", "done"}
    BY <1>3 DEF ReadInstance, Return
  <2> QED BY <1>13, <2>2, <2>3, <2>4 DEF Placed
<1>4. ASSUME ReadNode(r)
      PROVE  Placed(r)'
  <2>1. seen' = seen /\ pc[r] = "node" /\ target[r] \in Nodes /\ target[r] # Center
    BY <1>4, NamesAssumption DEF ReadNode, Placing, Placed
  <2>2. PICK g \in seen[r] : g.instance.state = "enabled" /\ g.instance.node = target[r]
    BY <2>1 DEF Placing, Placed
  <2>3. CASE pc'[r] = "run"
    <3>1. nodes[target[r]] = "local" /\ target'[r] = Center
      BY <1>4, <2>3 DEF ReadNode, Return
    <3>2. Center \in Resolves(g, CurrentRegistry)
      BY <1>15, <2>1, <2>2, <3>1 DEF Resolves, Machines
    <3>3. Center \in Allowed(r)'
      BY <1>14, <2>1, <2>2, <3>2 DEF Allowed, Machines
    <3> QED BY <1>13, <2>3, <3>1, <3>3 DEF Placed
  <2>4. CASE pc'[r] = "insert"
    <3>1. nodes[target[r]] = "agent" /\ target'[r] = target[r]
      BY <1>4, <2>4 DEF ReadNode, Return
    <3>2. target[r] \in Resolves(g, CurrentRegistry)
      BY <1>15, <2>1, <2>2, <3>1 DEF Resolves, Machines
    <3>3. target[r] \in Allowed(r)'
      BY <1>14, <2>1, <2>2, <3>2 DEF Allowed, Machines
    <3> QED BY <1>13, <2>1, <2>4, <3>1, <3>3 DEF Placed
  <2>5. pc'[r] \in {"run", "insert", "done"}
    BY <1>4 DEF ReadNode, Return
  <2> QED BY <1>13, <2>3, <2>4, <2>5 DEF Placed
<1>5. ASSUME RunLocal(r)
      PROVE  Placed(r)'
  <2>1. PICK ok \in BOOLEAN :
          /\ Ran(r, r, stage[r], Center, mode[r], ok)
          /\ \/ todo'[r] # <<>> /\ UNCHANGED <<pc, cmd, answer>>
             \/ todo'[r] = <<>> /\ Settle(r, Outcome(ok))
    BY <1>5, LocalStep
  <2>2. pc'[r] \in {"run", "done", "record"} /\ target' = target /\ pc[r] = "run"
    BY <1>5, <2>1 DEF RunLocal, Settle, Return
  <2> QED BY <1>13, <2>2, SeenGrows DEF Placed, Placing
<1>6. ASSUME Refuse(r)
      PROVE  Placed(r)'
  <2>1. pc'[r] \in {"done", "instance", "record"}
    BY <1>6 DEF Refuse, Return
  <2> QED BY <1>13, <2>1 DEF Placed
<1>7. ASSUME Insert(r)
      PROVE  Placed(r)'
  <2>1. pc[r] = "insert" /\ pc'[r] = "wait" /\ target' = target
    BY <1>7 DEF Insert
  <2> QED BY <1>13, <2>1, SeenGrows DEF Placed, Placing
<1>8. ASSUME InsertFails(r)
      PROVE  Placed(r)'
  <2>1. pc'[r] \in {"done", "record"}
    BY <1>8 DEF InsertFails, Settle, Return
  <2> QED BY <1>13, <2>1 DEF Placed
<1>9. ASSUME Reply(r)
      PROVE  Placed(r)'
  <2>1. pc'[r] \in {"done", "record"}
    BY <1>9 DEF Reply, Settle, Return
  <2> QED BY <1>13, <2>1 DEF Placed
<1>10. ASSUME Expire(r)
      PROVE  Placed(r)'
  <2>1. pc'[r] \in {"done", "record"}
    BY <1>10 DEF Expire, Settle, Return
  <2> QED BY <1>13, <2>1 DEF Placed
<1>11. ASSUME Record(r)
      PROVE  Placed(r)'
  <2>1. pc'[r] \in {"done", "instance", "record"}
    BY <1>11 DEF Record, Return
  <2> QED BY <1>13, <2>1 DEF Placed
<1>12. ASSUME RecordFails(r)
      PROVE  Placed(r)'
  <2>1. pc'[r] \in {"done", "instance", "record"}
    BY <1>12 DEF RecordFails, Fault, Return
  <2> QED BY <1>13, <2>1 DEF Placed
<1> HIDE DEF TypeOK, registryVars, requestVars, agentVars, effectVars, Goto
<1> QED BY <1>1, <1>2, <1>3, <1>4, <1>5, <1>6, <1>7, <1>8, <1>9, <1>10, <1>11, <1>12, OthersStay
        DEF RequestStep

\* A stage has a single machine.
LEMMA OnePlaceNext ==
    ASSUME TypeOK, Requesting, Todo, Placing, OnePlace, Handing, [Next]_vars
    PROVE  OnePlace'
<1> SUFFICES ASSUME NEW r \in Requests
             PROVE  HasOnePlace(r)'
  BY DEF OnePlace
<1> USE DEF TypeOK, registryVars, requestVars, agentVars, effectVars, Goto
<1>13. HasOnePlace(r) /\ stage[r] \in Stages
  BY DEF OnePlace
<1>14. (stage[r] = "test" => action[r] \in {"test", "reload"}) /\ (answer[r] # "none" <=> pc[r] = "done")
  BY DEF Requesting
<1>15. ~RunLocal(r) /\ ~Insert(r) => \A s \in Stages : At(r, s)' = At(r, s)
  BY AtOf
<1>1. CASE Stays(r) /\ ~RequestStep(r)
  <2>1. \A s \in Stages : At(r, s)' = At(r, s)
    BY <1>1, <1>15 DEF RequestStep
  <2> HIDE DEF TypeOK
  <2> QED BY <1>1, <1>13, <2>1 DEF HasOnePlace, Stays, Stages
<1>2. ASSUME NEW act \in Actions, NEW c \in BOOLEAN, Arrive(r, act, c)
      PROVE  HasOnePlace(r)'
  <2>1. \A s \in Stages : At(r, s)' = At(r, s)
    BY <1>2, <1>15 DEF Arrive, RunLocal, Insert
  <2>2. \A s \in Stages : At(r, s) = {}
    BY <1>2, <1>13 DEF Arrive, HasOnePlace
  <2>3. action'[r] \in {"test", "reload"} <=> stage'[r] = "test"
    BY <1>2 DEF Arrive
  <2>4. stage'[r] \in Stages
    BY <1>2 DEF Arrive, Stages
  <2> HIDE DEF TypeOK
  <2> QED BY <2>1, <2>2, <2>4 DEF HasOnePlace, Stages
<1>3. ASSUME ReadInstance(r)
      PROVE  HasOnePlace(r)'
  <2>1. \A s \in Stages : At(r, s)' = At(r, s)
    BY <1>3, <1>15 DEF ReadInstance, RunLocal, Insert
  <2>2. /\ pc'[r] \in {"node", "run", "done"} /\ answer'[r] # "refused"
        /\ stage' = stage /\ action' = action
    BY <1>3, <1>14 DEF ReadInstance, Return
  <2>3. At(r, stage[r]) = {}
    BY <1>3, <1>13 DEF ReadInstance, HasOnePlace
  <2> HIDE DEF TypeOK
  <2> QED BY <1>13, <2>1, <2>2, <2>3 DEF HasOnePlace, Stages
<1>4. ASSUME ReadNode(r)
      PROVE  HasOnePlace(r)'
  <2>1. \A s \in Stages : At(r, s)' = At(r, s)
    BY <1>4, <1>15 DEF ReadNode, RunLocal, Insert
  <2>2. /\ pc'[r] \in {"run", "insert", "done"} /\ answer'[r] # "refused"
        /\ stage' = stage /\ action' = action
    BY <1>4, <1>14 DEF ReadNode, Return, Channel!Open
  <2>3. At(r, stage[r]) = {}
    BY <1>4, <1>13 DEF ReadNode, HasOnePlace
  <2> HIDE DEF TypeOK
  <2> QED BY <1>13, <2>1, <2>2, <2>3 DEF HasOnePlace, Stages
<1>5. ASSUME RunLocal(r)
      PROVE  HasOnePlace(r)'
  <2>1. PICK ok \in BOOLEAN :
          /\ Ran(r, r, stage[r], Center, mode[r], ok)
          /\ \/ todo'[r] # <<>> /\ UNCHANGED <<pc, cmd, answer>>
             \/ todo'[r] = <<>> /\ Settle(r, Outcome(ok))
    BY <1>5, LocalStep
  <2>2. pc'[r] \in {"run", "done", "record"} /\ pc[r] = "run" /\ stage' = stage /\ action' = action
        /\ answer'[r] # "refused"
    BY <1>5, <1>14, <2>1 DEF RunLocal, Settle, Return, Outcome
  <2>3. \A s \in Stages : At(r, s)' = At(r, s) \/ (s = stage[r] /\ At(r, s)' \subseteq {Center})
    BY <1>5, <1>13, <2>2, AtOf DEF Insert, HasOnePlace
  <2>4. At(r, stage[r])' \subseteq {Center}
    BY <1>13, <2>2, <2>3 DEF HasOnePlace
  <2> HIDE DEF TypeOK
  <2> QED BY <1>13, <1>14, <2>2, <2>3, <2>4 DEF HasOnePlace, Stages
<1>6. ASSUME Refuse(r)
      PROVE  HasOnePlace(r)'
  <2>1. \A s \in Stages : At(r, s)' = At(r, s)
    BY <1>6, <1>15 DEF Refuse, RunLocal, Insert
  <2>2. /\ pc'[r] \in {"done"} /\ answer'[r] # "refused"
        /\ stage' = stage /\ action' = action
    BY <1>6, <1>14 DEF Refuse, Return
  <2> HIDE DEF TypeOK
  <2> QED BY <1>13, <2>1, <2>2 DEF HasOnePlace, Stages
<1>7. ASSUME Insert(r)
      PROVE  HasOnePlace(r)'
  <2>1. pc'[r] = "wait" /\ pc[r] = "insert" /\ stage' = stage /\ action' = action
        /\ answer' = answer /\ target' = target
    BY <1>7 DEF Insert
  <2>2. \A s \in Stages : At(r, s)' = At(r, s) \/ (s = stage[r] /\ At(r, s)' \subseteq {target[r]})
    <3>1. At(r, stage[r]) = {}
      BY <1>13, <2>1 DEF HasOnePlace
    <3>2. ~RunLocal(r)
      BY <2>1 DEF RunLocal
    <3> HIDE DEF TypeOK
    <3> QED BY <3>1, <3>2, AtOf
  <2>3. At(r, stage[r])' \subseteq {target[r]}
    BY <1>13, <2>1, <2>2 DEF HasOnePlace
  <2> HIDE DEF TypeOK
  <2> QED BY <1>13, <1>14, <2>1, <2>2, <2>3 DEF HasOnePlace, Stages
<1>8. ASSUME InsertFails(r)
      PROVE  HasOnePlace(r)'
  <2>1. \A s \in Stages : At(r, s)' = At(r, s)
    BY <1>8, <1>15 DEF InsertFails, RunLocal, Insert
  <2>2. PICK p \in {"success", "failed"} : Settle(r, p)
    BY <1>8 DEF InsertFails, Outcome
  <2>3. /\ pc'[r] \in {"done", "record"} /\ answer'[r] # "refused"
        /\ stage' = stage /\ action' = action
    BY <1>8, <1>14, <2>2, Settled DEF InsertFails
  <2> HIDE DEF TypeOK
  <2> QED BY <1>13, <2>1, <2>3 DEF HasOnePlace, Stages
<1>9. ASSUME Reply(r)
      PROVE  HasOnePlace(r)'
  <2>1. \A s \in Stages : At(r, s)' = At(r, s)
    BY <1>9, <1>15 DEF Reply, RunLocal, Insert
  <2>2. PICK p \in {"success", "failed"} : Settle(r, p)
    BY <1>9 DEF Reply, Outcome
  <2>3. /\ pc'[r] \in {"done", "record"} /\ answer'[r] # "refused"
        /\ stage' = stage /\ action' = action
    BY <1>9, <1>14, <2>2, Settled DEF Reply
  <2> HIDE DEF TypeOK
  <2> QED BY <1>13, <2>1, <2>3 DEF HasOnePlace, Stages
<1>10. ASSUME Expire(r)
      PROVE  HasOnePlace(r)'
  <2>1. \A s \in Stages : At(r, s)' = At(r, s)
    BY <1>10, <1>15 DEF Expire, RunLocal, Insert
  <2>2. PICK p \in {"success", "failed"} : Settle(r, p)
    BY <1>10 DEF Expire, Outcome
  <2>3. /\ pc'[r] \in {"done", "record"} /\ answer'[r] # "refused"
        /\ stage' = stage /\ action' = action
    BY <1>10, <1>14, <2>2, Settled DEF Expire
  <2> HIDE DEF TypeOK
  <2> QED BY <1>13, <2>1, <2>3 DEF HasOnePlace, Stages
<1>11. ASSUME Record(r)
      PROVE  HasOnePlace(r)'
  <2>1. \A s \in Stages : At(r, s)' = At(r, s)
    BY <1>11, <1>15 DEF Record, RunLocal, Insert
  <2>2. CASE TestPassed(r)
    <3>1. stage[r] = "test" /\ stage'[r] = "act" /\ pc'[r] = "instance" /\ action' = action
          /\ answer'[r] = "none"
      BY <1>11, <1>14, <2>2 DEF Record, TestPassed
    <3> HIDE DEF TypeOK
    <3> QED BY <1>13, <2>1, <3>1 DEF HasOnePlace, Stages
  <2>3. CASE ~TestPassed(r)
    <3>1. /\ stage'[r] = stage[r] /\ pc'[r] = "done" /\ action' = action
          /\ answer'[r] # "refused"
      BY <1>11, <1>14, <2>3 DEF Record, Return, Outcomes
    <3> HIDE DEF TypeOK
    <3> QED BY <1>13, <2>1, <3>1 DEF HasOnePlace, Stages
  <2> QED BY <2>2, <2>3
<1>12. ASSUME RecordFails(r)
      PROVE  HasOnePlace(r)'
  <2>1. \A s \in Stages : At(r, s)' = At(r, s)
    BY <1>12, <1>15 DEF RecordFails, RunLocal, Insert
  <2>2. /\ pc'[r] \in {"done"} /\ answer'[r] # "refused"
        /\ stage' = stage /\ action' = action
    BY <1>12, <1>14 DEF RecordFails, Fault, Return
  <2> HIDE DEF TypeOK
  <2> QED BY <1>13, <2>1, <2>2 DEF HasOnePlace, Stages
<1> HIDE DEF TypeOK, registryVars, requestVars, agentVars, effectVars, Goto
<1> QED BY <1>1, <1>2, <1>3, <1>4, <1>5, <1>6, <1>7, <1>8, <1>9, <1>10, <1>11, <1>12, OthersStay
        DEF RequestStep

\* Records and answers are true.
LEMMA TruthNext ==
    ASSUME TypeOK, Requesting, Todo, Placing, OnePlace, Truth, Handing, [Next]_vars
    PROVE  Truth'
<1> SUFFICES ASSUME NEW r \in Requests
             PROVE  Truthful(r)'
  BY DEF Truth
<1> USE DEF TypeOK, registryVars, requestVars, agentVars, effectVars, Goto
<1>13. Truthful(r) /\ stage[r] \in Stages /\ "act" \in Stages /\ "test" \in Stages
  BY DEF Truth, Stages
<1>14. /\ stage[r] = "test" => action[r] \in {"test", "reload"}
       /\ answer[r] # "none" <=> pc[r] = "done"
       /\ cmd[r] # "none" <=> pc[r] = "record"
  BY DEF Requesting
<1>15. /\ succeeded[r] \subseteq succeeded'[r]
       /\ succeeded'[r] \subseteq touched'[r]
  BY <1>13, EffectGrows DEF Truthful
<1>16. \A s \in Stages : <<s, Center>> \in succeeded'[r] =>
         <<s, Center>> \in succeeded[r] \/ (RunLocal(r) /\ s = stage[r])
  <2> SUFFICES ASSUME NEW s \in Stages, <<s, Center>> \in succeeded'[r] \ succeeded[r]
               PROVE  RunLocal(r) /\ s = stage[r]
    OBVIOUS
  <2>1. \A t \in Queued : t[3] # Center
    BY QueuedTask
  <2> HIDE DEF TypeOK
  <2>2. PICK x : x = <<s, Center>>
    OBVIOUS
  <2>3. \/ RunLocal(r) /\ x = <<stage[r], Center>>
        \/ \E t \in Queued : x = <<t[2], t[3]>>
    BY <2>2, EffectGrows
  <2> QED BY <2>1, <2>2, <2>3
<1>1. CASE Stays(r) /\ ~RequestStep(r)
  <2>1. \A s \in Stages : <<s, Center>> \in succeeded'[r] => <<s, Center>> \in succeeded[r]
    BY <1>1, <1>16 DEF RequestStep
  <2> HIDE DEF TypeOK
  <2> QED BY <1>1, <1>13, <1>15, <2>1 DEF Truthful, Stays
<1>2. ASSUME NEW act \in Actions, NEW c \in BOOLEAN, Arrive(r, act, c)
      PROVE  Truthful(r)'
  <2>1. /\ stage'[r] \in {"test", "act"}
        /\ stage'[r] = "test" <=> action'[r] \in {"test", "reload"}
        /\ UNCHANGED succeeded
        /\ pc[r] = "idle" /\ pc'[r] \in {"done", "record", "instance"} /\ record' = record
        /\ cmd'[r] = "success" => action'[r] = "refresh"
        /\ cmd'[r] # "failed" /\ answer'[r] # "success"
    BY <1>2, <1>14 DEF Arrive, Return, Stages
  <2>2. \A s \in Stages : record[r][s] = "none"
    BY <1>13, <2>1 DEF Truthful
  <2> HIDE DEF TypeOK
  <2> QED BY <1>13, <1>15, <2>1, <2>2 DEF Truthful
<1>3. ASSUME ReadInstance(r)
      PROVE  Truthful(r)'
  <2>1. /\ pc'[r] \in {"node", "run", "done"} /\ UNCHANGED <<stage, action, cmd, record, succeeded>>
        /\ pc[r] \in {"instance", "node", "run", "insert"}
        /\ answer'[r] # "success"
    BY <1>3, <1>14 DEF ReadInstance, Return
  <2>2. <<stage[r], Center>> \notin succeeded[r]
    <3>1. At(r, stage[r]) = {}
      BY <1>3 DEF ReadInstance, OnePlace, HasOnePlace
    <3> HIDE DEF TypeOK
    <3> QED BY <1>13, <3>1 DEF At, Truthful, Machines
  <2> HIDE DEF TypeOK
  <2> QED BY <1>13, <1>15, <2>1, <2>2 DEF Truthful
<1>4. ASSUME ReadNode(r)
      PROVE  Truthful(r)'
  <2>1. /\ pc'[r] \in {"run", "insert", "done"} /\ UNCHANGED <<stage, action, cmd, record, succeeded>>
        /\ pc[r] \in {"instance", "node", "run", "insert"}
        /\ answer'[r] # "success"
    BY <1>4, <1>14 DEF ReadNode, Return, Channel!Open
  <2>2. <<stage[r], Center>> \notin succeeded[r]
    <3>1. At(r, stage[r]) = {}
      BY <1>4 DEF ReadNode, OnePlace, HasOnePlace
    <3> HIDE DEF TypeOK
    <3> QED BY <1>13, <3>1 DEF At, Truthful, Machines
  <2> HIDE DEF TypeOK
  <2> QED BY <1>13, <1>15, <2>1, <2>2 DEF Truthful
<1>5. ASSUME RunLocal(r)
      PROVE  Truthful(r)'
  <2>1. PICK ok \in BOOLEAN :
          /\ Ran(r, r, stage[r], Center, mode[r], ok)
          /\ \/ todo'[r] # <<>> /\ UNCHANGED <<pc, cmd, answer>>
             \/ todo'[r] = <<>> /\ Settle(r, Outcome(ok))
    BY <1>5, LocalStep
  <2>2. /\ UNCHANGED <<stage, action, record>> /\ pc[r] = "run" /\ answer[r] = "none" /\ cmd[r] = "none"
    BY <1>5, <1>14 DEF RunLocal
  <2>3. CASE todo'[r] # <<>> /\ UNCHANGED <<pc, cmd, answer>>
    <3>1. succeeded' = succeeded
      BY <2>1, <2>3 DEF Ran
    <3> HIDE DEF TypeOK
    <3> QED BY <1>13, <1>15, <2>2, <2>3, <3>1 DEF Truthful
  <2>4. CASE todo'[r] = <<>> /\ Settle(r, Outcome(ok))
    <3>1. PICK o \in {"success", "failed"} : Settle(r, o) /\ (o = "success" <=> ok)
      BY <2>4 DEF Outcome
    <3>2. \/ action[r] = "status" /\ pc'[r] = "done" /\ cmd'[r] = "none" /\ answer'[r] = o
          \/ pc'[r] = "record" /\ cmd'[r] = o /\ answer'[r] = "none"
      BY <2>2, <3>1, Settled
    <3>3. PICK x : x = <<stage[r], Center>>
      OBVIOUS
    <3>4. /\ ok => x \in succeeded'[r]
          /\ ~ok => succeeded' = succeeded
      BY <2>1, <2>4, <3>3 DEF Ran
    <3>5. record[r][stage[r]] = "none" /\ Center \in Machines /\ x \notin succeeded[r]
      BY <1>13, <2>2, <3>3 DEF Truthful, Machines
    <3>6. \A s \in Stages : record[r][s] = "failed" => <<s, Center>> \notin succeeded'[r]
      BY <1>13, <1>16, <3>5 DEF Truthful
    <3> HIDE DEF TypeOK
    <3> QED BY <1>13, <1>15, <2>2, <3>1, <3>2, <3>3, <3>4, <3>5, <3>6 DEF Truthful
  <2> QED BY <2>1, <2>3, <2>4
<1>6. ASSUME Refuse(r)
      PROVE  Truthful(r)'
  <2>1. /\ pc'[r] \in {"done"} /\ UNCHANGED <<stage, action, cmd, record, succeeded>>
        /\ pc[r] \in {"instance", "node", "run", "insert"}
        /\ answer'[r] # "success"
    BY <1>6, <1>14 DEF Refuse, Return
  <2> HIDE DEF TypeOK
  <2> QED BY <1>13, <1>15, <2>1 DEF Truthful
<1>7. ASSUME Insert(r)
      PROVE  Truthful(r)'
  <2>1. /\ pc'[r] \in {"wait"} /\ UNCHANGED <<stage, action, cmd, record, succeeded>>
        /\ pc[r] \in {"instance", "node", "run", "insert"}
        /\ answer'[r] # "success"
    BY <1>7, <1>14 DEF Insert
  <2> HIDE DEF TypeOK
  <2> QED BY <1>13, <1>15, <2>1 DEF Truthful
<1>8. ASSUME InsertFails(r)
      PROVE  Truthful(r)'
  <2>1. PICK o \in {"success", "failed"} :
          Settle(r, o) /\ (o = "success" => \E m \in Machines : <<stage[r], m>> \in succeeded[r])
    BY <1>8 DEF InsertFails
  <2>2. <<stage[r], Center>> \notin succeeded[r]
    <3>1. pc[r] \in {"insert", "wait"} /\ target[r] \in Nodes /\ target[r] # Center
      BY <1>8, NamesAssumption DEF InsertFails, Placing, Placed
    <3>2. Center \notin At(r, stage[r])
      BY <1>13, <3>1 DEF OnePlace, HasOnePlace
    <3> HIDE DEF TypeOK
    <3> QED BY <1>13, <3>2 DEF At, Truthful, Machines
  <2>3. /\ UNCHANGED <<stage, action, record, succeeded>> /\ pc[r] \in {"insert", "wait"}
        /\ \/ action[r] = "status" /\ pc'[r] = "done" /\ cmd'[r] = "none" /\ answer'[r] = o
           \/ pc'[r] = "record" /\ cmd'[r] = o /\ answer'[r] = "none"
    BY <1>8, <1>14, <2>1, Settled DEF InsertFails
  <2> HIDE DEF TypeOK
  <2> QED BY <1>13, <1>15, <2>1, <2>2, <2>3 DEF Truthful
<1>9. ASSUME Reply(r)
      PROVE  Truthful(r)'
  <2>1. PICK o \in {"success", "failed"} :
          Settle(r, o) /\ (o = "success" => \E m \in Machines : <<stage[r], m>> \in succeeded[r])
    <3>1. PICK a \in Agents : Settle(r, Outcome(Task(r) \in good[a]))
      BY <1>9 DEF Reply
    <3>2. Task(r) = <<r, stage[r], target[r]>> /\ target[r] \in Nodes /\ target[r] \in Machines
      BY <1>9 DEF Reply, Task, Placing, Placed, Machines
    <3>3. Task(r) \in good[a] => <<stage[r], target[r]>> \in succeeded[r]
      BY <1>13, <3>2, TaskShape DEF Handing, Handed
    <3> QED BY <3>1, <3>2, <3>3 DEF Outcome
  <2>2. <<stage[r], Center>> \notin succeeded[r]
    <3>1. pc[r] \in {"insert", "wait"} /\ target[r] \in Nodes /\ target[r] # Center
      BY <1>9, NamesAssumption DEF Reply, Placing, Placed
    <3>2. Center \notin At(r, stage[r])
      BY <1>13, <3>1 DEF OnePlace, HasOnePlace
    <3> HIDE DEF TypeOK
    <3> QED BY <1>13, <3>2 DEF At, Truthful, Machines
  <2>3. /\ UNCHANGED <<stage, action, record, succeeded>> /\ pc[r] \in {"insert", "wait"}
        /\ \/ action[r] = "status" /\ pc'[r] = "done" /\ cmd'[r] = "none" /\ answer'[r] = o
           \/ pc'[r] = "record" /\ cmd'[r] = o /\ answer'[r] = "none"
    BY <1>9, <1>14, <2>1, Settled DEF Reply
  <2> HIDE DEF TypeOK
  <2> QED BY <1>13, <1>15, <2>1, <2>2, <2>3 DEF Truthful
<1>10. ASSUME Expire(r)
      PROVE  Truthful(r)'
  <2>1. PICK o \in {"success", "failed"} :
          Settle(r, o) /\ (o = "success" => \E m \in Machines : <<stage[r], m>> \in succeeded[r])
    BY <1>10 DEF Expire
  <2>2. <<stage[r], Center>> \notin succeeded[r]
    <3>1. pc[r] \in {"insert", "wait"} /\ target[r] \in Nodes /\ target[r] # Center
      BY <1>10, NamesAssumption DEF Expire, Placing, Placed
    <3>2. Center \notin At(r, stage[r])
      BY <1>13, <3>1 DEF OnePlace, HasOnePlace
    <3> HIDE DEF TypeOK
    <3> QED BY <1>13, <3>2 DEF At, Truthful, Machines
  <2>3. /\ UNCHANGED <<stage, action, record, succeeded>> /\ pc[r] \in {"insert", "wait"}
        /\ \/ action[r] = "status" /\ pc'[r] = "done" /\ cmd'[r] = "none" /\ answer'[r] = o
           \/ pc'[r] = "record" /\ cmd'[r] = o /\ answer'[r] = "none"
    BY <1>10, <1>14, <2>1, Settled DEF Expire
  <2> HIDE DEF TypeOK
  <2> QED BY <1>13, <1>15, <2>1, <2>2, <2>3 DEF Truthful
<1>11. ASSUME Record(r)
      PROVE  Truthful(r)'
  <2>1. /\ pc[r] = "record" /\ UNCHANGED <<action, succeeded>> /\ cmd'[r] = "none"
        /\ cmd[r] \in {"success", "failed"} /\ answer[r] = "none"
    BY <1>11, <1>14 DEF Record, Outcomes
  <2>2. /\ record'[r][stage[r]] = cmd[r]
        /\ \A s \in Stages : s # stage[r] => record'[r][s] = record[r][s]
    BY <1>11, <1>13 DEF Record
  <2>3. \A s \in Stages :
          /\ record'[r][s] = "success" /\ action[r] # "refresh"
                => \E m \in Machines : <<s, m>> \in succeeded[r]
          /\ record'[r][s] = "failed" => <<s, Center>> \notin succeeded[r]
    BY <1>13, <2>1, <2>2 DEF Truthful
  <2>4. CASE TestPassed(r)
    <3>1. /\ stage[r] = "test" /\ stage'[r] = "act" /\ pc'[r] = "instance"
          /\ answer'[r] = "none" /\ action[r] = "reload" /\ cmd[r] = "success"
      BY <1>11, <2>1, <2>4 DEF Record, TestPassed
    <3>2. \E m \in Machines : <<"test", m>> \in succeeded[r]
      BY <1>13, <3>1 DEF Truthful
    <3>3. record'[r]["act"] = "none"
      BY <1>13, <2>2, <3>1 DEF Truthful
    <3> HIDE DEF TypeOK
    <3> QED BY <1>13, <1>15, <2>1, <2>3, <3>1, <3>2, <3>3 DEF Truthful
  <2>5. CASE ~TestPassed(r)
    <3>1. stage'[r] = stage[r] /\ pc'[r] = "done" /\ answer'[r] = cmd[r]
      BY <1>11, <2>5 DEF Record, Return
    <3>2. stage[r] = "test" => record'[r]["act"] = "none"
      BY <1>13, <2>2 DEF Truthful
    <3> HIDE DEF TypeOK
    <3> QED BY <1>13, <1>15, <2>1, <2>2, <2>3, <3>1, <3>2 DEF Truthful
  <2> QED BY <2>4, <2>5
<1>12. ASSUME RecordFails(r)
      PROVE  Truthful(r)'
  <2>1. /\ pc'[r] = "done" /\ UNCHANGED <<action, succeeded, record, stage>> /\ cmd'[r] = "none"
        /\ answer'[r] = "error"
    BY <1>12 DEF RecordFails, Return
  <2> HIDE DEF TypeOK
  <2> QED BY <1>13, <1>15, <2>1 DEF Truthful
<1> HIDE DEF TypeOK, registryVars, requestVars, agentVars, effectVars, Goto
<1> QED BY <1>1, <1>2, <1>3, <1>4, <1>5, <1>6, <1>7, <1>8, <1>9, <1>10, <1>11, <1>12, OthersStay
        DEF RequestStep

-----------------------------------------------------------------------------
(* Nginx on a machine. *)

\* The step leaves it alone ...
Kept(m) ==
    /\ running'[m] = running[m] /\ last'[m] = last[m]
    /\ \A r \in Requests : Decides(r, "act") /\ <<"act", m>> \in succeeded'[r]
                              => <<"act", m>> \in succeeded[r]
\* ... or request r decides whether it runs.
DecidedBy(r, m) ==
    /\ Decides(r, "act") /\ last'[m] = r /\ <<"act", m>> \in touched'[r]
    /\ ~running'[m] => action[r] # "start"
    /\ <<"act", m>> \in succeeded'[r] => running'[m] = (action[r] # "stop")

\* A command changes nginx only where and as its request asks.
LEMMA RanEffect ==
    ASSUME TypeOK, NEW w, NEW r \in Requests, NEW s \in Stages, NEW m \in Machines,
           NEW md, NEW ok, Ran(w, r, s, m, md, ok), <<s, m>> \notin succeeded[r]
    PROVE  \A n \in Machines : Kept(n) \/ (n = m /\ s = "act" /\ DecidedBy(r, n))
<1> SUFFICES ASSUME NEW n \in Machines
             PROVE  Kept(n) \/ (n = m /\ s = "act" /\ DecidedBy(r, n))
  OBVIOUS
<1>1. PICK x : x = <<s, m>>
  OBVIOUS
<1>2. PICK y : y = <<"act", n>>
  OBVIOUS
<1>3. y = x <=> s = "act" /\ n = m
  BY <1>1, <1>2
<1>4. /\ touched' = [touched EXCEPT ![r] = @ \cup {x}]
      /\ succeeded' = succeeded \/ succeeded' = [succeeded EXCEPT ![r] = @ \cup {x}]
      /\ x \notin succeeded[r]
  BY <1>1 DEF Ran
<1>5. x \in touched'[r] /\ \A q \in Requests : y \in succeeded'[q] /\ ~(q = r /\ y = x) => y \in succeeded[q]
  BY <1>4 DEF TypeOK
<1>6. CASE n # m
  BY <1>2, <1>3, <1>5, <1>6 DEF Kept, Ran
<1>7. CASE n = m
  <2>1. \/ /\ running'[m] = running[m] /\ last'[m] = last[m]
           /\ Decides(r, s) => succeeded' = succeeded
        \/ /\ Decides(r, s) /\ last'[m] = r
           /\ ~running'[m] => action[r] # "start"
           /\ succeeded' # succeeded => running'[m] = (action[r] # "stop")
    BY DEF Ran
  <2>2. CASE /\ running'[m] = running[m] /\ last'[m] = last[m]
             /\ Decides(r, s) => succeeded' = succeeded
    BY <1>2, <1>3, <1>5, <1>7, <2>2 DEF Kept
  <2>3. CASE /\ Decides(r, s) /\ last'[m] = r
             /\ ~running'[m] => action[r] # "start"
             /\ succeeded' # succeeded => running'[m] = (action[r] # "stop")
    <3>1. s = "act" /\ y = x
      BY <1>3, <1>7, <2>3 DEF Decides
    <3> QED BY <1>2, <1>4, <1>5, <1>7, <2>3, <3>1 DEF DecidedBy
  <2> QED BY <2>1, <2>2, <2>3
<1> QED BY <1>6, <1>7

\* Only a command of a request, in the center or from the batch of an agent, decides.
LEMMA NginxStep ==
    ASSUME TypeOK, Requesting, Todo, OnePlace, Truth, Handing, [Next]_vars, NEW m \in Machines
    PROVE  \/ Kept(m)
           \/ \E r \in Requests : RunLocal(r) /\ m = Center /\ DecidedBy(r, m)
           \/ \E a \in Agents, t \in Queued :
                 /\ RunRemote(a) /\ First(a, t) /\ t[2] = "act" /\ t[3] = m
                 /\ DecidedBy(t[1], m)
<1>1. ASSUME NEW r \in Requests, RunLocal(r)
      PROVE  Kept(m) \/ (m = Center /\ DecidedBy(r, m))
  <2>1. PICK ok \in BOOLEAN : Ran(r, r, stage[r], Center, mode[r], ok)
    BY <1>1, LocalStep
  <2>2. stage[r] \in Stages /\ Center \in Machines /\ <<stage[r], Center>> \notin succeeded[r]
    BY <1>1 DEF TypeOK, Machines, RunLocal, Truth, Truthful
  <2> QED BY <2>1, <2>2, RanEffect
<1>2. ASSUME NEW a \in Agents, RunRemote(a)
      PROVE  \/ Kept(m)
             \/ \E t \in Queued : First(a, t) /\ t[2] = "act" /\ t[3] = m /\ DecidedBy(t[1], m)
  <2>1. PICK t \in Tasks, ok \in BOOLEAN :
          t \in Queued /\ t \in batch[a] /\ First(a, t) /\ RanTask(a, t, ok)
    BY <1>2, RemoteStep
  <2>2. /\ t[1] \in Requests /\ t[2] \in Stages /\ t[3] \in Machines
        /\ <<t[2], t[3]>> \notin succeeded[t[1]]
    BY <2>1, TaskShape DEF Machines, Handing, Handed
  <2>3. Ran(a, t[1], t[2], t[3], AgentMode(mode[t[1]]), ok)
    BY <2>1 DEF RanTask
  <2>4. Kept(m) \/ (m = t[3] /\ t[2] = "act" /\ DecidedBy(t[1], m))
    BY <2>2, <2>3, RanEffect
  <2> QED BY <2>1, <2>4
<1>3. ASSUME UNCHANGED <<running, last, succeeded>>
      PROVE  Kept(m)
  BY <1>3 DEF Kept
<1>4. ASSUME NEW r \in Requests, RequestStep(r), ~RunLocal(r)
      PROVE  UNCHANGED <<running, last, succeeded>>
  BY <1>4 DEF RequestStep, Arrive, ReadInstance, ReadNode, Refuse, Insert, InsertFails, Reply,
     Expire, Record, RecordFails, effectVars
<1>5. ASSUME RegistryStep \/ UNCHANGED vars \/ \E a \in Agents : Poll(a)
      PROVE  UNCHANGED <<running, last, succeeded>>
  <2>1. CASE RegistryStep
    BY <2>1, EditStep DEF Edit, effectVars
  <2>2. CASE UNCHANGED vars
    BY <2>2 DEF vars, effectVars
  <2>3. CASE \E a \in Agents : Poll(a)
    BY <2>3 DEF Poll, effectVars
  <2> QED BY <1>5, <2>1, <2>2, <2>3
<1> QED BY <1>1, <1>2, <1>3, <1>4, <1>5 DEF Next

\* What a request asks for does not change.
LEMMA ActionStays ==
    ASSUME TypeOK, Requesting, Todo, OnePlace, Handing, [Next]_vars, NEW r \in Requests,
           pc[r] # "idle"
    PROVE  action'[r] = action[r] /\ confirmed'[r] = confirmed[r] /\ pc'[r] # "idle"
<1>1. CASE Stays(r)
  BY <1>1 DEF Stays
<1>2. CASE RequestStep(r) /\ UNCHANGED <<action, confirmed>>
  <2> USE DEF TypeOK, Goto
  <2>1. CASE RunLocal(r)
    <3>1. PICK o \in {"success", "failed"} : UNCHANGED <<pc, cmd, answer>> \/ Settle(r, o)
      BY <2>1 DEF RunLocal, Outcome
    <3> HIDE DEF TypeOK
    <3> QED BY <1>2, <3>1, Settled
  <2>2. CASE InsertFails(r) \/ Expire(r)
    <3>1. Settle(r, "failed")
      BY <2>2 DEF InsertFails, Expire
    <3> HIDE DEF TypeOK
    <3> QED BY <1>2, <3>1, Settled
  <2>3. CASE Reply(r)
    <3>1. PICK o \in {"success", "failed"} : Settle(r, o)
      BY <2>3 DEF Reply, Outcome
    <3> HIDE DEF TypeOK
    <3> QED BY <1>2, <3>1, Settled
  <2>4. CASE ReadInstance(r)
    BY <1>2, <2>4 DEF ReadInstance, Return
  <2>5. CASE ReadNode(r)
    BY <1>2, <2>5 DEF ReadNode, Return
  <2>6. CASE Refuse(r) \/ Insert(r)
    BY <1>2, <2>6 DEF Refuse, Insert, Return
  <2>7. CASE Record(r) \/ RecordFails(r)
    BY <1>2, <2>7 DEF Record, RecordFails, Return
  <2> QED BY <1>2, <2>1, <2>2, <2>3, <2>4, <2>5, <2>6, <2>7 DEF RequestStep, Arrive
<1>3. ASSUME RequestStep(r)
      PROVE  UNCHANGED <<action, confirmed>>
  BY <1>3 DEF RequestStep, Arrive, ReadInstance, ReadNode, RunLocal, Refuse, Insert, InsertFails,
     Reply, Expire, Record, RecordFails, requestVars
<1> QED BY <1>1, <1>2, <1>3, OthersStay

\* A touched machine belongs to a request that has arrived.
LEMMA TouchedArrived ==
    ASSUME OnePlace, NEW r \in Requests, NEW s \in Stages, NEW m \in Machines,
           <<s, m>> \in touched[r]
    PROVE  pc[r] # "idle" /\ answer[r] # "refused"
<1>1. m \in At(r, s)
  BY DEF At
<1> QED BY <1>1 DEF OnePlace, HasOnePlace

\* Nginx is as the request that last decided has left it.
LEMMA DecidedNext ==
    ASSUME TypeOK, Requesting, Todo, Placing, OnePlace, Truth, Decided, Handing, [Next]_vars
    PROVE  Decided'
<1> SUFFICES ASSUME NEW m \in Machines
             PROVE  /\ ~running'[m] => last'[m] # None
                    /\ last'[m] # None =>
                          /\ action'[last'[m]] \in {"start", "stop", "restart"}
                          /\ <<"act", m>> \in touched'[last'[m]]
                          /\ ~running'[m] => action'[last'[m]] # "start"
                          /\ <<"act", m>> \in succeeded'[last'[m]]
                                => running'[m] = (action'[last'[m]] # "stop")
  BY DEF Decided
<1>1. ASSUME NEW r \in Requests, pc[r] # "idle", DecidedBy(r, m)
      PROVE  /\ last'[m] = r /\ r # None
             /\ action'[r] \in {"start", "stop", "restart"}
             /\ <<"act", m>> \in touched'[r]
             /\ ~running'[m] => action'[r] # "start"
             /\ <<"act", m>> \in succeeded'[r] => running'[m] = (action'[r] # "stop")
  BY <1>1, ActionStays, NamesAssumption DEF DecidedBy, Decides
<1>2. CASE Kept(m)
  <2>1. last[m] \in Requests \cup {None} /\ "act" \in Stages
    BY DEF TypeOK, Stages
  <2>2. CASE last[m] = None
    BY <1>2, <2>2 DEF Kept, Decided
  <2>3. CASE last[m] # None
    <3>1. last[m] \in Requests /\ <<"act", m>> \in touched[last[m]] /\ pc[last[m]] # "idle"
      BY <2>1, <2>3, TouchedArrived DEF Decided
    <3>2. action'[last[m]] = action[last[m]] /\ touched[last[m]] \subseteq touched'[last[m]]
      BY <3>1, ActionStays, EffectGrows
    <3>3. Decides(last[m], "act")
      BY <2>3 DEF Decided, Decides
    <3>4. <<"act", m>> \in succeeded'[last[m]] => <<"act", m>> \in succeeded[last[m]]
      BY <1>2, <3>1, <3>3 DEF Kept
    <3> QED BY <1>2, <2>3, <3>1, <3>2, <3>4 DEF Kept, Decided
  <2> QED BY <2>2, <2>3
<1>3. ASSUME NEW r \in Requests, RunLocal(r), DecidedBy(r, m)
      PROVE  pc[r] # "idle"
  BY <1>3 DEF RunLocal
<1>4. ASSUME NEW t \in Queued
      PROVE  t[1] \in Requests /\ pc[t[1]] # "idle"
  BY QueuedTask
<1> QED BY <1>1, <1>2, <1>3, <1>4, NginxStep

-----------------------------------------------------------------------------
(* The queue and the agents. *)

\* A step that no agent takes.
Quiet ==
    /\ UNCHANGED <<batch, good, ran>> /\ over \subseteq over'
    /\ \A a \in Agents : todo'[a] = todo[a]
    /\ \A t \in Tasks : /\ <<t[2], t[3]>> \in touched'[t[1]] => <<t[2], t[3]>> \in touched[t[1]]
                        /\ <<t[2], t[3]>> \in succeeded'[t[1]] => <<t[2], t[3]>> \in succeeded[t[1]]
    /\ rows' = rows \/ \E r \in Requests : Insert(r)

\* Only agents change what tasks have done, apart from insertions.
LEMMA AgentStep ==
    ASSUME TypeOK, Requesting, Todo, OnePlace, Handing, [Next]_vars
    PROVE  Quiet \/ \E a \in Agents : Poll(a) \/ RunRemote(a)
<1>1. ASSUME UNCHANGED <<todo, touched, succeeded, batch, good, ran, rows>>, over \subseteq over'
      PROVE  Quiet
  BY <1>1 DEF Quiet
<1>2. ASSUME NEW r \in Requests, RunLocal(r)
      PROVE  Quiet
  <2>1. PICK ok \in BOOLEAN : Ran(r, r, stage[r], Center, mode[r], ok)
    BY <1>2, LocalStep
  <2>2. PICK x : x = <<stage[r], Center>>
    OBVIOUS
  <2>3. /\ touched' = [touched EXCEPT ![r] = @ \cup {x}]
        /\ succeeded' = succeeded \/ succeeded' = [succeeded EXCEPT ![r] = @ \cup {x}]
    BY <2>1, <2>2 DEF Ran
  <2>4. \A t \in Tasks : <<t[2], t[3]>> # x /\ t[1] \in Requests
    BY <2>2, TaskShape, NamesAssumption
  <2>5. ASSUME NEW t \in Tasks
        PROVE  /\ <<t[2], t[3]>> \in touched'[t[1]] => <<t[2], t[3]>> \in touched[t[1]]
               /\ <<t[2], t[3]>> \in succeeded'[t[1]] => <<t[2], t[3]>> \in succeeded[t[1]]
    <3>1. PICK y, q : y = <<t[2], t[3]>> /\ q = t[1]
      OBVIOUS
    <3>2. q \in Requests /\ y # x
      BY <2>4, <3>1
    <3>3. touched'[q] \subseteq touched[q] \cup {x} /\ succeeded'[q] \subseteq succeeded[q] \cup {x}
      BY <2>3, <3>2 DEF TypeOK
    <3> QED BY <3>1, <3>2, <3>3
  <2>6. \A a \in Agents : todo'[a] = todo[a]
    BY <2>1, NamesAssumption DEF Ran
  <2>7. UNCHANGED <<batch, good, ran, rows, over>>
    BY <1>2 DEF RunLocal, agentVars
  <2> QED BY <2>5, <2>6, <2>7 DEF Quiet
<1>3. ASSUME NEW r \in Requests, RequestStep(r), ~RunLocal(r)
      PROVE  Quiet
  <2>1. CASE Insert(r)
    BY <2>1 DEF Insert, effectVars, Quiet
  <2>2. CASE InsertFails(r)
    BY <1>1, <2>2 DEF InsertFails, effectVars, agentVars, Channel!Refuse
  <2>3. CASE Reply(r)
    BY <1>1, <2>3 DEF Reply, effectVars, agentVars, Channel!Answer
  <2>4. CASE Expire(r)
    BY <1>1, <2>4 DEF Expire, effectVars, Channel!GiveUp
  <2>5. CASE ReadNode(r)
    BY <1>1, <2>5 DEF ReadNode, effectVars, agentVars, Channel!Open
  <2>6. CASE RequestStep(r) /\ UNCHANGED <<ran, agentVars, effectVars>>
    BY <1>1, <2>6 DEF effectVars, agentVars
  <2> QED BY <1>3, <2>1, <2>2, <2>3, <2>4, <2>5, <2>6
          DEF RequestStep, Arrive, ReadInstance, Refuse, Record, RecordFails
<1>4. ASSUME RegistryStep \/ UNCHANGED vars
      PROVE  Quiet
  <2>1. CASE RegistryStep
    BY <1>1, <2>1, EditStep DEF Edit, effectVars, agentVars
  <2>2. CASE UNCHANGED vars
    BY <1>1, <2>2 DEF vars, effectVars, agentVars
  <2> QED BY <1>4, <2>1, <2>2
<1> QED BY <1>2, <1>3, <1>4 DEF Next

\* Rows keep their places.
LEMMA RowsKept ==
    ASSUME TypeOK, rows' = rows \/ \E r \in Requests : Insert(r)
    PROVE  /\ DOMAIN rows \subseteq DOMAIN rows'
           /\ \A i \in DOMAIN rows : rows'[i] = rows[i]
           /\ \A i \in DOMAIN rows' \ DOMAIN rows :
                 /\ \A j \in DOMAIN rows : j < i
                 /\ \E r \in Requests : Insert(r) /\ rows'[i] = Task(r)
           /\ \A i \in DOMAIN rows' : \A j \in DOMAIN rows' \ DOMAIN rows : ~(j < i)
           /\ Queued \subseteq Queued'
           /\ \A t, u : Before(t, u) => Before(t, u)'
<1>1. CASE rows' = rows
  BY <1>1 DEF Queued, Before
<1>2. ASSUME NEW r \in Requests, Insert(r)
      PROVE  /\ DOMAIN rows \subseteq DOMAIN rows'
             /\ \A i \in DOMAIN rows : rows'[i] = rows[i]
             /\ \A i \in DOMAIN rows' \ DOMAIN rows :
                   /\ \A j \in DOMAIN rows : j < i
                   /\ Insert(r) /\ rows'[i] = Task(r)
             /\ \A i \in DOMAIN rows' : \A j \in DOMAIN rows' \ DOMAIN rows : ~(j < i)
  <2>1. PICK n, t : n = Len(rows) /\ t = Task(r)
    OBVIOUS
  <2>2. /\ rows \in Seq(Tasks) /\ rows' = Append(rows, t)
        /\ n \in Nat /\ DOMAIN rows = 1..n
    BY <1>2, <2>1 DEF Insert, TypeOK
  <2>3. /\ DOMAIN rows' = 1..(n + 1) /\ rows'[n + 1] = t
        /\ \A i \in 1..n : rows'[i] = rows[i]
    BY <2>1, <2>2
  <2>4. \A i \in DOMAIN rows' \ DOMAIN rows : i = n + 1
    BY <2>2, <2>3
  <2>5. \A i \in DOMAIN rows' : i <= n + 1 /\ i \in Nat
    BY <2>2, <2>3
  <2>6. \A j \in DOMAIN rows : j < n + 1 /\ j \in DOMAIN rows'
    BY <2>2, <2>3
  <2> QED BY <1>2, <2>1, <2>2, <2>3, <2>4, <2>5, <2>6
<1>3. CASE \E r \in Requests : Insert(r)
  <2>1. PICK r \in Requests : Insert(r)
    BY <1>3
  <2>2. /\ DOMAIN rows \subseteq DOMAIN rows' /\ \A i \in DOMAIN rows : rows'[i] = rows[i]
    BY <1>2, <2>1
  <2>3. \A t, u : Before(t, u) => Before(t, u)'
    BY <2>2 DEF Before
  <2> QED BY <1>2, <2>1, <2>2, <2>3 DEF Queued
<1> QED BY <1>1, <1>3

\* A task has one place in the queue.
LEMMA RowsInjective ==
    ASSUME TypeOK, NEW i \in DOMAIN rows, NEW j \in DOMAIN rows, rows[i] = rows[j]
    PROVE  i = j
  BY DEF TypeOK, IsInjective

\* The oldest task of an agent is one.
LEMMA OneFirst ==
    ASSUME TypeOK, Handing, NEW a \in Agents, NEW t, NEW u, First(a, t), First(a, u)
    PROVE  t = u
<1>1. t \in Queued /\ u \in Queued /\ ~Before(t, u) /\ ~Before(u, t)
  BY DEF First, Handing, Handed
<1>2. PICK i \in DOMAIN rows, j \in DOMAIN rows : rows[i] = t /\ rows[j] = u
  BY <1>1 DEF Queued
<1>3. i \in Nat /\ j \in Nat
  BY DEF TypeOK
<1>4. ~(i < j) /\ ~(j < i)
  BY <1>1, <1>2 DEF Before
<1> QED BY <1>2, <1>3, <1>4

\* An agent runs what it has been given, once.
LEMMA HandingNext ==
    ASSUME TypeOK, Requesting, Todo, Placing, OnePlace, Truth, Handing, Tracked, [Next]_vars
    PROVE  Handing'
<1> SUFFICES ASSUME NEW a \in Agents
             PROVE  Handed(a)'
  BY DEF Handing
<1>1. /\ Handed(a)
      /\ \A t \in Queued : t \in Tasks /\ t[1] \in Requests /\ action'[t[1]] = action[t[1]]
  BY QueuedTask, ActionStays DEF Handing
<1>2. CASE Quiet
  <2>1. /\ batch'[a] = batch[a] /\ good'[a] = good[a] /\ ran'[a] = ran[a] /\ over \subseteq over'
        /\ todo'[a] = todo[a]
    BY <1>2 DEF Quiet
  <2>2. Queued \subseteq Queued' /\ \A t, u : Before(t, u) => Before(t, u)'
    BY <1>2, RowsKept DEF Quiet
  <2>3. \A t \in Tasks :
          <<t[2], t[3]>> \in succeeded'[t[1]] <=> <<t[2], t[3]>> \in succeeded[t[1]]
    BY <1>2, TaskShape, EffectGrows DEF Quiet
  <2>4. good[a] \subseteq Tasks
    BY DEF TypeOK
  <2>5. \A t : First(a, t)' => First(a, t)
    BY <2>1, <2>2 DEF First
  <2> QED BY <1>1, <2>1, <2>2, <2>3, <2>4, <2>5 DEF Handed
<1>3. ASSUME NEW b \in Agents, Poll(b)
      PROVE  Handed(a)'
  <2>1. /\ UNCHANGED <<todo, succeeded, good, ran, rows>> /\ over \subseteq over'
        /\ Queued' = Queued /\ \A t, u : Before(t, u)' <=> Before(t, u)
    BY <1>3 DEF Poll, effectVars, Queued, Before
  <2>2. CASE a # b
    <3>1. batch'[a] = batch[a]
      BY <1>3, <2>2 DEF Poll, TypeOK
    <3> QED BY <1>1, <2>1, <3>1 DEF Handed, First
  <2>3. CASE a = b
    <3>1. PICK p \in DOMAIN rows :
            /\ batch'[a] = PendingUpTo(AgentNode[a], p)
            /\ over' = over \cup PendingUpTo(AgentNode[a], p)
      BY <1>3, <2>3 DEF Poll, TypeOK
    <3>2. \A t \in batch'[a] : t \in Queued /\ t[3] = AgentNode[a] /\ t \notin over
      BY <3>1 DEF PendingUpTo, Queued, TypeOK
    <3>3. batch[a] = {} /\ todo[a] = <<>>
      BY <1>1, <1>3, <2>3 DEF Poll, Handed
    <3>4. ASSUME NEW t \in batch'[a]
          PROVE  ran[a][t] = "no" /\ <<t[2], t[3]>> \notin succeeded[t[1]]
      BY <3>2, <1>1 DEF Handing, Handed, Tracked, Over
    <3>5. batch'[a] \subseteq Queued' \cap over'
      BY <2>1, <3>1, <3>2
    <3> QED BY <1>1, <2>1, <3>2, <3>3, <3>4, <3>5 DEF Handed
  <2> QED BY <2>2, <2>3
<1>4. ASSUME NEW b \in Agents, RunRemote(b)
      PROVE  Handed(a)'
  <2>1. PICK t \in Tasks, ok \in BOOLEAN :
          t \in Queued /\ t \in batch[b] /\ First(b, t) /\ RanTask(b, t, ok)
    BY <1>4, RemoteStep
  <2>2. /\ t = <<t[1], t[2], t[3]>> /\ t[1] \in Requests /\ t[2] \in Stages /\ t[3] = AgentNode[b]
        /\ \A u \in Tasks : u = <<u[1], u[2], u[3]>> /\ u[1] \in Requests
    BY <2>1, TaskShape DEF Handing, Handed
  <2>3. /\ UNCHANGED <<rows, over, action>>
        /\ Queued' = Queued /\ \A u, v : Before(u, v)' <=> Before(u, v)
    BY <2>1 DEF RanTask, requestVars, Queued, Before
  <2>4. PICK x : x = <<t[2], t[3]>>
    OBVIOUS
  <2>5. \/ succeeded' = [succeeded EXCEPT ![t[1]] = @ \cup {x}] /\ ok /\ todo'[b] = <<>>
        \/ succeeded' = succeeded /\ ~(ok /\ todo'[b] = <<>>)
    BY <2>1, <2>4 DEF RanTask, Ran
  <2>6. \A u \in Tasks : u # t /\ <<u[2], u[3]>> \in succeeded'[u[1]]
                            => <<u[2], u[3]>> \in succeeded[u[1]]
    <3> SUFFICES ASSUME NEW u \in Tasks, u # t, <<u[2], u[3]>> \in succeeded'[u[1]]
                 PROVE  <<u[2], u[3]>> \in succeeded[u[1]]
      OBVIOUS
    <3>1. PICK y, q : y = <<u[2], u[3]>> /\ q = u[1]
      OBVIOUS
    <3>2. q \in Requests /\ (q # t[1] \/ y # x)
      BY <2>2, <2>4, <3>1
    <3>3. y \in succeeded'[q] => y \in succeeded[q]
      BY <2>2, <2>5, <3>2 DEF TypeOK
    <3> QED BY <3>1, <3>3
  <2>7. \A u \in Tasks : <<u[2], u[3]>> \in succeeded[u[1]] => <<u[2], u[3]>> \in succeeded'[u[1]]
    BY <2>2, EffectGrows
  <2>8. /\ \A u \in Tasks : a # b \/ u # t => ran'[a][u] = ran[a][u]
        /\ batch[a] \subseteq Tasks /\ good[a] \subseteq Tasks
    BY <2>1 DEF RanTask, TypeOK
  <2>9. CASE a # b
    <3>0. todo'[a] = todo[a]
      BY <2>1, <2>9 DEF RanTask, Ran
    <3>1. batch'[a] = batch[a] /\ good'[a] = good[a] /\ todo'[a] = todo[a]
      <4>1. CASE UNCHANGED <<batch, good>>
        BY <3>0, <4>1
      <4>2. CASE /\ batch' = [batch EXCEPT ![b] = @ \ {t}]
                 /\ good' = [good EXCEPT ![b] = IF ok THEN @ \cup {t} ELSE @]
        BY <2>9, <3>0, <4>2 DEF TypeOK
      <4> QED BY <2>1, <4>1, <4>2 DEF RanTask
    <3>2. t \notin batch[a]
      <4>1. t \in batch[a] => t[3] = AgentNode[a]
        BY <1>1 DEF Handed
      <4>2. t[3] = AgentNode[b]
        BY <2>2
      <4> QED BY <2>9, <4>1, <4>2, AgentAssumption
    <3>3. \A u \in batch[a] : <<u[2], u[3]>> \notin succeeded'[u[1]]
      BY <1>1, <2>6, <2>8, <3>2 DEF Handed
    <3> QED BY <1>1, <2>3, <2>7, <2>8, <2>9, <3>1, <3>3 DEF Handed, First
  <2>10. CASE a = b /\ todo'[a] # <<>>
    <3>1. UNCHANGED <<batch, good, ran, succeeded>>
      BY <2>1, <2>5, <2>10 DEF RanTask
    <3>2. t[2] = "act" /\ action[t[1]] = "restart"
      BY <2>1, <2>10 DEF RanTask, Ran
    <3>3. \A u : First(a, u)' => u = t
      BY <2>1, <2>3, <2>10, <3>1, OneFirst DEF First
    <3> QED BY <1>1, <2>1, <2>3, <2>10, <3>1, <3>2, <3>3 DEF Handed
  <2>11. CASE a = b /\ todo'[a] = <<>>
    <3>1. /\ ran' = [ran EXCEPT ![a][t] = "ok"]
          /\ batch' = [batch EXCEPT ![a] = @ \ {t}]
          /\ good' = [good EXCEPT ![a] = IF ok THEN @ \cup {t} ELSE @]
      BY <2>1, <2>11 DEF RanTask
    <3>2. /\ batch'[a] = batch[a] \ {t} /\ good'[a] \subseteq good[a] \cup {t}
          /\ t \in good'[a] => ok \/ t \in good[a]
      BY <3>1 DEF TypeOK
    <3>3. ok => <<t[2], t[3]>> \in succeeded'[t[1]]
      BY <2>2, <2>4, <2>5, <2>11 DEF TypeOK
    <3>4. \A u \in batch'[a] : <<u[2], u[3]>> \notin succeeded'[u[1]] /\ ran'[a][u] = "no"
      BY <1>1, <2>6, <2>8, <3>2 DEF Handed
    <3>5. \A u \in good'[a] : <<u[2], u[3]>> \in succeeded'[u[1]]
      BY <1>1, <2>7, <2>8, <3>2, <3>3 DEF Handed
    <3>6. t \in Queued \cap over /\ t[3] = AgentNode[a]
      BY <1>1, <2>1, <2>11 DEF Handed
    <3> QED BY <1>1, <2>3, <2>8, <2>11, <3>2, <3>4, <3>5, <3>6 DEF Handed
  <2> QED BY <2>9, <2>10, <2>11
<1> QED BY <1>2, <1>3, <1>4, AgentStep

\* Every task that has touched a machine has been given to its agent, and every one
\* that has done what it was asked has been run to its end.
LEMMA TrackedNext ==
    ASSUME TypeOK, Requesting, Todo, Placing, OnePlace, Truth, Handing, Tracked, [Next]_vars
    PROVE  Tracked'
<1> SUFFICES ASSUME NEW t \in Queued'
             PROVE  /\ <<t[2], t[3]>> \in touched'[t[1]] => Given(t)'
                    /\ <<t[2], t[3]>> \in succeeded'[t[1]] => Over(t)'
  BY DEF Tracked
<1>1. CASE Quiet
  <2>1. ran' = ran /\ batch' = batch
    BY <1>1 DEF Quiet
  <2>2. CASE t \in Queued
    <3>1. t \in Tasks
      BY <2>2, QueuedTask
    <3> QED BY <1>1, <2>1, <2>2, <3>1 DEF Quiet, Tracked, Given, Over
  <2>3. ASSUME NEW r \in Requests, Insert(r), t = Task(r)
        PROVE  <<t[2], t[3]>> \notin touched'[t[1]] /\ <<t[2], t[3]>> \notin succeeded'[t[1]]
    <3>1. /\ t = <<r, stage[r], target[r]>> /\ target[r] \in Nodes /\ stage[r] \in Stages
          /\ t \in Tasks /\ target[r] \in Machines
      BY <2>3, NotQueuedYet DEF Insert, Machines
    <3>2. At(r, stage[r]) = {}
      BY <2>3 DEF Insert, OnePlace, HasOnePlace
    <3>3. <<stage[r], target[r]>> \notin touched[r] /\ succeeded[r] \subseteq touched[r]
      BY <3>1, <3>2 DEF At, Truth, Truthful
    <3>4. t[1] = r /\ t[2] = stage[r] /\ t[3] = target[r]
      BY <3>1
    <3> QED BY <1>1, <3>1, <3>3, <3>4 DEF Quiet
  <2>4. t \in Queued \/ \E r \in Requests : Insert(r) /\ t = Task(r)
    <3>1. CASE rows' = rows
      BY <3>1 DEF Queued
    <3>2. CASE \E r \in Requests : Insert(r)
      BY <3>2, InsertQueues
    <3> QED BY <1>1, <3>1, <3>2 DEF Quiet
  <2> QED BY <2>2, <2>3, <2>4
<1>2. ASSUME NEW b \in Agents, Poll(b)
      PROVE  /\ <<t[2], t[3]>> \in touched'[t[1]] => Given(t)'
             /\ <<t[2], t[3]>> \in succeeded'[t[1]] => Over(t)'
  <2>1. UNCHANGED <<touched, succeeded, ran, rows>> /\ t \in Queued
    BY <1>2 DEF Poll, effectVars, Queued
  <2>2. \A a \in Agents : batch[a] \subseteq batch'[a]
    BY <1>2 DEF Poll, TypeOK
  <2> QED BY <2>1, <2>2 DEF Tracked, Given, Over
<1>3. ASSUME NEW b \in Agents, RunRemote(b)
      PROVE  /\ <<t[2], t[3]>> \in touched'[t[1]] => Given(t)'
             /\ <<t[2], t[3]>> \in succeeded'[t[1]] => Over(t)'
  <2>1. PICK u \in Tasks, ok \in BOOLEAN :
          u \in Queued /\ u \in batch[b] /\ First(b, u) /\ RanTask(b, u, ok)
    BY <1>3, RemoteStep
  <2>2. t \in Queued /\ t \in Tasks /\ t[1] \in Requests /\ u[1] \in Requests
        /\ t = <<t[1], t[2], t[3]>> /\ u = <<u[1], u[2], u[3]>>
    <3>1. t \in Queued
      BY <2>1 DEF RanTask, Queued
    <3> QED BY <3>1, QueuedTask, TaskShape
  <2>3. PICK x, y : x = <<u[2], u[3]>> /\ y = <<t[2], t[3]>>
    OBVIOUS
  <2>4. /\ touched' = [touched EXCEPT ![u[1]] = @ \cup {x}]
        /\ \/ succeeded' = [succeeded EXCEPT ![u[1]] = @ \cup {x}] /\ todo'[b] = <<>>
           \/ succeeded' = succeeded
    BY <2>1, <2>3 DEF RanTask, Ran
  <2>5. y \in touched'[t[1]] => y \in touched[t[1]] \/ t = u
    BY <2>2, <2>3, <2>4 DEF TypeOK
  <2>6. y \in succeeded'[t[1]] => y \in succeeded[t[1]] \/ (t = u /\ todo'[b] = <<>>)
    <3>1. CASE succeeded' = succeeded
      BY <3>1
    <3>2. CASE succeeded' = [succeeded EXCEPT ![u[1]] = @ \cup {x}] /\ todo'[b] = <<>>
      BY <2>2, <2>3, <3>2 DEF TypeOK
    <3> QED BY <2>4, <3>1, <3>2
  <2>7. CASE todo'[b] = <<>>
    <3>1. ran' = [ran EXCEPT ![b][u] = "ok"] /\ batch' = [batch EXCEPT ![b] = @ \ {u}]
      BY <2>1, <2>7 DEF RanTask
    <3>2. /\ ran'[b][u] = "ok"
          /\ \A a \in Agents, v \in Tasks : ran[a][v] # "no" => ran'[a][v] # "no"
          /\ \A a \in Agents : batch[a] \subseteq batch'[a] \cup {u}
      BY <2>1, <3>1 DEF TypeOK
    <3> QED BY <2>2, <2>3, <2>5, <2>6, <3>2 DEF Tracked, Given, Over
  <2>8. CASE todo'[b] # <<>>
    <3>1. UNCHANGED <<ran, batch>>
      BY <2>1, <2>8 DEF RanTask
    <3> QED BY <2>1, <2>2, <2>3, <2>5, <2>6, <2>8, <3>1 DEF Tracked, Given, Over
  <2> QED BY <2>7, <2>8
<1> QED BY <1>1, <1>2, <1>3, AgentStep

\* A row that is not new has its place; a new one has touched nothing.
LEMMA BeforeStep ==
    ASSUME TypeOK, Requesting, Todo, Placing, OnePlace, Truth, Handing, [Next]_vars,
           NEW t \in Queued', NEW u \in Queued', Before(t, u)'
    PROVE  \/ t \in Queued /\ u \in Queued /\ Before(t, u)
           \/ /\ ~Given(u)' /\ ~Over(u)' /\ Quiet
              /\ <<u[2], u[3]>> \notin succeeded'[u[1]]
<1>1. PICK i \in DOMAIN rows', j \in DOMAIN rows' : i < j /\ rows'[i] = t /\ rows'[j] = u
  BY DEF Before
<1>2. CASE rows' = rows
  BY <1>2 DEF Before, Queued
<1>3. ASSUME Quiet, NEW r \in Requests, Insert(r), u = Task(r)
      PROVE  ~Given(u)' /\ ~Over(u)' /\ <<u[2], u[3]>> \notin succeeded'[u[1]]
  <2>1. /\ u = <<r, stage[r], target[r]>> /\ target[r] \in Nodes /\ stage[r] \in Stages
        /\ u \in Tasks /\ target[r] \in Machines /\ u \notin Queued
    BY <1>3, NotQueuedYet DEF Insert, Machines
  <2>2. At(r, stage[r]) = {}
    BY <1>3 DEF Insert, OnePlace, HasOnePlace
  <2>3. <<stage[r], target[r]>> \notin touched[r] /\ succeeded[r] \subseteq touched[r]
    BY <2>1, <2>2 DEF At, Truth, Truthful
  <2>4. u[1] = r /\ u[2] = stage[r] /\ u[3] = target[r]
    BY <2>1
  <2>5. <<u[2], u[3]>> \notin succeeded'[u[1]]
    BY <1>3, <2>1, <2>3, <2>4 DEF Quiet
  <2>6. ~Given(u)
    BY <2>1 DEF Given, Handing, Handed
  <2>7. ran' = ran /\ batch' = batch
    BY <1>3 DEF Quiet
  <2> QED BY <2>5, <2>6, <2>7 DEF Given, Over
<1>4. CASE Quiet /\ j \notin DOMAIN rows
  <2>1. PICK r \in Requests : Insert(r) /\ u = Task(r)
    BY <1>1, <1>4, RowsKept DEF Quiet
  <2> QED BY <1>3, <1>4, <2>1
<1>5. CASE Quiet /\ j \in DOMAIN rows
  <2>1. i \in DOMAIN rows
    <3>1. i \in DOMAIN rows' \ DOMAIN rows => j < i
      BY <1>5, RowsKept DEF Quiet
    <3>2. i \in Nat /\ j \in Nat
      <4>1. rows \in Seq(Tasks) /\ rows' \in Seq(Tasks)
        BY TypeNext DEF TypeOK
      <4> QED BY <1>1, <4>1
    <3> QED BY <1>1, <3>1, <3>2
  <2>2. rows[i] = t /\ rows[j] = u
    BY <1>1, <1>5, <2>1, RowsKept DEF Quiet
  <2> QED BY <1>1, <1>5, <2>1, <2>2 DEF Before, Queued
<1>6. ASSUME NEW a \in Agents, Poll(a) \/ RunRemote(a)
      PROVE  rows' = rows
  <2>1. CASE Poll(a)
    BY <2>1 DEF Poll
  <2>2. CASE RunRemote(a)
    BY <2>2, RemoteStep DEF RanTask
  <2> QED BY <1>6, <2>1, <2>2
<1> QED BY <1>2, <1>4, <1>5, <1>6, AgentStep

\* Two tasks of a node stay in their order.
LEMMA InOrderNext ==
    ASSUME TypeOK, Requesting, Todo, Placing, OnePlace, Truth, Handing, Tracked, Fifo,
           [Next]_vars, NEW t \in Queued, NEW u \in Queued, Before(t, u), t[3] = u[3]
    PROVE  InOrder(t, u)'
<1>1. InOrder(t, u) /\ t \in Tasks /\ u \in Tasks
  BY QueuedTask DEF Fifo
<1>2. CASE Quiet
  BY <1>1, <1>2 DEF Quiet, InOrder, Given, Over
<1>3. ASSUME NEW b \in Agents, Poll(b)
      PROVE  InOrder(t, u)'
  <2>1. PICK p \in DOMAIN rows :
          /\ batch' = [batch EXCEPT ![b] = PendingUpTo(AgentNode[b], p)]
          /\ over' = over \cup PendingUpTo(AgentNode[b], p)
    BY <1>3 DEF Poll
  <2>2. ran' = ran
    BY <1>3 DEF Poll
  <2>3. PICK i \in DOMAIN rows, j \in DOMAIN rows : i < j /\ rows[i] = t /\ rows[j] = u
    BY DEF Before
  <2>4. u \in PendingUpTo(AgentNode[b], p) => t \in over'
    <3> SUFFICES ASSUME u \in PendingUpTo(AgentNode[b], p)
                 PROVE  t \in over'
      OBVIOUS
    <3>1. PICK k \in 1..p : rows[k] = u /\ u[3] = AgentNode[b]
      BY DEF PendingUpTo
    <3>2. rows \in Seq(Tasks) /\ p \in 1..Len(rows) /\ Len(rows) \in Nat /\ DOMAIN rows = 1..Len(rows)
      BY DEF TypeOK
    <3>3. k \in DOMAIN rows
      BY <3>2
    <3>4. k = j
      BY <2>3, <3>1, <3>3, RowsInjective
    <3>5. i \in 1..p
      BY <2>3, <3>2, <3>4
    <3>6. t \in over \/ t \in PendingUpTo(AgentNode[b], p)
      BY <2>3, <3>1, <3>5 DEF PendingUpTo
    <3> QED BY <2>1, <3>6
  <2>5. Given(u)' => t \in over'
    <3>1. Given(u)' => Given(u) \/ u \in PendingUpTo(AgentNode[b], p)
      BY <2>1, <2>2 DEF Given, TypeOK
    <3> QED BY <1>1, <2>1, <2>4, <3>1 DEF InOrder
  <2>6. Over(u)' => \A a \in Agents : t \notin batch'[a]
    <3>1. Over(u)' => Over(u) /\ t \in over
      BY <1>1, <2>2 DEF Over, InOrder, Given
    <3>2. t \in over => t \notin PendingUpTo(AgentNode[b], p)
      BY DEF PendingUpTo
    <3> QED BY <1>1, <2>1, <3>1, <3>2 DEF InOrder, TypeOK
  <2> QED BY <2>5, <2>6 DEF InOrder
<1>4. ASSUME NEW b \in Agents, RunRemote(b)
      PROVE  InOrder(t, u)'
  <2>1. PICK v \in Tasks, ok \in BOOLEAN :
          v \in Queued /\ v \in batch[b] /\ First(b, v) /\ RanTask(b, v, ok)
    BY <1>4, RemoteStep
  <2>2. over' = over
    BY <2>1 DEF RanTask
  <2>3. CASE UNCHANGED <<ran, batch>>
    BY <1>1, <2>2, <2>3 DEF InOrder, Given, Over
  <2>4. CASE ran' = [ran EXCEPT ![b][v] = "ok"] /\ batch' = [batch EXCEPT ![b] = @ \ {v}]
    <3>1. /\ \A a \in Agents : batch'[a] \subseteq batch[a]
          /\ \A a \in Agents : u # v \/ a # b => ran'[a][u] = ran[a][u]
      BY <1>1, <2>4 DEF TypeOK
    <3>2. Given(u)' => Given(u)
      <4>1. u = v => Given(u)
        BY <2>1 DEF Given
      <4> QED BY <3>1, <4>1 DEF Given
    <3>3. Over(u)' => Over(u) \/ u = v
      BY <3>1 DEF Over
    <3>4. ASSUME u = v, NEW a \in Agents
          PROVE  t \notin batch[a]
      <4>1. t \in batch[a] => t[3] = AgentNode[a]
        BY DEF Handing, Handed
      <4>2. u[3] = AgentNode[b]
        BY <2>1, <3>4 DEF Handing, Handed
      <4>3. t \in batch[a] => a = b
        BY <4>1, <4>2, AgentAssumption
      <4>4. t \notin batch[b]
        BY <2>1, <3>4 DEF First
      <4> QED BY <4>3, <4>4
    <3> QED BY <1>1, <2>2, <3>1, <3>2, <3>3, <3>4 DEF InOrder
  <2> QED BY <2>1, <2>3, <2>4 DEF RanTask
<1> QED BY <1>2, <1>3, <1>4, AgentStep

\* An older task does not undo a newer one.
LEMMA StandsNext ==
    ASSUME TypeOK, Requesting, Todo, Placing, OnePlace, Truth, Handing, Tracked, Fifo,
           [Next]_vars, NEW t \in Queued, NEW u \in Queued, Before(t, u), t[3] = u[3]
    PROVE  Stands(t, u)'
<1>1. /\ InOrder(t, u) /\ Stands(t, u)
      /\ t \in Tasks /\ u \in Tasks /\ t[1] \in Requests /\ u[1] \in Requests
      /\ u[3] \in Machines /\ u[3] # Center
      /\ action'[t[1]] = action[t[1]] /\ action'[u[1]] = action[u[1]]
  BY QueuedTask, ActionStays DEF Fifo
<1> SUFFICES ASSUME t[1] # u[1], u[2] = "act", Decides(u[1], "act"),
                    <<u[2], u[3]>> \in succeeded'[u[1]], last'[u[3]] = t[1]
             PROVE  FALSE
  BY <1>1 DEF Stands, Decides
<1>2. CASE Kept(u[3])
  BY <1>1, <1>2 DEF Kept, Stands
<1>3. ASSUME NEW a \in Agents, NEW v \in Queued, RunRemote(a), First(a, v), v[2] = "act",
             v[3] = u[3], DecidedBy(v[1], u[3])
      PROVE  FALSE
  <2>1. v[1] = t[1] /\ v = <<v[1], v[2], v[3]>> /\ t = <<t[1], t[2], t[3]>> /\ t[2] \in Stages
    BY <1>1, <1>3, QueuedTask, TaskShape DEF DecidedBy
  <2>2. CASE t[2] = "act"
    <3>1. t = v
      BY <1>3, <2>1, <2>2
    <3>2. ~Over(u)
      BY <1>1, <1>3, <3>1 DEF InOrder, First
    <3>3. <<u[2], u[3]>> \notin succeeded[u[1]]
      BY <3>2 DEF Tracked
    <3>4. PICK w \in Tasks, ok \in BOOLEAN : w \in Queued /\ First(a, w) /\ RanTask(a, w, ok)
      BY <1>3, RemoteStep
    <3>5. w = v
      BY <1>3, <3>4, OneFirst
    <3>6. succeeded'[u[1]] = succeeded[u[1]]
      BY <1>1, <2>1, <3>4, <3>5 DEF RanTask, Ran, TypeOK
    <3> QED BY <3>3, <3>6
  <2>3. CASE t[2] = "test"
    <3>1. action[t[1]] \notin {"test", "reload"}
      BY <1>3, <2>1 DEF DecidedBy, Decides
    <3>2. At(t[1], "test") = {}
      BY <1>1, <3>1 DEF OnePlace, HasOnePlace
    <3> QED BY <2>3, <3>2, QueuedTask
  <2> QED BY <2>1, <2>2, <2>3 DEF Stages
<1> QED BY <1>1, <1>2, <1>3, NginxStep

\* The tasks of a node keep their order, and the newest has the last word.
LEMMA FifoNext ==
    ASSUME TypeOK, Requesting, Todo, Placing, OnePlace, Truth, Handing, Tracked, Fifo,
           [Next]_vars
    PROVE  Fifo'
<1> SUFFICES ASSUME NEW t \in Queued', NEW u \in Queued', Before(t, u)', t[3] = u[3]
             PROVE  InOrder(t, u)' /\ Stands(t, u)'
  BY DEF Fifo
<1>1. CASE t \in Queued /\ u \in Queued /\ Before(t, u)
  BY <1>1, InOrderNext, StandsNext
<1>2. CASE ~Given(u)' /\ ~Over(u)' /\ <<u[2], u[3]>> \notin succeeded'[u[1]]
  BY <1>2 DEF InOrder, Stands
<1> QED BY <1>1, <1>2, BeforeStep

-----------------------------------------------------------------------------
(* The theorems. *)

\* The invariant holds at the start.
LEMMA InitIInv == Init => IInv
<1> SUFFICES ASSUME Init
             PROVE  IInv
  OBVIOUS
<1>1. /\ instance \in InstanceRows /\ nodes = [n \in Nodes |-> "agent"]
      /\ rows = <<>> /\ over = {}
      /\ call = [t \in Tasks |-> "idle"] /\ ran = [a \in Agents |-> [t \in Tasks |-> "no"]]
  BY DEF Init, Channel!Init
<1>2. Queued = {} /\ rows \in Seq(Tasks) /\ IsInjective(rows) /\ \A t, u : ~Before(t, u)
  BY <1>1 DEF Queued, Before, IsInjective
<1>3. CurrentRegistry \in Registry
  <2>1. nodes \in [Nodes -> NodeStates]
    BY <1>1 DEF NodeStates
  <2> QED BY <1>1, <2>1 DEF CurrentRegistry, Registry
<1>4. /\ todo \in [Requests \cup Agents -> Seq(Verbs)]
      /\ \A w \in Requests \cup Agents : Len(todo[w]) <= 1 /\ todo[w] = <<>>
  <2>1. <<>> \in Seq(Verbs) /\ Len(<<>>) = 0
    OBVIOUS
  <2> QED BY <2>1 DEF Init
<1>5. TypeOK
  BY <1>1, <1>2, <1>3, <1>4, BoundsAssumption DEF Init, TypeOK, Stages, Outcomes, Machines
<1>6. Requesting
  BY DEF Init, Requesting
<1>7. Todo
  BY <1>4 DEF Todo
<1>8. \A r \in Requests, s \in Stages : At(r, s) = {}
  BY <1>2 DEF Init, At
<1>9. Placing
  BY <1>8 DEF Init, Placing, Placed
<1>10. OnePlace
  <2>1. \A r \in Requests : /\ stage[r] = "act" /\ pc[r] = "idle"
                             /\ \A s \in Stages : At(r, s) = {}
    BY <1>8 DEF Init
  <2>2. \A r \in Requests : At(r, stage[r]) = {} /\ At(r, "act") = {} /\ At(r, "test") = {}
    BY <2>1 DEF Stages
  <2> QED BY <2>1, <2>2 DEF OnePlace, HasOnePlace
<1>11. Truth
  BY DEF Init, Truth, Truthful, Stages
<1>12. Decided
  BY DEF Init, Decided
<1>13. Handing
  BY <1>1, <1>4 DEF Init, Handing, Handed
<1>14. Tracked /\ Fifo
  BY <1>2 DEF Tracked, Fifo
<1> QED BY <1>5, <1>6, <1>7, <1>9, <1>10, <1>11, <1>12, <1>13, <1>14 DEF IInv

\* Every step keeps the invariant.
LEMMA NextIInv == IInv /\ [Next]_vars => IInv'
  BY TypeNext, RequestingNext, TodoNext, PlacingNext, OnePlaceNext, TruthNext, DecidedNext,
     HandingNext, TrackedNext, FifoNext DEF IInv

\* IInv is an invariant.
THEOREM OperationsInvariance == Spec => []IInv
<1>1. Init => IInv
  BY InitIInv
<1>2. IInv /\ [Next]_vars => IInv'
  BY NextIInv
<1> QED BY <1>1, <1>2, PTL DEF Spec

\* The types, and that no command is queued twice.
THEOREM OperationsTyping == Spec => []TypeOK
<1>1. IInv => TypeOK
  BY DEF IInv
<1> QED BY <1>1, OperationsInvariance, PTL

\* Nothing runs on a machine that the registry has ruled out all along.
THEOREM NothingOnDisabled == Spec => []DisabledUntouched
<1>1. IInv => DisabledUntouched
  <2> SUFFICES ASSUME IInv, NEW r \in Requests, NEW x \in touched[r]
               PROVE  \E g, h \in seen[r] : x[2] \in Resolves(g, h)
    BY DEF DisabledUntouched
  <2>1. x \in Stages \X Machines
    BY DEF IInv, TypeOK
  <2>2. x = <<x[1], x[2]>> /\ x[1] \in Stages /\ x[2] \in Machines
    BY <2>1
  <2>3. x[2] \in At(r, x[1])
    BY <2>2 DEF At
  <2>4. At(r, x[1]) \subseteq Allowed(r)
    BY <2>2 DEF IInv, Placing, Placed
  <2> QED BY <2>3, <2>4 DEF Allowed
<1> QED BY <1>1, OperationsInvariance, PTL

\* A record says what has happened, and a stage has one machine.
THEOREM RecordsAreTrue == Spec => []RecordsTrue
<1>1. IInv => RecordsTrue
  <2> SUFFICES ASSUME IInv, NEW r \in Requests, NEW s \in Stages
               PROVE  /\ record[r][s] = "success" /\ action[r] # "refresh"
                         => \E m \in Machines : <<s, m>> \in succeeded[r]
                      /\ record[r][s] = "failed" => <<s, Center>> \notin succeeded[r]
                      /\ answer[r] = "success" /\ action[r] # "status"
                         => record[r][stage[r]] = "success"
                      /\ \A x, y \in touched[r] : x[1] = y[1] => x = y
    BY DEF RecordsTrue
  <2>1. ASSUME NEW x \in touched[r], NEW y \in touched[r], x[1] = y[1]
        PROVE  x = y
    <3>1. x \in Stages \X Machines /\ y \in Stages \X Machines
      BY DEF IInv, TypeOK
    <3>2. /\ x = <<x[1], x[2]>> /\ x[1] \in Stages /\ x[2] \in Machines
          /\ y = <<y[1], y[2]>> /\ y[2] \in Machines
      BY <3>1
    <3>3. x[2] \in At(r, x[1]) /\ y[2] \in At(r, x[1])
      BY <2>1, <3>2 DEF At
    <3>4. x[2] = y[2]
      BY <3>2, <3>3 DEF IInv, OnePlace, HasOnePlace
    <3> QED BY <2>1, <3>2, <3>4
  <2>2. Truthful(r)
    BY DEF IInv, Truth
  <2> QED BY <2>1, <2>2 DEF Truthful
<1> QED BY <1>1, OperationsInvariance, PTL

\* The place of a stage that is recorded as a success.
LEMMA RecordedPlace ==
    ASSUME IInv, NEW r \in Requests, NEW m \in Machines, m \in At(r, "act"),
           record[r]["act"] = "success", action[r] # "refresh"
    PROVE  <<"act", m>> \in succeeded[r]
<1>1. PICK n \in Machines : <<"act", n>> \in succeeded[r]
  BY DEF IInv, Truth, Truthful, Stages
<1>2. n \in At(r, "act")
  BY <1>1 DEF At, IInv, Truth, Truthful
<1>3. n = m
  BY <1>2 DEF IInv, OnePlace, HasOnePlace, Stages
<1> QED BY <1>1, <1>3

\* Nginx is down only after a confirmed stop or restart, and stays as the last
\* recorded success has left it.
THEOREM LastWordStands == Spec => []LastWord
<1>1. IInv => LastWord
  <2> SUFFICES ASSUME IInv, NEW m \in Machines
               PROVE  /\ ~running[m] =>
                           /\ last[m] # None /\ action[last[m]] \in {"stop", "restart"}
                           /\ action[last[m]] \in ConfirmActions => confirmed[last[m]]
                      /\ last[m] # None /\ record[last[m]]["act"] = "success"
                           => running[m] = (action[last[m]] # "stop")
    BY DEF LastWord
  <2>1. CASE last[m] = None
    BY <2>1 DEF IInv, Decided
  <2>2. CASE last[m] # None
    <3>1. /\ last[m] \in Requests /\ action[last[m]] \in {"start", "stop", "restart"}
          /\ <<"act", m>> \in touched[last[m]]
          /\ ~running[m] => action[last[m]] # "start"
          /\ <<"act", m>> \in succeeded[last[m]] => running[m] = (action[last[m]] # "stop")
      BY <2>2 DEF IInv, Decided, TypeOK
    <3>2. ConfirmOk(action[last[m]], confirmed[last[m]])
      BY <3>1, TouchedArrived DEF IInv, Requesting, Stages
    <3>3. record[last[m]]["act"] = "success" => <<"act", m>> \in succeeded[last[m]]
      BY <3>1, RecordedPlace DEF At
    <3> QED BY <2>2, <3>1, <3>2, <3>3 DEF ConfirmOk
  <2> QED BY <2>1, <2>2
<1> QED BY <1>1, OperationsInvariance, PTL

\* A command that was queued first does not undo a later one that is recorded.
THEOREM NewestOfQueueStands == Spec => []NewestStands
<1>1. IInv => NewestStands
  <2> SUFFICES ASSUME IInv, NEW i \in DOMAIN rows, NEW j \in DOMAIN rows, NEW t, NEW u,
                      t = rows[i], u = rows[j], i < j, t[3] = u[3], t[1] # u[1],
                      u[2] = "act", action[u[1]] \in {"start", "stop", "restart"},
                      record[u[1]]["act"] = "success"
               PROVE  last[u[3]] # t[1]
    BY DEF NewestStands
  <2>1. t \in Queued /\ u \in Queued /\ Before(t, u)
    BY DEF Queued, Before
  <2>2. u[1] \in Requests /\ u[3] \in Machines /\ u[3] \in At(u[1], "act")
    BY <2>1, QueuedTask DEF IInv
  <2>3. <<"act", u[3]>> \in succeeded[u[1]]
    BY <2>2, RecordedPlace
  <2>4. Stands(t, u)
    BY <2>1 DEF IInv, Fifo
  <2> QED BY <2>3, <2>4 DEF Stands, Decides
<1> QED BY <1>1, OperationsInvariance, PTL

\* A reload runs after a passed test, on the machine of the test unless the registry
\* has changed.
THEOREM ReloadsAreTested == Spec => []ReloadTested
<1>1. IInv => ReloadTested
  <2> SUFFICES ASSUME IInv, NEW r \in Requests, NEW m \in Machines,
                      action[r] = "reload", <<"act", m>> \in touched[r]
               PROVE  /\ \E n \in Machines : <<"test", n>> \in succeeded[r]
                      /\ (\A g, h \in seen[r] : g = h) => <<"test", m>> \in succeeded[r]
    BY DEF ReloadTested
  <2>1. m \in At(r, "act")
    BY DEF At
  <2>2. stage[r] = "act"
    BY <2>1 DEF IInv, OnePlace, HasOnePlace, TypeOK, Stages
  <2>3. PICK n \in Machines : <<"test", n>> \in succeeded[r]
    BY <2>2 DEF IInv, Truth, Truthful
  <2>4. n \in At(r, "test")
    BY <2>3 DEF At, IInv, Truth, Truthful
  <2>5. m \in Allowed(r) /\ n \in Allowed(r)
    BY <2>1, <2>4 DEF IInv, Placing, Placed, Stages
  <2>6. \A g, h : \A x, y \in Resolves(g, h) : x = y
    BY DEF Resolves
  <2>7. (\A g, h \in seen[r] : g = h) => m = n
    BY <2>5, <2>6 DEF Allowed
  <2> QED BY <2>3, <2>7
<1> QED BY <1>1, OperationsInvariance, PTL

-----------------------------------------------------------------------------
(* The order of the queue. *)

\* A request that is about to insert its task has an open call.
Opened == \A r \in Requests : pc[r] = "insert" => call[Task(r)] = "open"

\* The calls of a request change only by a step of its own.
LEMMA OthersCalls ==
    ASSUME TypeOK, Requesting, Todo, OnePlace, Handing, [Next]_vars, NEW r \in Requests,
           NEW t \in Tasks, t[1] = r
    PROVE  call'[t] = call[t] \/ RequestStep(r)
<1>1. ASSUME NEW q \in Requests, RequestStep(q), q # r
      PROVE  call'[t] = call[t]
  <2>1. /\ Task(q) # t /\ <<q, stage[q], target[q]>> # t
        /\ call \in [Tasks -> {"idle", "open", "ok", "failed", "timeout", "error", "lost"}]
    BY <1>1 DEF Task, TypeOK
  <2> QED BY <1>1, <2>1 DEF RequestStep, Arrive, ReadInstance, ReadNode, RunLocal, Refuse,
          Insert, InsertFails, Reply, Expire, Record, RecordFails, Channel!Open,
          Channel!Refuse, Channel!Answer, Channel!GiveUp
<1>2. ASSUME NEW a \in Agents, Poll(a) \/ RunRemote(a) PROVE call' = call
  BY <1>2, RemoteStep DEF Poll, RanTask
<1>3. CASE RegistryStep
  BY <1>3, EditStep DEF Edit
<1>4. CASE UNCHANGED vars
  BY <1>4 DEF vars
<1> QED BY <1>1, <1>2, <1>3, <1>4 DEF Next

\* Dispatch opens its call before it inserts the row.
LEMMA OpenedNext == IInv /\ Opened /\ [Next]_vars => Opened'
<1> SUFFICES ASSUME IInv, Opened, [Next]_vars, NEW r \in Requests, pc'[r] = "insert"
             PROVE  call'[Task(r)'] = "open"
  BY DEF Opened
<1>0. TypeOK /\ Requesting /\ Todo /\ Placing /\ OnePlace /\ Handing
  BY DEF IInv
<1>1. CASE RequestStep(r)
  <2>1. ASSUME NEW o, Settle(r, o) PROVE FALSE
    BY <1>0, <2>1 DEF Settle, Return, Goto, TypeOK
  <2>2. ReadNode(r)
    <3>1. CASE \E act \in Actions, c \in BOOLEAN : Arrive(r, act, c)
      BY <1>0, <3>1 DEF Arrive, Return, Goto, TypeOK
    <3>2. CASE ReadInstance(r)
      BY <1>0, <3>2 DEF ReadInstance, Return, Goto, TypeOK
    <3>3. CASE RunLocal(r)
      BY <1>0, <2>1, <3>3 DEF RunLocal, TypeOK
    <3>4. CASE Refuse(r) \/ RecordFails(r)
      BY <1>0, <3>4 DEF Refuse, RecordFails, Return, Goto, TypeOK
    <3>5. CASE Insert(r)
      BY <1>0, <3>5 DEF Insert, Goto, TypeOK
    <3>6. CASE InsertFails(r) \/ Reply(r) \/ Expire(r)
      BY <2>1, <3>6 DEF InsertFails, Reply, Expire
    <3>7. CASE Record(r)
      BY <1>0, <3>7 DEF Record, Return, Goto, TypeOK
    <3> QED BY <1>1, <3>1, <3>2, <3>3, <3>4, <3>5, <3>6, <3>7 DEF RequestStep
  <2>3. /\ target[r] \in Nodes /\ stage[r] \in Stages
        /\ <<r, stage[r], target[r]>> \in Tasks
    BY <1>0, <2>2, TaskShape DEF ReadNode, Placing, Placed, TypeOK
  <2>4. /\ Channel!Open(<<r, stage[r], target[r]>>)
        /\ UNCHANGED <<stage, target>>
    BY <1>0, <2>2 DEF ReadNode, Return, Goto, TypeOK
  <2> QED BY <1>0, <2>3, <2>4 DEF Channel!Open, Task, TypeOK
<1>2. CASE ~RequestStep(r)
  <2>1. Stays(r)
    BY <1>0, <1>2, OthersStay
  <2>2. pc[r] = "insert" /\ Task(r)' = Task(r)
    BY <2>1 DEF Stays, Task
  <2>3. Task(r) \in Tasks /\ Task(r)[1] = r
    BY <1>0, <2>2, NotQueuedYet
  <2>4. call'[Task(r)] = call[Task(r)]
    BY <1>0, <1>2, <2>3, OthersCalls
  <2> QED BY <2>2, <2>4 DEF Opened
<1> QED BY <1>1, <1>2

\* The number of a task is its place in the queue.
Numbered ==
    /\ \A t \in Tasks : Place[t] \in 0..Len(rows) /\ (Place[t] = 0 <=> t \notin Queued)
    /\ \A i \in DOMAIN rows : Place[rows[i]] = i
LEMMA PlacesNumbered == TypeOK => Numbered
<1> SUFFICES ASSUME TypeOK PROVE Numbered
  OBVIOUS
<1>1. /\ rows \in Seq(Tasks) /\ Len(rows) \in Nat /\ DOMAIN rows = 1..Len(rows)
      /\ IsInjective(rows)
  BY DEF TypeOK
<1>2. ASSUME NEW i \in DOMAIN rows PROVE Place[rows[i]] = i
  <2>1. rows[i] \in Tasks
    BY <1>1
  <2>2. \A j \in DOMAIN rows : rows[j] = rows[i] => j = i
    BY <1>1 DEF IsInjective
  <2> QED BY <2>1, <2>2 DEF Place
<1>3. ASSUME NEW t \in Tasks, t \notin Queued PROVE Place[t] = 0
  BY <1>3 DEF Place, Queued
<1>4. ASSUME NEW t \in Queued PROVE \E i \in DOMAIN rows : t = rows[i] /\ Place[t] = i
  BY <1>2 DEF Queued
<1>5. ASSUME NEW t \in Tasks
      PROVE  Place[t] \in 0..Len(rows) /\ (Place[t] = 0 <=> t \notin Queued)
  <2>1. CASE t \in Queued
    BY <1>1, <1>4, <2>1
  <2>2. CASE t \notin Queued
    BY <1>1, <1>3, <2>2
  <2> QED BY <2>1, <2>2
<1> QED BY <1>2, <1>5 DEF Numbered

\* The same of the next state.
LEMMA NextNumbered == TypeOK' => Numbered'
  BY PlacesNumbered, PTL

\* A row that is inserted comes last.
LEMMA InsertPlaces ==
    ASSUME TypeOK, TypeOK', Opened, OnePlace, Placing, NEW r \in Requests, Insert(r)
    PROVE  Channel!Insert(Task(r)) /\ Task(r) \in Tasks
<1> DEFINE t == Task(r)
<1>1. pc[r] = "insert" /\ rows' = Append(rows, t) /\ UNCHANGED <<call, ran>>
  BY DEF Insert
<1>2. t \in Tasks /\ t \notin Queued /\ call[t] = "open"
  BY <1>1, NotQueuedYet DEF Opened
<1>3. Numbered /\ Numbered'
  BY PlacesNumbered, NextNumbered
<1>4. Queued' = Queued \cup {t}
  BY InsertQueues
<1>5. /\ Len(rows) \in Nat /\ DOMAIN rows = 1..Len(rows)
      /\ DOMAIN rows' = 1..(Len(rows) + 1) /\ Len(rows') = Len(rows) + 1
      /\ rows'[Len(rows) + 1] = t
      /\ \A i \in 1..Len(rows) : rows'[i] = rows[i]
  <2>1. rows \in Seq(Tasks)
    BY DEF TypeOK
  <2> QED BY <1>1, <2>1
<1> HIDE DEF t
<1>6. Place'[t] = Len(rows) + 1
  BY <1>3, <1>5 DEF Numbered
<1>7. \A u \in Tasks : Place[u] < Place'[t]
  BY <1>3, <1>5, <1>6 DEF Numbered
<1>8. ASSUME NEW u \in Tasks \ {t} PROVE Place'[u] = Place[u]
  <2>1. CASE u \in Queued
    <3>1. PICK i \in DOMAIN rows : rows[i] = u
      BY <2>1 DEF Queued
    <3>2. i \in DOMAIN rows' /\ rows'[i] = u
      BY <1>5, <3>1
    <3> QED BY <1>3, <3>1, <3>2 DEF Numbered
  <2>2. CASE u \notin Queued
    BY <1>3, <1>4, <2>2 DEF Numbered
  <2> QED BY <2>1, <2>2
<1>9. Place' \in [Tasks -> Nat]
  <2>1. \A u \in Tasks : Place'[u] \in Nat
    BY <1>3, <1>5 DEF Numbered
  <2> QED BY <2>1 DEF Place
<1>10. Place[t] = 0
  BY <1>2, <1>3 DEF Numbered
<1>11. Channel!Insert(t)
  BY <1>1, <1>2, <1>7, <1>8, <1>9, <1>10 DEF Channel!Insert, Channel!callVars
<1> QED BY <1>2, <1>11 DEF t

\* An agent that finishes the oldest task it has been given keeps the order.
LEMMA RunPlaces ==
    ASSUME IInv, NEW a \in Agents, NEW t \in batch[a], Channel!Run(a, t, "ok")
    PROVE  t \in Tasks /\ Channel!RunInOrder(a, t, "ok")
<1>0. TypeOK /\ Handing /\ Fifo
  BY DEF IInv
<1>1. t \in Queued /\ t \in Tasks /\ t[3] = AgentNode[a] /\ ran[a][t] = "no"
  BY <1>0 DEF Handing, Handed, TypeOK
<1>2. Numbered
  BY <1>0, PlacesNumbered
<1>3. ASSUME NEW u \in Tasks, ran[a][u] # "no" PROVE Place[u] < Place[t]
  <2>1. u \in Queued /\ u[3] = t[3] /\ u # t
    BY <1>0, <1>1, <1>3 DEF Handing, Handed
  <2>2. Over(u)
    BY <1>3 DEF Over
  <2>3. ~Before(t, u)
    BY <1>0, <1>1, <2>1, <2>2 DEF Fifo, InOrder
  <2>4. PICK i \in DOMAIN rows : rows[i] = u
    BY <2>1 DEF Queued
  <2>5. PICK j \in DOMAIN rows : rows[j] = t
    BY <1>1 DEF Queued
  <2>6. ~(j < i) /\ i # j
    BY <2>1, <2>3, <2>4, <2>5 DEF Before
  <2>7. i \in Nat /\ j \in Nat
    BY <1>0, <2>4, <2>5 DEF TypeOK
  <2>8. Place[u] = i /\ Place[t] = j
    BY <1>2, <2>4, <2>5 DEF Numbered
  <2> QED BY <2>6, <2>7, <2>8
<1>4. Place[t] > 0
  BY <1>0, <1>1, <1>2 DEF Numbered, TypeOK
<1> QED BY <1>1, <1>3, <1>4 DEF Channel!RunInOrder

\* A step of a request is one of the queue or leaves it alone.
LEMMA RequestQueued ==
    ASSUME IInv, IInv', Opened, NEW r \in Requests, RequestStep(r)
    PROVE  [Channel!QueueNext]_(Channel!queueVars)
<1>0. TypeOK /\ TypeOK' /\ Placing /\ OnePlace
  BY DEF IInv
<1>1. ASSUME UNCHANGED rows PROVE UNCHANGED Place
  BY <1>1 DEF Place
<1>2. ASSUME UNCHANGED <<call, ran, rows>>
      PROVE  [Channel!QueueNext]_(Channel!queueVars)
  BY <1>1, <1>2 DEF Channel!queueVars, Channel!callVars
<1>3. CASE Insert(r)
  BY <1>0, <1>3, InsertPlaces DEF Channel!QueueNext
<1>4. CASE InsertFails(r)
  <2>1. /\ pc[r] = "insert" /\ Channel!Refuse(Task(r)) /\ UNCHANGED Place
    BY <1>1, <1>4 DEF InsertFails, agentVars
  <2>2. Task(r) \in Tasks /\ Place[Task(r)] = 0
    BY <1>0, <2>1, NotQueuedYet, PlacesNumbered DEF Numbered
  <2> QED BY <2>1, <2>2 DEF Channel!RefuseUnqueued, Channel!CallNext, Channel!QueueNext
<1>5. CASE ReadNode(r)
  <2>1. CASE UNCHANGED <<call, ran>>
    BY <1>2, <1>5, <2>1 DEF ReadNode, agentVars
  <2>2. CASE Channel!Open(<<r, stage[r], target[r]>>)
    <3>1. <<r, stage[r], target[r]>> \in Tasks
      BY <1>0, <1>5, TaskShape DEF ReadNode, Placing, Placed, TypeOK
    <3>2. UNCHANGED Place
      BY <1>1, <1>5 DEF ReadNode, agentVars
    <3> QED BY <2>2, <3>1, <3>2 DEF Channel!CallNext, Channel!QueueNext
  <2> QED BY <1>5, <2>1, <2>2 DEF ReadNode
<1>6. CASE Reply(r) \/ Expire(r)
  <2>1. pc[r] = "wait" /\ UNCHANGED Place
    BY <1>1, <1>6 DEF Reply, Expire, agentVars
  <2>2. Channel!Answer(Task(r), "ok") \/ Channel!GiveUp(Task(r))
    BY <1>6 DEF Reply, Expire
  <2>3. Task(r) \in Tasks
    BY <1>0, <2>1, TaskShape DEF Task, Placing, Placed, TypeOK
  <2> QED BY <2>1, <2>2, <2>3 DEF Channel!CallNext, Channel!QueueNext
<1>7. CASE UNCHANGED <<call, ran, rows>>
  BY <1>2, <1>7
<1> QED BY <1>3, <1>4, <1>5, <1>6, <1>7 DEF RequestStep, Arrive, ReadInstance, RunLocal,
        Refuse, Record, RecordFails, agentVars

\* Every step is one of the queue or leaves it alone.
LEMMA NextQueued ==
    IInv /\ IInv' /\ Opened /\ [Next]_vars => [Channel!QueueNext]_(Channel!queueVars)
<1> SUFFICES ASSUME IInv, IInv', Opened, [Next]_vars
             PROVE  [Channel!QueueNext]_(Channel!queueVars)
  OBVIOUS
<1>1. ASSUME UNCHANGED rows PROVE UNCHANGED Place
  BY <1>1 DEF Place
<1>2. ASSUME UNCHANGED <<call, ran, rows>>
      PROVE  [Channel!QueueNext]_(Channel!queueVars)
  BY <1>1, <1>2 DEF Channel!queueVars, Channel!callVars
<1>3. ASSUME NEW a \in Agents, RunRemote(a)
      PROVE  [Channel!QueueNext]_(Channel!queueVars)
  <2>1. PICK t \in batch[a] : UNCHANGED <<call, ran>> \/ Channel!Run(a, t, "ok")
    BY <1>3 DEF RunRemote
  <2>2. UNCHANGED rows
    BY <1>3 DEF RunRemote
  <2>3. CASE UNCHANGED <<call, ran>>
    BY <1>2, <2>2, <2>3
  <2>4. CASE Channel!Run(a, t, "ok")
    BY <1>1, <2>2, <2>4, RunPlaces DEF Channel!CallNext, Channel!QueueNext
  <2> QED BY <2>1, <2>3, <2>4
<1>4. ASSUME NEW a \in Agents, Poll(a) PROVE UNCHANGED <<call, ran, rows>>
  BY <1>4 DEF Poll
<1>5. CASE RegistryStep
  <2>1. TypeOK
    BY DEF IInv
  <2> QED BY <1>2, <1>5, <2>1, EditStep DEF Edit, agentVars
<1>6. CASE UNCHANGED vars
  BY <1>2, <1>6 DEF vars, agentVars
<1> QED BY <1>2, <1>3, <1>4, <1>5, <1>6, RequestQueued DEF Next

\* Requests and agents keep to the promised queue: rows that are given up, rows
\* whose timeout is not stored and nodes that are disabled and enabled again never
\* bring an older task after a newer one (Dispatch, Poll, the loop of main).
THEOREM OperationsQueue == Spec => KeepsTaskQueue
<1>1. Init => Opened
  BY DEF Init, Opened
<1>2. Spec => []Opened
  BY <1>1, OpenedNext, OperationsInvariance, PTL DEF Spec
<1>3. Init => Channel!QueueInit
  <2>1. ASSUME Init PROVE Place = [t \in Tasks |-> 0]
    BY <2>1 DEF Init, Place
  <2> QED BY <2>1 DEF Init, Channel!QueueInit
<1> QED BY <1>2, <1>3, NextQueued, OperationsInvariance, PTL
        DEF Spec, KeepsTaskQueue, Channel!QueueSpec
=============================================================================
