-------------------------- MODULE AgentTasksProofs --------------------------
(* Proofs about AgentTasks, for any tasks, agents, nodes and fault budget. *)
EXTENDS AgentTasks, TLAPS

-----------------------------------------------------------------------------
(* Type correctness. *)

\* The types hold at the start.
LEMMA TypeInit == Init => TypeOK
  BY PollLimitAssumption, MaxFaultsAssumption, SMT
  DEF Init, TypeOK, Statuses, Unfinished, Completed, InDispatch

\* A step of Dispatch keeps the types.
LEMMA TypeDispatch ==
    ASSUME TypeOK, NEW t \in Tasks, DispatchStep(t)
    PROVE  TypeOK'
<1> USE MaxFaultsAssumption
    DEF TypeOK, Statuses, Unfinished, Completed, InDispatch, Fault, Return,
        rowVars, callerVars, pollVars, completeVars, agentVars
<1>1. CASE Register(t)
  BY <1>1 DEF Register
<1>2. CASE Create(t)
  BY <1>2 DEF Create
<1>3. CASE CreateFails(t)
  BY <1>3 DEF CreateFails
<1>4. CASE Receive(t)
  BY <1>4 DEF Receive, Decode
<1>5. CASE Tick(t)
  BY <1>5 DEF Tick, Decode
<1>6. CASE TimerFires(t)
  BY <1>6 DEF TimerFires
<1>7. CASE Expire(t)
  BY <1>7 DEF Expire
<1>8. CASE ExpireFails(t)
  BY <1>8 DEF ExpireFails
<1> QED BY <1>1, <1>2, <1>3, <1>4, <1>5, <1>6, <1>7, <1>8 DEF DispatchStep

\* A step of a poll handler keeps the types.
LEMMA TypePoll ==
    ASSUME TypeOK, NEW p \in Polls, PollStep(p)
    PROVE  TypeOK'
<1> USE MaxFaultsAssumption
    DEF TypeOK, Statuses, Unfinished, Completed, InDispatch, Fault, EndPoll,
        rowVars, callerVars, pollVars, completeVars, agentVars
<1>1. CASE ResolveNode(p)
  BY <1>1 DEF ResolveNode
<1>2. CASE SelectPending(p)
  BY <1>2 DEF SelectPending
<1>3. CASE ReplyPoll(p)
  <2>1. CASE waitsOn[pollBy[p]] = p
    <3>1. envelopes[p] \in SUBSET Tasks
      OBVIOUS
    <3>2. batch' \in [Agents -> SUBSET Tasks]
      <4>1. batch' = [batch EXCEPT ![pollBy[p]] = envelopes[p]]
        BY <1>3, <2>1 DEF ReplyPoll
      <4> HIDE DEF TypeOK
      <4>2. batch \in [Agents -> SUBSET Tasks]
        BY DEF TypeOK
      <4> QED BY <3>1, <4>1, <4>2
    <3>3. waitsOn' \in [Agents -> Polls \cup {None}]
      BY <1>3, <2>1 DEF ReplyPoll
    <3> QED BY <1>3, <2>1, <3>2, <3>3 DEF ReplyPoll
  <2>2. CASE waitsOn[pollBy[p]] # p
    BY <1>3, <2>2 DEF ReplyPoll
  <2> QED BY <2>1, <2>2
<1>4. CASE PollFails(p)
  BY <1>4 DEF PollFails
<1>5. CASE \E t \in Tasks : MarkDispatched(p, t)
  BY <1>5 DEF MarkDispatched
<1> QED BY <1>1, <1>2, <1>3, <1>4, <1>5 DEF PollStep

\* A step of an agent keeps the types.
LEMMA TypeAgent ==
    ASSUME TypeOK, NEW a \in Agents, AgentStep(a)
    PROVE  TypeOK'
<1> USE MaxFaultsAssumption
    DEF TypeOK, Statuses, Unfinished, Completed, InDispatch, Fault,
        rowVars, callerVars, pollVars, completeVars, agentVars
<1>1. CASE \E p \in Polls : StartPoll(a, p)
  BY <1>1 DEF StartPoll
<1>2. CASE AbandonPoll(a)
  BY <1>2 DEF AbandonPoll
<1>3. CASE LoseComplete(a)
  BY <1>3 DEF LoseComplete
<1>4. CASE AgentCrash(a)
  BY <1>4 DEF AgentCrash
<1>5. CASE \E t \in Tasks : PostComplete(a, t)
  BY <1>5 DEF PostComplete
<1>6. CASE \E t \in Tasks, r \in {"ok", "failed"} : Execute(a, t, r)
  BY <1>6 DEF Execute
<1> QED BY <1>1, <1>2, <1>3, <1>4, <1>5, <1>6 DEF AgentStep

\* A row is read back only after a report was stored in it, so what is read
\* is a completion: the type of reread rests on RunAndReport.
LEMMA TypeComplete ==
    ASSUME TypeOK, RunAndReport, NEW a \in Agents, NEW t \in Tasks, CompleteStep(a, t)
    PROVE  TypeOK'
<1> USE MaxFaultsAssumption
    DEF TypeOK, Statuses, Unfinished, Completed, InDispatch, Fault,
        rowVars, callerVars, pollVars, completeVars, agentVars
<1>1. CASE StoreResult(a, t)
  BY <1>1 DEF StoreResult, Reported
<1>2. CASE RereadTask(a, t)
  BY <1>2 DEF RereadTask, RunAndReport
<1>3. CASE NotifyWaiter(a, t)
  <2>1. reread[a][t] \in Completed
    BY <1>3 DEF NotifyWaiter, RunAndReport, Produced, Reported
  <2> QED BY <1>3, <2>1 DEF NotifyWaiter
<1>4. CASE CompleteFails(a, t)
  BY <1>4 DEF CompleteFails
<1> QED BY <1>1, <1>2, <1>3, <1>4 DEF CompleteStep

\* A restart keeps the types.
LEMMA TypeCrash ==
    ASSUME TypeOK, CenterCrash
    PROVE  TypeOK'
  BY MaxFaultsAssumption
  DEF CenterCrash, TypeOK, Statuses, Unfinished, Completed, InDispatch, Fault,
      rowVars, agentVars

-----------------------------------------------------------------------------
(* The inductive invariant, one lemma per kind of step. *)

\* A handler with rows in hand serves an agent.
LEMMA PollClient ==
    ASSUME TypeOK, PollShape, NEW q \in Polls, todo[q] # {} \/ envelopes[q] # {}
    PROVE  pollBy[q] \in Agents
<1>1. pollBy[q] # None
  BY DEF PollShape
<1> QED BY <1>1 DEF TypeOK

\* Reports of a task stay true if what they rest on stays and a changed
\* status is not a completion.
LEMMA ReportsFrame ==
    ASSUME TypeOK, TypeOK', ReportsAreTrue,
           \A u \in Tasks, s \in Completed : Produced(u, s) => Produced(u, s)',
           \A u \in Tasks : status[u] \in Completed \/ status'[u] \in Completed
                               => status'[u] = status[u],
           \A u \in Tasks : channel'[u] \in {channel[u], "empty"},
           \A u \in Tasks : answer'[u] \in {"ok", "failed"} => answer'[u] = answer[u]
    PROVE  ReportsAreTrue'
<1> SUFFICES ASSUME NEW u \in Tasks PROVE ReportTrue(u)'
  BY DEF ReportsAreTrue
<1>1. (status[u] \in Completed => Produced(u, status[u]))'
  BY DEF ReportsAreTrue, ReportTrue
<1>2. (channel[u] # "empty" => status[u] \in Completed /\ Produced(u, channel[u]))'
  BY DEF ReportsAreTrue, ReportTrue, TypeOK
<1>3. (answer[u] \in {"ok", "failed"} =>
          status[u] \in Completed /\ Produced(u, Reported(answer[u])))'
  BY DEF ReportsAreTrue, ReportTrue, Reported, Completed
<1> QED BY <1>1, <1>2, <1>3 DEF ReportTrue

\* A step of Dispatch keeps the invariant.
LEMMA DispatchKeeps ==
    ASSUME BaseInv, NEW t \in Tasks, DispatchStep(t)
    PROVE  BaseInv'
<1> USE DEF Unfinished, Completed, InDispatch, Fault, Return, EndPoll,
        rowVars, callerVars, pollVars, completeVars, agentVars
<1>1. TypeOK /\ TypeOK'
  BY TypeDispatch DEF BaseInv
<1>2. CASE Register(t)
  <2>1. IdsInOrder' /\ PollShape' /\ SelectedRows' /\ HandedOut' /\ RunAndReport' /\ ReportsAreTrue' /\ QueueInOrder'
    BY <1>2 DEF BaseInv, Register, IdsInOrder, PollShape, SelectedRows, HandedOut, RunAndReport, ReportsAreTrue, QueueInOrder, ReportTrue, Produced
  <2>2. CallAndRow'
    BY <1>1, <1>2 DEF BaseInv, TypeOK, Register, CallAndRow
  <2> QED BY <1>1, <2>1, <2>2 DEF BaseInv
<1>3. CASE Create(t)
  <2>1. PollShape'
    BY <1>3 DEF BaseInv, Create, PollShape
  <2>2. CallAndRow'
    BY <1>1, <1>3 DEF BaseInv, TypeOK, Create, CallAndRow
  <2>3. IdsInOrder'
    BY <1>1, <1>3 DEF BaseInv, TypeOK, Create, IdsInOrder
  <2>4. SelectedRows'
    BY <1>1, <1>3 DEF BaseInv, TypeOK, Create, SelectedRows, CallAndRow, IdsInOrder
  <2>5. HandedOut'
    BY <1>1, <1>3 DEF BaseInv, TypeOK, Create, HandedOut, CallAndRow
  <2>6. RunAndReport'
    BY <1>1, <1>3 DEF BaseInv, TypeOK, Create, RunAndReport, Produced, CallAndRow
  <2>7. ReportsAreTrue'
    BY <1>1, <1>3 DEF BaseInv, TypeOK, Create, ReportsAreTrue, ReportTrue, Produced, CallAndRow
  <2>8. QueueInOrder'
    BY <1>1, <1>3 DEF BaseInv, TypeOK, Create, QueueInOrder, CallAndRow, IdsInOrder
  <2> QED BY <1>1, <2>1, <2>2, <2>3, <2>4, <2>5, <2>6, <2>7, <2>8 DEF BaseInv
<1>4. CASE CreateFails(t)
  <2>1. IdsInOrder' /\ PollShape' /\ SelectedRows' /\ HandedOut' /\ RunAndReport' /\ QueueInOrder'
    BY <1>4 DEF BaseInv, CreateFails, IdsInOrder, PollShape, SelectedRows, HandedOut, RunAndReport, QueueInOrder, Produced
  <2>2. CallAndRow'
    BY <1>1, <1>4 DEF BaseInv, TypeOK, CreateFails, CallAndRow
  <2>3. ReportsAreTrue'
    BY <1>1, <1>4 DEF BaseInv, TypeOK, CreateFails, ReportsAreTrue, ReportTrue, Produced
  <2> QED BY <1>1, <2>1, <2>2, <2>3 DEF BaseInv
<1>5. CASE Receive(t)
  <2>1. IdsInOrder' /\ PollShape' /\ SelectedRows' /\ HandedOut' /\ RunAndReport' /\ QueueInOrder'
    BY <1>5 DEF BaseInv, Receive, IdsInOrder, PollShape, SelectedRows, HandedOut, RunAndReport, QueueInOrder, Produced
  <2>2. CallAndRow'
    BY <1>1, <1>5 DEF BaseInv, TypeOK, Receive, CallAndRow, Decode
  <2>3. ReportsAreTrue'
    <3>1. \A u \in Tasks, s \in Completed : Produced(u, s) => Produced(u, s)'
      BY <1>5 DEF Receive, Produced
    <3> QED BY <1>1, <1>5, <3>1 DEF BaseInv, TypeOK, Receive, ReportsAreTrue, ReportTrue, Decode, Reported, Statuses
  <2> QED BY <1>1, <2>1, <2>2, <2>3 DEF BaseInv
<1>6. CASE Tick(t)
  <2>1. IdsInOrder' /\ PollShape' /\ SelectedRows' /\ HandedOut' /\ RunAndReport' /\ QueueInOrder'
    BY <1>6 DEF BaseInv, Tick, IdsInOrder, PollShape, SelectedRows, HandedOut, RunAndReport, QueueInOrder, Produced
  <2>2. CallAndRow'
    BY <1>1, <1>6 DEF BaseInv, TypeOK, Tick, CallAndRow, Decode
  <2>3. ReportsAreTrue'
    <3>1. \A u \in Tasks, s \in Completed : Produced(u, s) => Produced(u, s)'
      BY <1>6 DEF Tick, Produced
    <3> QED BY <1>1, <1>6, <3>1 DEF BaseInv, TypeOK, Tick, ReportsAreTrue, ReportTrue, Decode, Reported, CallAndRow, Statuses
  <2> QED BY <1>1, <2>1, <2>2, <2>3 DEF BaseInv
<1>7. CASE TimerFires(t)
  <2>1. IdsInOrder' /\ PollShape' /\ SelectedRows' /\ HandedOut' /\ RunAndReport' /\ ReportsAreTrue' /\ QueueInOrder'
    BY <1>7 DEF BaseInv, TimerFires, IdsInOrder, PollShape, SelectedRows, HandedOut, RunAndReport, ReportsAreTrue, QueueInOrder, ReportTrue, Produced
  <2>2. CallAndRow'
    BY <1>1, <1>7 DEF BaseInv, TypeOK, TimerFires, CallAndRow
  <2> QED BY <1>1, <2>1, <2>2 DEF BaseInv
<1>8. CASE Expire(t)
  <2>1. PollShape'
    BY <1>8 DEF BaseInv, Expire, PollShape
  <2>2. CallAndRow'
    BY <1>1, <1>8 DEF BaseInv, TypeOK, Expire, CallAndRow
  <2>3. IdsInOrder'
    BY <1>1, <1>8 DEF BaseInv, TypeOK, Expire, IdsInOrder
  <2>4. SelectedRows'
    BY <1>1, <1>8 DEF BaseInv, TypeOK, Expire, SelectedRows
  <2>5. HandedOut'
    BY <1>1, <1>8 DEF BaseInv, TypeOK, Expire, HandedOut
  <2>6. RunAndReport'
    BY <1>1, <1>8 DEF BaseInv, TypeOK, Expire, RunAndReport, Produced
  <2>7. ReportsAreTrue'
    <3>1. \A u \in Tasks, s \in Completed : Produced(u, s) => Produced(u, s)'
      BY <1>8 DEF Expire, Produced
    <3>2. \A u \in Tasks : status[u] \in Completed \/ status'[u] \in Completed => status'[u] = status[u]
      BY <1>1, <1>8 DEF TypeOK, Expire
    <3>3. \A u \in Tasks : answer'[u] \in {"ok", "failed"} => answer'[u] = answer[u]
      BY <1>1, <1>8 DEF TypeOK, Expire
    <3>4. channel' = channel
      BY <1>8 DEF Expire
    <3> QED BY <1>1, <3>1, <3>2, <3>3, <3>4, ReportsFrame DEF BaseInv
  <2>8. QueueInOrder'
    BY <1>1, <1>8 DEF BaseInv, TypeOK, Expire, QueueInOrder
  <2> QED BY <1>1, <2>1, <2>2, <2>3, <2>4, <2>5, <2>6, <2>7, <2>8 DEF BaseInv
<1>9. CASE ExpireFails(t)
  <2>1. IdsInOrder' /\ PollShape' /\ SelectedRows' /\ HandedOut' /\ RunAndReport' /\ QueueInOrder'
    BY <1>9 DEF BaseInv, ExpireFails, IdsInOrder, PollShape, SelectedRows, HandedOut, RunAndReport, QueueInOrder, Produced
  <2>2. CallAndRow'
    BY <1>1, <1>9 DEF BaseInv, TypeOK, ExpireFails, CallAndRow
  <2>3. ReportsAreTrue'
    BY <1>1, <1>9 DEF BaseInv, TypeOK, ExpireFails, ReportsAreTrue, ReportTrue, Produced
  <2> QED BY <1>1, <2>1, <2>2, <2>3 DEF BaseInv
<1> QED BY <1>2, <1>3, <1>4, <1>5, <1>6, <1>7, <1>8, <1>9 DEF DispatchStep

\* A step of a poll handler keeps the invariant.
LEMMA PollKeeps ==
    ASSUME BaseInv, NEW p \in Polls, PollStep(p)
    PROVE  BaseInv'
<1> USE DEF Unfinished, Completed, InDispatch, Fault, Return, EndPoll,
        rowVars, callerVars, pollVars, completeVars, agentVars
<1>1. TypeOK /\ TypeOK'
  BY TypePoll DEF BaseInv
<1>2. CASE ResolveNode(p)
  <2>1. CallAndRow' /\ IdsInOrder' /\ SelectedRows' /\ HandedOut' /\ RunAndReport' /\ ReportsAreTrue' /\ QueueInOrder'
    BY <1>2 DEF BaseInv, ResolveNode, CallAndRow, IdsInOrder, SelectedRows, HandedOut, RunAndReport, ReportsAreTrue, QueueInOrder, ReportTrue, Produced
  <2>2. PollShape'
    BY <1>1, <1>2 DEF BaseInv, TypeOK, ResolveNode, PollShape
  <2> QED BY <1>1, <2>1, <2>2 DEF BaseInv
<1>3. CASE SelectPending(p)
  <2>1. CallAndRow' /\ IdsInOrder' /\ HandedOut' /\ RunAndReport' /\ ReportsAreTrue' /\ QueueInOrder'
    BY <1>3 DEF BaseInv, SelectPending, CallAndRow, IdsInOrder, HandedOut, RunAndReport, ReportsAreTrue, QueueInOrder, ReportTrue, Produced
  <2>2. PollShape'
    BY <1>1, <1>3 DEF BaseInv, TypeOK, SelectPending, PollShape
  <2>3. SelectedRows'
    BY <1>1, <1>3 DEF BaseInv, TypeOK, SelectPending, SelectedRows, PendingOf, IsOldest, PollShape, HandedOut, RunAndReport
  <2> QED BY <1>1, <2>1, <2>2, <2>3 DEF BaseInv
<1>4. CASE ReplyPoll(p)
  <2>1. CallAndRow' /\ IdsInOrder' /\ RunAndReport' /\ ReportsAreTrue' /\ QueueInOrder'
    BY <1>4 DEF BaseInv, ReplyPoll, CallAndRow, IdsInOrder, RunAndReport, ReportsAreTrue, QueueInOrder, ReportTrue, Produced
  <2>2. PollShape'
    BY <1>1, <1>4 DEF BaseInv, TypeOK, ReplyPoll, PollShape
  <2>3. SelectedRows'
    BY <1>1, <1>4, NoneAssumption DEF BaseInv, TypeOK, ReplyPoll, SelectedRows, PollShape
  <2>4. HandedOut'
    BY <1>1, <1>4, NoneAssumption DEF BaseInv, TypeOK, ReplyPoll, HandedOut, PollShape
  <2> QED BY <1>1, <2>1, <2>2, <2>3, <2>4 DEF BaseInv
<1>5. CASE PollFails(p)
  <2>1. CallAndRow' /\ IdsInOrder' /\ RunAndReport' /\ ReportsAreTrue' /\ QueueInOrder'
    BY <1>5 DEF BaseInv, PollFails, CallAndRow, IdsInOrder, RunAndReport, ReportsAreTrue, QueueInOrder, ReportTrue, Produced
  <2>2. PollShape'
    BY <1>1, <1>5 DEF BaseInv, TypeOK, PollFails, PollShape
  <2>3. SelectedRows'
    <3>1. todo'[p] = {} /\ \A q \in Polls : q # p => todo'[q] = todo[q] /\ pollBy'[q] = pollBy[q]
      BY <1>1, <1>5 DEF TypeOK, PollFails
    <3>2. \A b \in Agents, q \in Polls : waitsOn'[b] = q => waitsOn[b] = q
      BY <1>1, <1>5, NoneAssumption DEF TypeOK, PollFails
    <3>3. \A q \in Polls : todo[q] # {} => pollBy[q] \in Agents
      BY <1>1, PollClient DEF BaseInv
    <3>4. UNCHANGED <<status, rowId, runs>>
      BY <1>5 DEF PollFails
    <3> QED BY <3>1, <3>2, <3>3, <3>4 DEF BaseInv, SelectedRows
  <2>4. HandedOut'
    <3>1. envelopes'[p] = {} /\ \A q \in Polls : q # p => envelopes'[q] = envelopes[q] /\ pollBy'[q] = pollBy[q]
      BY <1>1, <1>5 DEF TypeOK, PollFails
    <3>2. \A b \in Agents, q \in Polls : waitsOn'[b] = q => waitsOn[b] = q
      BY <1>1, <1>5, NoneAssumption DEF TypeOK, PollFails
    <3>3. \A q \in Polls : envelopes[q] # {} => pollBy[q] \in Agents
      BY <1>1, PollClient DEF BaseInv
    <3>4. UNCHANGED <<status, runs, batch>>
      BY <1>5 DEF PollFails
    <3> QED BY <3>1, <3>2, <3>3, <3>4 DEF BaseInv, HandedOut
  <2> QED BY <1>1, <2>1, <2>2, <2>3, <2>4 DEF BaseInv
<1>6. CASE \E t \in Tasks : MarkDispatched(p, t)
  <2>1. CallAndRow'
    BY <1>1, <1>6 DEF BaseInv, TypeOK, MarkDispatched, CallAndRow
  <2>2. IdsInOrder'
    BY <1>1, <1>6 DEF BaseInv, TypeOK, MarkDispatched, IdsInOrder
  <2>3. PollShape'
    BY <1>1, <1>6 DEF BaseInv, TypeOK, MarkDispatched, PollShape
  <2>4. SelectedRows'
    BY <1>1, <1>6 DEF BaseInv, TypeOK, MarkDispatched, SelectedRows
  <2>5. HandedOut'
    BY <1>1, <1>6 DEF BaseInv, TypeOK, MarkDispatched, HandedOut, SelectedRows
  <2>6. RunAndReport'
    BY <1>1, <1>6 DEF BaseInv, TypeOK, MarkDispatched, RunAndReport, Produced
  <2>7. ReportsAreTrue'
    <3>1. \A u \in Tasks, s \in Completed : Produced(u, s) => Produced(u, s)'
      BY <1>6 DEF MarkDispatched, Produced
    <3>2. \A u \in Tasks : status[u] \in Completed \/ status'[u] \in Completed => status'[u] = status[u]
      BY <1>1, <1>6 DEF TypeOK, MarkDispatched
    <3>3. \A u \in Tasks : answer'[u] \in {"ok", "failed"} => answer'[u] = answer[u]
      BY <1>1, <1>6 DEF TypeOK, MarkDispatched
    <3>4. channel' = channel
      BY <1>6 DEF MarkDispatched
    <3> QED BY <1>1, <3>1, <3>2, <3>3, <3>4, ReportsFrame DEF BaseInv
  <2>8. QueueInOrder'
    <3>1. PICK t \in Tasks : MarkDispatched(p, t)
      BY <1>6
    <3>2. \A u \in Tasks : u # t => status'[u] = status[u]
      BY <1>1, <3>1 DEF TypeOK, MarkDispatched
    <3>3. status'[t] # "pending"
      BY <1>1, <3>1 DEF TypeOK, MarkDispatched
    <3>4. ASSUME NEW u \in Tasks, status[u] = "pending", TaskNode[u] = TaskNode[t], u # t
          PROVE  rowId[t] < rowId[u]
      <4>1. CASE u \in todo[p]
        <5>1. rowId[t] =< rowId[u]
          BY <3>1, <4>1 DEF MarkDispatched
        <5>2. t \in todo[p] /\ status[t] # "absent"
          BY <3>1 DEF BaseInv, MarkDispatched, SelectedRows
        <5>3. rowId[t] # rowId[u]
          BY <3>4, <5>2 DEF BaseInv, IdsInOrder
        <5>4. rowId[t] \in Nat /\ rowId[u] \in Nat
          BY <1>1 DEF TypeOK
        <5> QED BY <5>1, <5>3, <5>4
      <4>2. CASE u \notin todo[p]
        BY <3>1, <3>4, <4>2 DEF BaseInv, MarkDispatched, SelectedRows
      <4> QED BY <4>1, <4>2
    <3>5. rowId' = rowId
      BY <3>1 DEF MarkDispatched
    <3> QED BY <1>1, <3>2, <3>3, <3>4, <3>5 DEF BaseInv, TypeOK, QueueInOrder
  <2> QED BY <1>1, <2>1, <2>2, <2>3, <2>4, <2>5, <2>6, <2>7, <2>8 DEF BaseInv
<1> QED BY <1>2, <1>3, <1>4, <1>5, <1>6 DEF PollStep

\* A step of an agent keeps the invariant.
LEMMA AgentKeeps ==
    ASSUME BaseInv, NEW a \in Agents, AgentStep(a)
    PROVE  BaseInv'
<1> USE DEF Unfinished, Completed, InDispatch, Fault, Return, EndPoll,
        rowVars, callerVars, pollVars, completeVars, agentVars
<1>1. TypeOK /\ TypeOK'
  BY TypeAgent DEF BaseInv
<1>2. CASE \E p \in Polls : StartPoll(a, p)
  <2>1. CallAndRow' /\ IdsInOrder' /\ RunAndReport' /\ ReportsAreTrue' /\ QueueInOrder'
    BY <1>2 DEF BaseInv, StartPoll, CallAndRow, IdsInOrder, RunAndReport, ReportsAreTrue, QueueInOrder, ReportTrue, Produced
  <2>2. PollShape'
    BY <1>1, <1>2, NoneAssumption DEF BaseInv, TypeOK, StartPoll, PollShape
  <2>3. SelectedRows'
    <3>1. PICK p \in Polls : StartPoll(a, p)
      BY <1>2
    <3>2. todo[p] = {}
      BY <3>1 DEF BaseInv, StartPoll, PollShape
    <3>3. \A q \in Polls : q # p => pollBy'[q] = pollBy[q]
      BY <1>1, <3>1 DEF TypeOK, StartPoll
    <3>4. \A b \in Agents, q \in Polls : q # p /\ waitsOn'[b] = q => waitsOn[b] = q
      BY <1>1, <3>1 DEF TypeOK, StartPoll
    <3>5. \A q \in Polls : todo[q] # {} => pollBy[q] \in Agents
      BY <1>1, PollClient DEF BaseInv
    <3>6. UNCHANGED <<status, rowId, runs, todo>>
      BY <3>1 DEF StartPoll
    <3> QED BY <3>2, <3>3, <3>4, <3>5, <3>6 DEF BaseInv, SelectedRows
  <2>4. HandedOut'
    <3>1. PICK p \in Polls : StartPoll(a, p)
      BY <1>2
    <3>2. envelopes[p] = {}
      BY <3>1 DEF BaseInv, StartPoll, PollShape
    <3>3. \A q \in Polls : q # p => pollBy'[q] = pollBy[q]
      BY <1>1, <3>1 DEF TypeOK, StartPoll
    <3>4. \A b \in Agents, q \in Polls : q # p /\ waitsOn'[b] = q => waitsOn[b] = q
      BY <1>1, <3>1 DEF TypeOK, StartPoll
    <3>5. \A q \in Polls : envelopes[q] # {} => pollBy[q] \in Agents
      BY <1>1, PollClient DEF BaseInv
    <3>6. UNCHANGED <<status, runs, batch, envelopes>>
      BY <3>1 DEF StartPoll
    <3> QED BY <3>2, <3>3, <3>4, <3>5, <3>6 DEF BaseInv, HandedOut
  <2> QED BY <1>1, <2>1, <2>2, <2>3, <2>4 DEF BaseInv
<1>3. CASE AbandonPoll(a)
  <2>1. CallAndRow' /\ IdsInOrder' /\ RunAndReport' /\ ReportsAreTrue' /\ QueueInOrder'
    BY <1>3 DEF BaseInv, AbandonPoll, CallAndRow, IdsInOrder, RunAndReport, ReportsAreTrue, QueueInOrder, ReportTrue, Produced
  <2>2. PollShape'
    BY <1>1, <1>3 DEF BaseInv, TypeOK, AbandonPoll, PollShape
  <2>3. SelectedRows'
    BY <1>1, <1>3, NoneAssumption DEF BaseInv, TypeOK, AbandonPoll, SelectedRows, PollShape
  <2>4. HandedOut'
    BY <1>1, <1>3, NoneAssumption DEF BaseInv, TypeOK, AbandonPoll, HandedOut, PollShape
  <2> QED BY <1>1, <2>1, <2>2, <2>3, <2>4 DEF BaseInv
<1>4. CASE LoseComplete(a)
  <2>1. CallAndRow' /\ IdsInOrder' /\ SelectedRows' /\ HandedOut' /\ ReportsAreTrue' /\ QueueInOrder'
    BY <1>4 DEF BaseInv, LoseComplete, CallAndRow, IdsInOrder, SelectedRows, HandedOut, ReportsAreTrue, QueueInOrder, ReportTrue, Produced
  <2>2. PollShape'
    BY <1>1, <1>4 DEF BaseInv, TypeOK, LoseComplete, PollShape
  <2>3. RunAndReport'
    BY <1>1, <1>4, NoneAssumption DEF BaseInv, TypeOK, LoseComplete, RunAndReport, Produced
  <2> QED BY <1>1, <2>1, <2>2, <2>3 DEF BaseInv
<1>5. CASE AgentCrash(a)
  <2>1. CallAndRow' /\ IdsInOrder' /\ ReportsAreTrue' /\ QueueInOrder'
    BY <1>5 DEF BaseInv, AgentCrash, CallAndRow, IdsInOrder, ReportsAreTrue, QueueInOrder, ReportTrue, Produced
  <2>2. PollShape'
    BY <1>1, <1>5 DEF BaseInv, TypeOK, AgentCrash, PollShape
  <2>3. SelectedRows'
    BY <1>1, <1>5, NoneAssumption DEF BaseInv, TypeOK, AgentCrash, SelectedRows, PollShape
  <2>4. HandedOut'
    BY <1>1, <1>5, NoneAssumption DEF BaseInv, TypeOK, AgentCrash, HandedOut, PollShape
  <2>5. RunAndReport'
    BY <1>1, <1>5, NoneAssumption DEF BaseInv, TypeOK, AgentCrash, RunAndReport, Produced
  <2> QED BY <1>1, <2>1, <2>2, <2>3, <2>4, <2>5 DEF BaseInv
<1>6. CASE \E t \in Tasks : PostComplete(a, t)
  <2>1. CallAndRow' /\ IdsInOrder' /\ SelectedRows' /\ HandedOut' /\ ReportsAreTrue' /\ QueueInOrder'
    BY <1>6 DEF BaseInv, PostComplete, CallAndRow, IdsInOrder, SelectedRows, HandedOut, ReportsAreTrue, QueueInOrder, ReportTrue, Produced
  <2>2. PollShape'
    BY <1>1, <1>6 DEF BaseInv, TypeOK, PostComplete, PollShape
  <2>3. RunAndReport'
    BY <1>1, <1>6, NoneAssumption DEF BaseInv, TypeOK, PostComplete, RunAndReport, Produced
  <2> QED BY <1>1, <2>1, <2>2, <2>3 DEF BaseInv
<1>7. CASE \E t \in Tasks, r \in {"ok", "failed"} : Execute(a, t, r)
  <2>1. CallAndRow' /\ IdsInOrder' /\ QueueInOrder'
    BY <1>7 DEF BaseInv, Execute, CallAndRow, IdsInOrder, QueueInOrder
  <2>2. PollShape'
    BY <1>1, <1>7 DEF BaseInv, TypeOK, Execute, PollShape
  <2>3. SelectedRows'
    <3>1. PICK t \in Tasks, r \in {"ok", "failed"} : Execute(a, t, r)
      BY <1>7
    <3>2. waitsOn[a] = None
      BY <3>1 DEF BaseInv, Execute, PollShape
    <3>3. \A b \in Agents : b # a => runs'[b] = runs[b]
      BY <1>1, <3>1 DEF TypeOK, Execute
    <3>4. \A q \in Polls : todo[q] # {} => pollBy[q] \in Agents
      BY <1>1, PollClient DEF BaseInv
    <3>5. UNCHANGED <<status, rowId, todo, pollBy, waitsOn>>
      BY <3>1 DEF Execute
    <3> QED BY <3>2, <3>3, <3>4, <3>5, NoneAssumption DEF BaseInv, SelectedRows
  <2>4. HandedOut'
    <3>1. PICK t \in Tasks, r \in {"ok", "failed"} : Execute(a, t, r)
      BY <1>7
    <3>2. waitsOn[a] = None
      BY <3>1 DEF BaseInv, Execute, PollShape
    <3>3. \A b \in Agents : b # a => runs'[b] = runs[b] /\ batch'[b] = batch[b]
      BY <1>1, <3>1 DEF TypeOK, Execute
    <3>4. batch'[a] = batch[a] \ {t} /\ \A u \in Tasks : u # t => runs'[a][u] = runs[a][u]
      BY <1>1, <3>1 DEF TypeOK, Execute
    <3>5. \A q \in Polls : envelopes[q] # {} => pollBy[q] \in Agents
      BY <1>1, PollClient DEF BaseInv
    <3>6. UNCHANGED <<status, envelopes, pollBy, waitsOn>>
      BY <3>1 DEF Execute
    <3>7. \A q \in Polls : \A u \in envelopes'[q] :
            /\ status'[u] \notin {"absent", "pending"}
            /\ TaskNode[u] = AgentNode[pollBy'[q]]
            /\ waitsOn'[pollBy'[q]] = q => runs'[pollBy'[q]][u] = 0
      BY <3>2, <3>3, <3>5, <3>6, NoneAssumption DEF BaseInv, HandedOut
    <3>8. ASSUME NEW b \in Agents, NEW u \in batch'[b]
          PROVE  /\ status'[u] \notin {"absent", "pending"}
                 /\ TaskNode[u] = AgentNode[b]
                 /\ runs'[b][u] = 0
      <4>1. u \in batch[b] /\ u \in Tasks
        BY <1>1, <3>3, <3>4, <3>8 DEF TypeOK
      <4>2. runs'[b][u] = runs[b][u]
        BY <3>3, <3>4, <3>8, <4>1
      <4> QED BY <3>6, <4>1, <4>2 DEF BaseInv, HandedOut
    <3> QED BY <3>7, <3>8 DEF HandedOut
  <2>5. RunAndReport'
    BY <1>1, <1>7, NoneAssumption DEF BaseInv, TypeOK, Execute, RunAndReport, Produced, HandedOut
  <2>6. ReportsAreTrue'
    <3>1. PICK t \in Tasks, r \in {"ok", "failed"} : Execute(a, t, r)
      BY <1>7
    <3>2. runs[a][t] = 0
      BY <3>1 DEF BaseInv, Execute, HandedOut
    <3>3. \A b \in Agents, u \in Tasks : runs[b][u] > 0 =>
            runs'[b][u] > 0 /\ result'[b][u] = result[b][u]
      BY <1>1, <3>1, <3>2 DEF TypeOK, Execute
    <3>4. \A u \in Tasks, s \in Completed : Produced(u, s) => Produced(u, s)'
      BY <3>3 DEF Produced
    <3>5. UNCHANGED <<status, channel, answer>>
      BY <3>1 DEF Execute
    <3> QED BY <1>1, <3>4, <3>5, ReportsFrame DEF BaseInv
  <2> QED BY <1>1, <2>1, <2>2, <2>3, <2>4, <2>5, <2>6 DEF BaseInv
<1> QED BY <1>2, <1>3, <1>4, <1>5, <1>6, <1>7 DEF AgentStep

\* A step of the handler of a report keeps the invariant.
LEMMA CompleteKeeps ==
    ASSUME BaseInv, NEW a \in Agents, NEW t \in Tasks, CompleteStep(a, t)
    PROVE  BaseInv'
<1> USE DEF Unfinished, Completed, InDispatch, Fault, Return, EndPoll,
        rowVars, callerVars, pollVars, completeVars, agentVars
<1>1. TypeOK /\ TypeOK'
  BY TypeComplete DEF BaseInv
<1>2. CASE StoreResult(a, t)
  <2>1. PollShape'
    BY <1>2 DEF BaseInv, StoreResult, PollShape
  <2>2. CallAndRow'
    BY <1>1, <1>2 DEF BaseInv, TypeOK, StoreResult, CallAndRow, RunAndReport, Reported
  <2>3. IdsInOrder'
    <3>1. UNCHANGED <<rowId, nextId>> /\ status[t] # "absent"
      BY <1>2 DEF BaseInv, StoreResult, RunAndReport, rowVars
    <3>2. \A u \in Tasks : status'[u] = "absent" <=> status[u] = "absent"
      BY <1>2, <3>1 DEF BaseInv, TypeOK, StoreResult, Reported
    <3> QED BY <3>1, <3>2 DEF BaseInv, IdsInOrder
  <2>4. SelectedRows'
    BY <1>1, <1>2 DEF BaseInv, TypeOK, StoreResult, SelectedRows, RunAndReport, Reported
  <2>5. HandedOut'
    BY <1>1, <1>2 DEF BaseInv, TypeOK, StoreResult, HandedOut, RunAndReport, Reported
  <2>6. RunAndReport'
    BY <1>1, <1>2 DEF BaseInv, TypeOK, StoreResult, RunAndReport, Produced, Reported
  <2>7. ReportsAreTrue'
    <3>1. \A u \in Tasks, s \in Completed : Produced(u, s) => Produced(u, s)'
      BY <1>2 DEF StoreResult, Produced
    <3>2. \A u \in Tasks : u # t => status'[u] = status[u]
      BY <1>1, <1>2 DEF TypeOK, StoreResult
    <3>3. status'[t] = Reported(result[a][t]) /\ status'[t] \in Completed
      BY <1>1, <1>2 DEF TypeOK, StoreResult, Reported
    <3>4. AgentNode[a] = TaskNode[t] /\ runs[a][t] > 0
      BY <1>2 DEF BaseInv, StoreResult, RunAndReport
    <3>5. Produced(t, Reported(result[a][t]))
      BY <3>4 DEF Produced
    <3>6. channel' = channel /\ answer' = answer
      BY <1>2 DEF StoreResult
    <3>7. ASSUME NEW u \in Tasks PROVE ReportTrue(u)'
      <4>1. (status[u] \in Completed => Produced(u, status[u]))'
        BY <3>1, <3>2, <3>3, <3>5 DEF BaseInv, ReportsAreTrue, ReportTrue
      <4>2. (channel[u] # "empty" => status[u] \in Completed /\ Produced(u, channel[u]))'
        <5>1. channel[u] \in {"empty"} \cup Completed
          BY <1>1 DEF TypeOK
        <5> QED BY <3>1, <3>2, <3>3, <3>6, <5>1 DEF BaseInv, ReportsAreTrue, ReportTrue
      <4>3. (answer[u] \in {"ok", "failed"} =>
                status[u] \in Completed /\ Produced(u, Reported(answer[u])))'
        BY <3>1, <3>2, <3>3, <3>6 DEF BaseInv, ReportsAreTrue, ReportTrue, Reported
      <4> QED BY <4>1, <4>2, <4>3 DEF ReportTrue
    <3> QED BY <3>7 DEF ReportsAreTrue
  <2>8. QueueInOrder'
    BY <1>1, <1>2 DEF BaseInv, TypeOK, StoreResult, QueueInOrder, RunAndReport, Reported
  <2> QED BY <1>1, <2>1, <2>2, <2>3, <2>4, <2>5, <2>6, <2>7, <2>8 DEF BaseInv
<1>3. CASE RereadTask(a, t)
  <2>1. CallAndRow' /\ IdsInOrder' /\ PollShape' /\ SelectedRows' /\ HandedOut' /\ ReportsAreTrue' /\ QueueInOrder'
    BY <1>3 DEF BaseInv, RereadTask, CallAndRow, IdsInOrder, PollShape, SelectedRows, HandedOut, ReportsAreTrue, QueueInOrder, ReportTrue, Produced
  <2>2. RunAndReport'
    BY <1>1, <1>3 DEF BaseInv, TypeOK, RereadTask, RunAndReport, Produced, ReportsAreTrue, ReportTrue
  <2> QED BY <1>1, <2>1, <2>2 DEF BaseInv
<1>4. CASE NotifyWaiter(a, t)
  <2>1. CallAndRow' /\ IdsInOrder' /\ PollShape' /\ SelectedRows' /\ HandedOut' /\ QueueInOrder'
    BY <1>4 DEF BaseInv, NotifyWaiter, CallAndRow, IdsInOrder, PollShape, SelectedRows, HandedOut, QueueInOrder
  <2>2. RunAndReport'
    BY <1>1, <1>4 DEF BaseInv, TypeOK, NotifyWaiter, RunAndReport, Produced
  <2>3. ReportsAreTrue'
    BY <1>1, <1>4 DEF BaseInv, TypeOK, NotifyWaiter, ReportsAreTrue, ReportTrue, Produced, RunAndReport
  <2> QED BY <1>1, <2>1, <2>2, <2>3 DEF BaseInv
<1>5. CASE CompleteFails(a, t)
  <2>1. CallAndRow' /\ IdsInOrder' /\ PollShape' /\ SelectedRows' /\ HandedOut' /\ ReportsAreTrue' /\ QueueInOrder'
    BY <1>5 DEF BaseInv, CompleteFails, CallAndRow, IdsInOrder, PollShape, SelectedRows, HandedOut, ReportsAreTrue, QueueInOrder, ReportTrue, Produced
  <2>2. RunAndReport'
    BY <1>1, <1>5 DEF BaseInv, TypeOK, CompleteFails, RunAndReport, Produced
  <2> QED BY <1>1, <2>1, <2>2 DEF BaseInv
<1> QED BY <1>2, <1>3, <1>4, <1>5 DEF CompleteStep

\* A restart keeps the invariant.
LEMMA CrashKeeps ==
    ASSUME BaseInv, CenterCrash
    PROVE  BaseInv'
<1> USE DEF Unfinished, Completed, InDispatch, Fault, rowVars
<1>1. TypeOK /\ TypeOK'
  BY TypeCrash DEF BaseInv
<1>2. CallAndRow'
  BY <1>1 DEF BaseInv, TypeOK, CenterCrash, CallAndRow
<1>3. IdsInOrder' /\ QueueInOrder'
  BY DEF BaseInv, CenterCrash, IdsInOrder, QueueInOrder
<1>4. PollShape' /\ SelectedRows'
  BY <1>1 DEF BaseInv, TypeOK, CenterCrash, PollShape, SelectedRows
<1>5. HandedOut'
  BY DEF BaseInv, CenterCrash, HandedOut
<1>6. RunAndReport'
  BY <1>1 DEF BaseInv, TypeOK, CenterCrash, RunAndReport
<1>7. ReportsAreTrue'
  <2>1. \A u \in Tasks, s \in Completed : Produced(u, s) => Produced(u, s)'
    BY DEF CenterCrash, Produced
  <2>2. UNCHANGED status /\ \A u \in Tasks : channel'[u] = "empty"
    BY DEF CenterCrash
  <2>3. \A u \in Tasks : answer'[u] \in {answer[u], "lost"}
    BY <1>1 DEF TypeOK, CenterCrash
  <2> QED BY <1>1, <2>1, <2>2, <2>3, ReportsFrame DEF BaseInv
<1> QED BY <1>1, <1>2, <1>3, <1>4, <1>5, <1>6, <1>7 DEF BaseInv

\* The invariant holds at the start.
LEMMA InitBase == Init => BaseInv
<1> SUFFICES ASSUME Init PROVE BaseInv
  OBVIOUS
<1>1. TypeOK
  BY TypeInit
<1>2. CallAndRow /\ IdsInOrder /\ QueueInOrder
  BY DEF Init, CallAndRow, IdsInOrder, QueueInOrder, InDispatch
<1>3. PollShape /\ SelectedRows /\ HandedOut
  BY DEF Init, PollShape, SelectedRows, HandedOut
<1>4. RunAndReport
  BY NoneAssumption DEF Init, RunAndReport
<1>5. ReportsAreTrue
  BY DEF Init, ReportsAreTrue, ReportTrue, Completed
<1> QED BY <1>1, <1>2, <1>3, <1>4, <1>5 DEF BaseInv

\* Every step keeps the invariant.
LEMMA NextBase == BaseInv /\ [Next]_vars => BaseInv'
<1> SUFFICES ASSUME BaseInv, [Next]_vars PROVE BaseInv'
  OBVIOUS
<1>1. CASE \E t \in Tasks : DispatchStep(t)
  BY <1>1, DispatchKeeps
<1>2. CASE \E p \in Polls : PollStep(p)
  BY <1>2, PollKeeps
<1>3. CASE \E a \in Agents : AgentStep(a)
  BY <1>3, AgentKeeps
<1>4. CASE \E a \in Agents, t \in Tasks : CompleteStep(a, t)
  BY <1>4, CompleteKeeps
<1>5. CASE CenterCrash
  BY <1>5, CrashKeeps
<1>6. CASE UNCHANGED vars
  BY <1>6 DEF BaseInv, TypeOK, CallAndRow, IdsInOrder, PollShape, SelectedRows,
     HandedOut, RunAndReport, ReportsAreTrue, ReportTrue, Produced, QueueInOrder,
     vars, rowVars, callerVars, pollVars, completeVars, agentVars
<1> QED BY <1>1, <1>2, <1>3, <1>4, <1>5, <1>6 DEF Next

-----------------------------------------------------------------------------
(* The order in which tasks are taken and run. *)

\* Nothing is out of order at the start.
LEMMA InitOrder == Init => TakenInOrder /\ HandsInOrder
  BY DEF Init, TakenInOrder, HandsInOrder, Taken

\* The order stays if nothing more is taken, selected, pending or run.
LEMMA OrderFrame ==
    ASSUME TakenInOrder, HandsInOrder, UNCHANGED <<rowId, runs>>,
           \A t \in Tasks : Taken(t)' => Taken(t),
           \A t \in Tasks : status'[t] = "pending" => status[t] = "pending",
           \A a \in Agents : batch'[a] \subseteq batch[a],
           \A a \in Agents : waitsOn'[a] # None =>
              /\ waitsOn'[a] = waitsOn[a]
              /\ todo'[waitsOn[a]] \cup envelopes'[waitsOn[a]]
                    \subseteq todo[waitsOn[a]] \cup envelopes[waitsOn[a]]
    PROVE  TakenInOrder' /\ HandsInOrder'
<1>1. HandsInOrder'
  BY DEF HandsInOrder
<1>2. TakenInOrder'
  BY DEF TakenInOrder
<1> QED BY <1>1, <1>2

\* Every step keeps the order.
LEMMA NextOrder ==
    ASSUME BaseInv, TakenInOrder, HandsInOrder, [Next]_vars
    PROVE  TakenInOrder' /\ HandsInOrder'
<1> USE DEF Unfinished, Completed, InDispatch, EndPoll, Fault, Return,
        rowVars, callerVars, pollVars, completeVars, agentVars
<1>0. TypeOK /\ TypeOK'
  BY NextBase DEF BaseInv
<1>1. CASE \E t \in Tasks : Create(t)
  <2>1. PICK t \in Tasks : Create(t)
    BY <1>1
  <2>2. status[t] = "absent"
    BY <2>1 DEF BaseInv, CallAndRow, Create
  <2>3. \A u \in Tasks : status[u] # "absent" => rowId'[u] = rowId[u] /\ rowId[u] < rowId'[t]
    BY <1>0, <2>1, <2>2 DEF TypeOK, BaseInv, IdsInOrder, Create
  <2>4. UNCHANGED <<runs, batch, waitsOn, todo, envelopes>>
        /\ \A u \in Tasks : u # t => status'[u] = status[u]
    BY <1>0, <2>1 DEF TypeOK, Create
  <2>5. \A u \in Tasks : Taken(u) => status[u] # "absent"
    BY DEF BaseInv, HandedOut, RunAndReport, Taken
  <2>6. \A u \in Tasks : Taken(u)' = Taken(u)
    BY <2>4 DEF Taken
  <2>7. HandsInOrder'
    BY <1>0, <2>3, <2>4, <2>5 DEF TypeOK, HandsInOrder, Taken
  <2>8. \A u, v \in Tasks :
          Taken(u)' /\ TaskNode[u] = TaskNode[v] /\ status'[v] = "pending" => rowId'[u] < rowId'[v]
    BY <2>2, <2>3, <2>4, <2>5, <2>6 DEF TakenInOrder
  <2>9. ASSUME NEW a \in Agents, NEW u \in Tasks, waitsOn'[a] # None, runs'[a][u] > 0,
               NEW v \in todo'[waitsOn'[a]] \cup envelopes'[waitsOn'[a]]
        PROVE  rowId'[u] < rowId'[v]
    <3>1. waitsOn[a] \in Polls /\ v \in todo[waitsOn[a]] \cup envelopes[waitsOn[a]]
      BY <1>0, <2>4, <2>9 DEF TypeOK
    <3>2. v \in Tasks
      BY <1>0, <3>1 DEF TypeOK
    <3>3. status[u] # "absent" /\ status[v] # "absent"
      BY <2>4, <2>9, <3>1, <3>2 DEF BaseInv, RunAndReport, SelectedRows, HandedOut
    <3>4. rowId[u] < rowId[v]
      BY <2>4, <2>9, <3>1 DEF TakenInOrder
    <3> QED BY <2>3, <3>2, <3>3, <3>4
  <2> QED BY <2>7, <2>8, <2>9 DEF TakenInOrder
<1>2. CASE \E t \in Tasks : DispatchStep(t) /\ ~Create(t)
  <2>1. UNCHANGED <<rowId, runs, batch, waitsOn, todo, envelopes>>
    BY <1>2 DEF DispatchStep, Register, CreateFails, Receive, Tick, TimerFires, Expire, ExpireFails
  <2>2. \A u \in Tasks : status'[u] = "pending" => status[u] = "pending"
    BY <1>0, <1>2 DEF TypeOK, DispatchStep, Register, CreateFails, Receive, Tick, TimerFires, Expire, ExpireFails
  <2>3. \A u \in Tasks : Taken(u)' => Taken(u)
    BY <2>1 DEF Taken
  <2> QED BY <2>1, <2>2, <2>3, OrderFrame
<1>3. CASE \E p \in Polls : ResolveNode(p)
  <2>1. UNCHANGED <<status, rowId, runs, batch, waitsOn, todo, envelopes>>
    BY <1>3 DEF ResolveNode
  <2>2. \A u \in Tasks : Taken(u)' => Taken(u)
    BY <2>1 DEF Taken
  <2> QED BY <2>1, <2>2, OrderFrame
<1>4. CASE \E p \in Polls : SelectPending(p)
  <2>1. PICK p \in Polls : SelectPending(p)
    BY <1>4
  <2>2. /\ UNCHANGED <<status, rowId, runs, batch, waitsOn, envelopes, pollBy>>
        /\ \A q \in Polls : q # p => todo'[q] = todo[q]
        /\ \A u \in todo'[p] : u \in PendingOf(AgentNode[pollBy[p]])
        /\ pollPc[p] = "select"
    BY <1>0, <2>1 DEF TypeOK, SelectPending, IsOldest
  <2>3. \A u \in Tasks : Taken(u)' = Taken(u)
    BY <2>2 DEF Taken
  <2>4. HandsInOrder'
    BY <2>2 DEF HandsInOrder
  <2>5. ASSUME NEW a \in Agents, NEW u \in Tasks, waitsOn'[a] # None, runs'[a][u] > 0,
               NEW v \in todo'[waitsOn'[a]] \cup envelopes'[waitsOn'[a]]
        PROVE  rowId'[u] < rowId'[v]
    <3>1. waitsOn[a] \in Polls /\ waitsOn[a] # None /\ runs[a][u] > 0
      BY <1>0, <2>2, <2>5 DEF TypeOK
    <3>2. CASE waitsOn[a] # p \/ v \notin todo'[p]
      BY <2>2, <2>5, <3>1, <3>2 DEF TakenInOrder
    <3>3. CASE waitsOn[a] = p /\ v \in todo'[p]
      <4>1. pollBy[p] = a /\ TaskNode[u] = AgentNode[a]
        BY <3>1, <3>3 DEF BaseInv, PollShape, RunAndReport
      <4>2. v \in Tasks /\ TaskNode[v] = AgentNode[a] /\ status[v] = "pending"
        BY <2>2, <3>3, <4>1 DEF PendingOf
      <4> QED BY <2>2, <3>1, <4>1, <4>2 DEF TakenInOrder, Taken
    <3> QED BY <3>2, <3>3
  <2> QED BY <2>2, <2>3, <2>4, <2>5 DEF TakenInOrder
<1>5. CASE \E p \in Polls : ReplyPoll(p)
  <2>1. PICK p \in Polls : ReplyPoll(p)
    BY <1>5
  <2>2. /\ UNCHANGED <<status, rowId, runs>>
        /\ \A q \in Polls : q # p => todo'[q] = todo[q] /\ envelopes'[q] = envelopes[q]
        /\ todo'[p] = {} /\ envelopes'[p] = {}
        /\ \A a \in Agents : \/ batch'[a] = batch[a] /\ waitsOn'[a] = waitsOn[a]
                             \/ batch'[a] = envelopes[p] /\ waitsOn[a] = p /\ waitsOn'[a] = None
    BY <1>0, <2>1 DEF TypeOK, ReplyPoll
  <2>3. \A u \in Tasks : Taken(u)' => Taken(u)
    BY <2>2 DEF Taken
  <2>4. ASSUME NEW a \in Agents, NEW u \in Tasks, runs'[a][u] > 0, NEW v \in batch'[a]
        PROVE  rowId'[u] < rowId'[v]
    <3>1. CASE batch'[a] = batch[a]
      BY <2>2, <2>4, <3>1 DEF HandsInOrder
    <3>2. CASE batch'[a] = envelopes[p] /\ waitsOn[a] = p
      BY <2>2, <2>4, <3>2, NoneAssumption DEF TakenInOrder
    <3> QED BY <2>2, <3>1, <3>2
  <2>5. \A a \in Agents : waitsOn'[a] # None =>
          /\ waitsOn'[a] = waitsOn[a]
          /\ todo'[waitsOn[a]] \cup envelopes'[waitsOn[a]]
                \subseteq todo[waitsOn[a]] \cup envelopes[waitsOn[a]]
    BY <1>0, <2>2 DEF TypeOK
  <2>6. HandsInOrder'
    BY <2>4 DEF HandsInOrder
  <2>7. TakenInOrder'
    BY <2>2, <2>3, <2>5 DEF TakenInOrder
  <2> QED BY <2>6, <2>7
<1>6. CASE \E p \in Polls : PollFails(p)
  <2>1. PICK p \in Polls : PollFails(p)
    BY <1>6
  <2>2. /\ UNCHANGED <<status, rowId, runs, batch>>
        /\ \A q \in Polls : todo'[q] \in {todo[q], {}} /\ envelopes'[q] \in {envelopes[q], {}}
        /\ \A a \in Agents : waitsOn'[a] \in {waitsOn[a], None}
    BY <1>0, <2>1 DEF TypeOK, PollFails
  <2>3. \A u \in Tasks : Taken(u)' => Taken(u)
    BY <2>2 DEF Taken
  <2>4. \A a \in Agents : waitsOn'[a] # None => waitsOn'[a] = waitsOn[a] /\ waitsOn[a] \in Polls
    BY <1>0, <2>2 DEF TypeOK
  <2> QED BY <2>2, <2>3, <2>4, OrderFrame
<1>7. CASE \E p \in Polls, t \in Tasks : MarkDispatched(p, t)
  <2>1. PICK p \in Polls, t \in Tasks : MarkDispatched(p, t)
    BY <1>7
  <2>2. /\ UNCHANGED <<rowId, runs, batch, waitsOn>>
        /\ t \in todo[p] /\ todo'[p] = todo[p] \ {t} /\ envelopes'[p] = envelopes[p] \cup {t}
        /\ \A q \in Polls : q # p => todo'[q] = todo[q] /\ envelopes'[q] = envelopes[q]
        /\ \A u \in todo[p] : rowId[t] =< rowId[u]
        /\ status'[t] # "pending"
        /\ \A u \in Tasks : u # t => status'[u] = status[u]
    BY <1>0, <2>1 DEF TypeOK, MarkDispatched
  <2>3. ASSUME NEW u \in Tasks, status[u] = "pending", TaskNode[t] = TaskNode[u], u # t
        PROVE  rowId[t] < rowId[u]
    <3>1. CASE u \in todo[p]
      <4>1. status[t] # "absent"
        BY <2>2 DEF BaseInv, SelectedRows
      <4>2. rowId[t] # rowId[u] /\ rowId[t] \in Nat /\ rowId[u] \in Nat
        BY <1>0, <2>3, <4>1 DEF TypeOK, BaseInv, IdsInOrder
      <4> QED BY <2>2, <3>1, <4>2
    <3>2. CASE u \notin todo[p]
      BY <2>2, <2>3, <3>2 DEF BaseInv, SelectedRows
    <3> QED BY <3>1, <3>2
  <2>4. \A u \in Tasks : Taken(u)' => Taken(u) \/ u = t
    BY <2>2 DEF Taken
  <2>5. \A u, v \in Tasks :
          Taken(u)' /\ TaskNode[u] = TaskNode[v] /\ status'[v] = "pending" => rowId'[u] < rowId'[v]
    BY <2>2, <2>3, <2>4 DEF TakenInOrder
  <2>6. \A a \in Agents : waitsOn[a] # None =>
          todo'[waitsOn[a]] \cup envelopes'[waitsOn[a]]
                \subseteq todo[waitsOn[a]] \cup envelopes[waitsOn[a]]
    <3> SUFFICES ASSUME NEW a \in Agents, waitsOn[a] # None
                 PROVE  todo'[waitsOn[a]] \cup envelopes'[waitsOn[a]]
                           \subseteq todo[waitsOn[a]] \cup envelopes[waitsOn[a]]
      OBVIOUS
    <3>1. waitsOn[a] \in Polls
      BY <1>0 DEF TypeOK
    <3> QED BY <2>2, <3>1
  <2>7. HandsInOrder'
    BY <2>2 DEF HandsInOrder
  <2>8. \A a \in Agents, u \in Tasks : waitsOn'[a] # None /\ runs'[a][u] > 0 =>
          \A v \in todo'[waitsOn'[a]] \cup envelopes'[waitsOn'[a]] : rowId'[u] < rowId'[v]
    BY <2>2, <2>6 DEF TakenInOrder
  <2> QED BY <2>5, <2>7, <2>8 DEF TakenInOrder
<1>8. CASE \E a \in Agents, p \in Polls : StartPoll(a, p)
  <2>1. PICK a \in Agents, p \in Polls : StartPoll(a, p)
    BY <1>8
  <2>2. /\ UNCHANGED <<status, rowId, runs, batch, todo, envelopes>>
        /\ todo[p] = {} /\ envelopes[p] = {}
        /\ waitsOn'[a] = p /\ \A b \in Agents : b # a => waitsOn'[b] = waitsOn[b]
    <3>1. todo[p] = {} /\ envelopes[p] = {}
      BY <2>1 DEF StartPoll, BaseInv, PollShape
    <3>2. UNCHANGED <<status, rowId, runs, batch, todo, envelopes>>
      BY <2>1 DEF StartPoll
    <3>3. waitsOn'[a] = p /\ \A b \in Agents : b # a => waitsOn'[b] = waitsOn[b]
      BY <1>0, <2>1 DEF TypeOK, StartPoll
    <3> QED BY <3>1, <3>2, <3>3
  <2>3. \A u \in Tasks : Taken(u)' = Taken(u)
    BY <2>2 DEF Taken
  <2>4. HandsInOrder'
    BY <2>2 DEF HandsInOrder
  <2>5. \A b \in Agents, u \in Tasks : waitsOn'[b] # None /\ runs'[b][u] > 0 =>
          \A v \in todo'[waitsOn'[b]] \cup envelopes'[waitsOn'[b]] : rowId'[u] < rowId'[v]
    BY <2>2 DEF TakenInOrder
  <2> QED BY <2>2, <2>3, <2>4, <2>5 DEF TakenInOrder
<1>9. CASE \E a \in Agents, t \in Tasks, r \in {"ok", "failed"} : Execute(a, t, r)
  <2>1. PICK a \in Agents, t \in Tasks, r \in {"ok", "failed"} : Execute(a, t, r)
    BY <1>9
  <2>2. /\ UNCHANGED <<status, rowId, waitsOn, todo, envelopes>>
        /\ t \in batch[a] /\ batch'[a] = batch[a] \ {t}
        /\ \A u \in batch[a] : rowId[t] =< rowId[u]
        /\ \A b \in Agents : b # a => batch'[b] = batch[b] /\ runs'[b] = runs[b]
        /\ \A u \in Tasks : u # t => runs'[a][u] = runs[a][u]
        /\ waitsOn[a] = None
    BY <1>0, <2>1 DEF TypeOK, Execute, BaseInv, PollShape
  <2>3. ASSUME NEW u \in batch[a], u # t
        PROVE  rowId[t] < rowId[u]
    <3>1. u \in Tasks /\ status[t] # "absent" /\ status[u] # "absent"
      BY <1>0, <2>2, <2>3 DEF TypeOK, BaseInv, HandedOut
    <3>2. rowId[t] # rowId[u] /\ rowId[t] \in Nat /\ rowId[u] \in Nat
      BY <1>0, <2>3, <3>1 DEF TypeOK, BaseInv, IdsInOrder
    <3> QED BY <2>2, <3>2
  <2>4. \A u \in Tasks : Taken(u)' => Taken(u)
    <3> SUFFICES ASSUME NEW u \in Tasks, Taken(u)' PROVE Taken(u)
      OBVIOUS
    <3>1. CASE u = t
      BY <2>2, <3>1 DEF Taken
    <3>2. CASE u # t
      <4>1. \A b \in Agents : runs'[b][u] = runs[b][u] /\ batch'[b] \subseteq batch[b]
        BY <2>2, <3>2
      <4> QED BY <2>2, <4>1 DEF Taken
    <3> QED BY <3>1, <3>2
  <2>5. HandsInOrder'
    <3> SUFFICES ASSUME NEW b \in Agents, NEW u \in Tasks, runs'[b][u] > 0, NEW v \in batch'[b]
                 PROVE  rowId'[u] < rowId'[v]
      BY DEF HandsInOrder
    <3>1. CASE b # a \/ u # t
      <4>1. runs[b][u] > 0 /\ v \in batch[b]
        BY <2>2, <3>1
      <4> QED BY <2>2, <4>1 DEF HandsInOrder
    <3>2. CASE b = a /\ u = t
      BY <2>2, <2>3, <3>2
    <3> QED BY <3>1, <3>2
  <2>6. \A b \in Agents, u \in Tasks : waitsOn'[b] # None /\ runs'[b][u] > 0 =>
          \A v \in todo'[waitsOn'[b]] \cup envelopes'[waitsOn'[b]] : rowId'[u] < rowId'[v]
    BY <2>2 DEF TakenInOrder
  <2> QED BY <2>2, <2>4, <2>5, <2>6 DEF TakenInOrder
<1>10. CASE \E a \in Agents : \/ AbandonPoll(a) \/ LoseComplete(a) \/ AgentCrash(a)
                              \/ \E t \in Tasks : PostComplete(a, t)
  <2>1. /\ UNCHANGED <<status, rowId, runs, todo, envelopes>>
        /\ \A a \in Agents : waitsOn'[a] \in {waitsOn[a], None} /\ batch'[a] \in {batch[a], {}}
    BY <1>0, <1>10 DEF TypeOK, AbandonPoll, LoseComplete, AgentCrash, PostComplete
  <2>2. \A u \in Tasks : Taken(u)' => Taken(u)
    BY <2>1 DEF Taken
  <2> QED BY <2>1, <2>2, OrderFrame
<1>11. CASE \E a \in Agents, t \in Tasks : CompleteStep(a, t)
  <2>1. UNCHANGED <<rowId, runs, batch, waitsOn, todo, envelopes>>
    BY <1>11 DEF CompleteStep, StoreResult, RereadTask, NotifyWaiter, CompleteFails
  <2>2. \A u \in Tasks : status'[u] = "pending" => status[u] = "pending"
    BY <1>0, <1>11 DEF TypeOK, CompleteStep, StoreResult, RereadTask, NotifyWaiter, CompleteFails, Reported
  <2>3. \A u \in Tasks : Taken(u)' => Taken(u)
    BY <2>1 DEF Taken
  <2> QED BY <2>1, <2>2, <2>3, OrderFrame
<1>12. CASE CenterCrash
  <2>1. /\ UNCHANGED <<status, rowId, runs, batch>>
        /\ \A q \in Polls : todo'[q] = {} /\ envelopes'[q] = {}
        /\ \A a \in Agents : waitsOn'[a] = None
    BY <1>12 DEF CenterCrash
  <2>2. \A u \in Tasks : Taken(u)' => Taken(u)
    BY <2>1 DEF Taken
  <2> QED BY <2>1, <2>2, OrderFrame
<1>13. CASE UNCHANGED vars
  BY <1>13 DEF vars, TakenInOrder, HandsInOrder, Taken
<1> QED BY <1>1, <1>2, <1>3, <1>4, <1>5, <1>6, <1>7, <1>8, <1>9, <1>10, <1>11, <1>12, <1>13
        DEF Next, DispatchStep, PollStep, AgentStep

-----------------------------------------------------------------------------
(* What follows for every behaviour. *)

\* IInv holds of every state the queue, its callers and agents can reach.
THEOREM Invariance == Spec => []IInv
<1>1. Init => IInv
  BY InitBase, InitOrder DEF IInv
<1>2. IInv /\ [Next]_vars => IInv'
  BY NextBase, NextOrder DEF IInv
<1> QED BY <1>1, <1>2, PTL DEF Spec

\* The part of it that the theorems below but the last two of the queue need.
LEMMA BaseInvariance == Spec => []BaseInv
<1>1. IInv => BaseInv
  BY DEF IInv
<1> QED BY <1>1, Invariance, PTL

\* Every variable keeps its type.
THEOREM TypeCorrect == Spec => []TypeOK
<1>1. BaseInv => TypeOK
  BY DEF BaseInv
<1> QED BY <1>1, BaseInvariance, PTL

\* No agent process runs a task twice (Poll, handleTask).
THEOREM AtMostOneRun == Spec => []RunsOnce
<1>1. ASSUME BaseInv, NEW a \in Agents, NEW t \in Tasks PROVE runs[a][t] =< 1
  <2>1. runs[a][t] \in Nat
    BY <1>1 DEF BaseInv, TypeOK
  <2>2. runs[a][t] > 0 => runs[a][t] = 1
    BY <1>1 DEF BaseInv, RunAndReport
  <2> QED BY <2>1, <2>2
<1>2. BaseInv => RunsOnce
  BY <1>1 DEF RunsOnce
<1> QED BY <1>2, BaseInvariance, PTL

\* The answer of Dispatch is one that a process of the node has produced.
THEOREM TruthfulAnswers == Spec => []AnswerTruthful
<1>1. ASSUME BaseInv PROVE AnswerTruthful
  <2> SUFFICES ASSUME NEW t \in Tasks, answer[t] \in {"ok", "failed"}
               PROVE  \E a \in Agents : /\ AgentNode[a] = TaskNode[t]
                                        /\ runs[a][t] > 0
                                        /\ result[a][t] = answer[t]
    BY DEF AnswerTruthful
  <2>1. PICK a \in Agents : /\ AgentNode[a] = TaskNode[t]
                            /\ runs[a][t] > 0
                            /\ Reported(result[a][t]) = Reported(answer[t])
    BY <1>1 DEF BaseInv, ReportsAreTrue, ReportTrue, Produced
  <2>2. result[a][t] \in {"ok", "failed"}
    BY <1>1, <2>1 DEF BaseInv, TypeOK, RunAndReport
  <2> QED BY <2>1, <2>2 DEF Reported
<1> QED BY <1>1, BaseInvariance, PTL

\* Poll hands out the tasks of a node in the order of their insertion, and the
\* agent has none in hand that is older than one it ran.
THEOREM QueueOrder == Spec => []OldestFirst
<1>1. IInv => OldestFirst
  BY DEF IInv, BaseInv, OldestFirst
<1> QED BY <1>1, Invariance, PTL

\* An agent process runs the tasks of its node in the order of their insertion
\* (the loop of the agent's main over what Poll answers), however polls and
\* timeouts overlap.
THEOREM RunOrder == Spec => RunsNewer
<1>1. ASSUME IInv, Next, NEW a \in Agents, NEW t \in Tasks, NEW u \in Tasks,
             runs'[a][t] > runs[a][t], runs[a][u] > 0
      PROVE  rowId[u] < rowId[t]
  <2>1. ASSUME runs' = runs PROVE FALSE
    BY <1>1, <2>1 DEF IInv, BaseInv, TypeOK
  <2>2. PICK b \in Agents, v \in Tasks, r \in {"ok", "failed"} : Execute(b, v, r)
    BY <1>1, <2>1 DEF Next, DispatchStep, Register, Create, CreateFails, Receive, Tick,
       TimerFires, Expire, ExpireFails, PollStep, ResolveNode, SelectPending,
       MarkDispatched, ReplyPoll, PollFails, AgentStep, StartPoll, AbandonPoll,
       LoseComplete, AgentCrash, PostComplete, CompleteStep, StoreResult, RereadTask,
       NotifyWaiter, CompleteFails, CenterCrash, agentVars
  <2>3. b = a /\ v = t
    BY <1>1, <2>2 DEF IInv, BaseInv, TypeOK, Execute
  <2> QED BY <1>1, <2>2, <2>3 DEF IInv, HandsInOrder, Execute
<1>2. ASSUME IInv, NEW a \in Agents, NEW t \in Tasks, UNCHANGED vars,
             runs'[a][t] > runs[a][t]
      PROVE  FALSE
  BY <1>2 DEF vars, agentVars, IInv, BaseInv, TypeOK
<1>3. IInv /\ [Next]_vars =>
        [\A a \in Agents : \A t, u \in Tasks :
            runs'[a][t] > runs[a][t] /\ runs[a][u] > 0 => rowId[u] < rowId[t]]_vars
  BY <1>1, <1>2
<1> QED BY <1>3, Invariance, PTL DEF Spec, RunsNewer

\* With a single process running the task, the caller's answer and the row
\* that stays in the task list agree.
THEOREM AnswerAndRow == Spec => []AnswerMatchesRow
<1>1. ASSUME BaseInv PROVE AnswerMatchesRow
  <2> SUFFICES ASSUME NEW t \in Tasks, answer[t] \in {"ok", "failed"},
                      NEW a \in Agents, \A b \in Agents : runs[b][t] > 0 => a = b
               PROVE  status[t] = Reported(answer[t])
    BY DEF AnswerMatchesRow
  <2>1. /\ status[t] \in Completed
        /\ Produced(t, status[t])
        /\ Produced(t, Reported(answer[t]))
    BY <1>1 DEF BaseInv, ReportsAreTrue, ReportTrue
  <2> QED BY <2>1 DEF Produced
<1> QED BY <1>1, BaseInvariance, PTL

\* A recorded completion is not undone by a late timeout (Dispatch) or a
\* late mark (Poll).
THEOREM CompletionsStay == Spec => CompletionStays
<1>1. ASSUME BaseInv, Next, NEW t \in Tasks, status[t] \in Completed
      PROVE  status'[t] \in Completed
  <2> USE DEF Unfinished, Completed
  <2>1. CASE \E u \in Tasks : DispatchStep(u)
    <3>1. ASSUME NEW u \in Tasks, Create(u) PROVE status'[t] = status[t]
      <4>1. u # t
        BY <1>1, <3>1 DEF BaseInv, CallAndRow, Create
      <4> QED BY <1>1, <3>1, <4>1 DEF BaseInv, TypeOK, Create
    <3>2. ASSUME NEW u \in Tasks, Expire(u) PROVE status'[t] = status[t]
      BY <1>1, <3>2 DEF BaseInv, TypeOK, Expire
    <3> QED BY <1>1, <2>1, <3>1, <3>2
            DEF DispatchStep, Register, CreateFails, Receive, Tick, TimerFires, ExpireFails
  <2>2. CASE \E p \in Polls : PollStep(p)
    <3>1. ASSUME NEW p \in Polls, NEW u \in Tasks, MarkDispatched(p, u)
          PROVE  status'[t] = status[t]
      BY <1>1, <3>1 DEF BaseInv, TypeOK, MarkDispatched
    <3> QED BY <1>1, <2>2, <3>1 DEF PollStep, ResolveNode, SelectPending, ReplyPoll, PollFails
  <2>3. CASE \E a \in Agents : AgentStep(a)
    BY <1>1, <2>3 DEF AgentStep, StartPoll, AbandonPoll, LoseComplete, AgentCrash, PostComplete, Execute
  <2>4. CASE \E a \in Agents, u \in Tasks : CompleteStep(a, u)
    <3>1. ASSUME NEW a \in Agents, NEW u \in Tasks, StoreResult(a, u)
          PROVE  status'[t] \in Completed
      BY <1>1, <3>1 DEF BaseInv, TypeOK, StoreResult, Reported
    <3> QED BY <1>1, <2>4, <3>1 DEF CompleteStep, RereadTask, NotifyWaiter, CompleteFails
  <2>5. CASE CenterCrash
    BY <1>1, <2>5 DEF CenterCrash
  <2> QED BY <1>1, <2>1, <2>2, <2>3, <2>4, <2>5 DEF Next
<1>2. ASSUME NEW t \in Tasks, status[t] \in Completed, UNCHANGED vars
      PROVE  status'[t] \in Completed
  BY <1>2 DEF vars
<1>3. BaseInv /\ [Next]_vars =>
        [\A t \in Tasks : status[t] \in Completed => status'[t] \in Completed]_vars
  BY <1>1, <1>2
<1> QED BY <1>3, BaseInvariance, PTL DEF Spec, CompletionStays

\* A row that timed out in the queue is never handed out: Poll selects pending
\* rows only, and its Dispatch call has returned.
THEOREM TimeoutsStayUnseen == Spec => TimedOutUnseenForGood
<1>1. ASSUME BaseInv, Next, NEW t \in Tasks, TimedOutUnseen(t)
      PROVE  TimedOutUnseen(t)'
  <2> USE DEF Unfinished, Completed, EndPoll, rowVars, callerVars, pollVars,
              completeVars, agentVars
  <2>1. /\ TypeOK
        /\ status[t] = "timeout" /\ caller[t] = "done"
        /\ \A p \in Polls : t \notin todo[p] /\ t \notin envelopes[p]
        /\ \A a \in Agents : t \notin batch[a] /\ runs[a][t] = 0
    BY <1>1 DEF BaseInv, CallAndRow, TimedOutUnseen
  <2>2. CASE \E u \in Tasks : DispatchStep(u)
    <3>1. status'[t] = "timeout"
      <4>1. ASSUME NEW u \in Tasks, Create(u) PROVE status'[t] = status[t]
        BY <2>1, <4>1 DEF TypeOK, Create
      <4>2. ASSUME NEW u \in Tasks, Expire(u) PROVE status'[t] = status[t]
        BY <2>1, <4>2 DEF TypeOK, Expire
      <4> QED BY <2>1, <2>2, <4>1, <4>2
              DEF DispatchStep, Register, CreateFails, Receive, Tick, TimerFires, ExpireFails
    <3>2. UNCHANGED <<todo, envelopes, batch, runs>>
      BY <2>2 DEF DispatchStep, Register, Create, CreateFails, Receive, Tick, TimerFires,
                  Expire, ExpireFails
    <3> QED BY <2>1, <3>1, <3>2 DEF TimedOutUnseen
  <2>3. CASE \E p \in Polls : PollStep(p)
    <3> PICK p \in Polls : PollStep(p)
      BY <2>3
    <3>1. CASE ResolveNode(p)
      BY <2>1, <3>1 DEF ResolveNode, TimedOutUnseen
    <3>2. CASE SelectPending(p)
      <4>1. /\ UNCHANGED <<status, envelopes, batch, runs>>
            /\ \A q \in Polls : t \notin todo'[q]
        BY <2>1, <3>2 DEF TypeOK, SelectPending, IsOldest, PendingOf
      <4> QED BY <2>1, <4>1 DEF TimedOutUnseen
    <3>3. CASE ReplyPoll(p)
      <4>1. /\ UNCHANGED <<status, runs>>
            /\ \A q \in Polls : t \notin todo'[q] /\ t \notin envelopes'[q]
            /\ \A a \in Agents : t \notin batch'[a]
        BY <2>1, <3>3 DEF TypeOK, ReplyPoll
      <4> QED BY <2>1, <4>1 DEF TimedOutUnseen
    <3>4. CASE PollFails(p)
      <4>1. /\ UNCHANGED <<status, runs, batch>>
            /\ \A q \in Polls : t \notin todo'[q] /\ t \notin envelopes'[q]
        BY <2>1, <3>4 DEF TypeOK, PollFails
      <4> QED BY <2>1, <4>1 DEF TimedOutUnseen
    <3>5. ASSUME NEW u \in Tasks, MarkDispatched(p, u) PROVE TimedOutUnseen(t)'
      <4>1. u # t
        BY <2>1, <3>5 DEF MarkDispatched
      <4>2. /\ UNCHANGED <<runs, batch>> /\ status'[t] = status[t]
            /\ \A q \in Polls : t \notin todo'[q] /\ t \notin envelopes'[q]
        BY <2>1, <3>5, <4>1 DEF TypeOK, MarkDispatched
      <4> QED BY <2>1, <4>2 DEF TimedOutUnseen
    <3> QED BY <3>1, <3>2, <3>3, <3>4, <3>5 DEF PollStep
  <2>4. CASE \E a \in Agents : AgentStep(a)
    <3> PICK a \in Agents : AgentStep(a)
      BY <2>4
    <3>1. ASSUME NEW u \in Tasks, NEW r \in {"ok", "failed"}, Execute(a, u, r)
          PROVE  TimedOutUnseen(t)'
      <4>1. u # t
        BY <2>1, <3>1 DEF Execute
      <4>2. /\ UNCHANGED <<status, todo, envelopes>>
            /\ \A b \in Agents : t \notin batch'[b] /\ runs'[b][t] = runs[b][t]
        BY <2>1, <3>1, <4>1 DEF TypeOK, Execute
      <4> QED BY <2>1, <4>2 DEF TimedOutUnseen
    <3>2. CASE AgentCrash(a)
      BY <2>1, <3>2 DEF TypeOK, AgentCrash, TimedOutUnseen
    <3>3. CASE UNCHANGED <<status, todo, envelopes, batch, runs>>
      BY <2>1, <3>3 DEF TimedOutUnseen
    <3> QED BY <3>1, <3>2, <3>3 DEF AgentStep, StartPoll, AbandonPoll, LoseComplete,
                                    PostComplete
  <2>5. CASE \E a \in Agents, u \in Tasks : CompleteStep(a, u)
    <3> PICK a \in Agents, u \in Tasks : CompleteStep(a, u)
      BY <2>5
    <3>1. UNCHANGED <<todo, envelopes, batch, runs>>
      BY DEF CompleteStep, StoreResult, RereadTask, NotifyWaiter, CompleteFails
    <3>2. status'[t] = status[t]
      <4>1. CASE StoreResult(a, u)
        <5>1. runs[a][u] > 0
          BY <1>1, <4>1 DEF BaseInv, RunAndReport, StoreResult
        <5>2. u # t
          BY <2>1, <5>1
        <5> QED BY <2>1, <4>1, <5>2 DEF TypeOK, StoreResult
      <4> QED BY <4>1 DEF CompleteStep, RereadTask, NotifyWaiter, CompleteFails
    <3> QED BY <2>1, <3>1, <3>2 DEF TimedOutUnseen
  <2>6. CASE CenterCrash
    <3>1. /\ UNCHANGED <<status, batch, runs>>
          /\ \A q \in Polls : todo'[q] = {} /\ envelopes'[q] = {}
      BY <2>6 DEF CenterCrash
    <3> QED BY <2>1, <3>1 DEF TimedOutUnseen
  <2> QED BY <1>1, <2>2, <2>3, <2>4, <2>5, <2>6 DEF Next
<1>2. ASSUME NEW t \in Tasks, TimedOutUnseen(t), UNCHANGED vars
      PROVE  TimedOutUnseen(t)'
  BY <1>2 DEF vars, TimedOutUnseen, pollVars, agentVars
<1>3. BaseInv /\ [Next]_vars =>
        [\A t \in Tasks : TimedOutUnseen(t) => TimedOutUnseen(t)']_vars
  BY <1>1, <1>2
<1> QED BY <1>3, BaseInvariance, PTL DEF Spec, TimedOutUnseenForGood

-----------------------------------------------------------------------------
(* The implementation of TaskQueue and TaskCall. *)

\* The initial states are those of TaskQueue.
LEMMA InitTQ == Init => TQ!QueueInit
  BY DEF Init, TQ!QueueInit, TQ!Init, CallState, RunState

\* What a step that changes one call does to the abstract calls.
LEMMA CallStateStep ==
    ASSUME NEW t \in Tasks, NEW c,
           \A u \in Tasks \ {t} : caller'[u] = caller[u] /\ answer'[u] = answer[u],
           (IF caller'[t] = "idle" THEN "idle"
            ELSE IF caller'[t] = "done" THEN answer'[t] ELSE "open") = c
    PROVE  CallState' = [CallState EXCEPT ![t] = c]
<1>1. \A u \in Tasks : CallState'[u] = [CallState EXCEPT ![t] = c][u]
  BY DEF CallState
<1> QED BY <1>1 DEF CallState

\* A process runs a task in the order of the queue.
LEMMA ExecuteTQ ==
    ASSUME IInv, NEW a \in Agents, NEW t \in Tasks, NEW r \in {"ok", "failed"},
           Execute(a, t, r)
    PROVE  TQ!RunInOrder(a, t, r) /\ UNCHANGED rowId
<1> USE DEF IInv
<1>1. TaskNode[t] = AgentNode[a] /\ runs[a][t] = 0 /\ status[t] \notin {"absent", "pending"}
  BY DEF BaseInv, HandedOut, Execute
<1>2. CallState[t] \notin {"idle", "error"}
  BY <1>1 DEF BaseInv, TypeOK, CallAndRow, CallState
<1>3. RunState[a][t] = "no"
  BY <1>1 DEF RunState
<1>4. CallState' = CallState
  BY DEF Execute, CallState, callerVars
<1>5. RunState' = [RunState EXCEPT ![a][t] = r]
  <2>1. runs' = [runs EXCEPT ![a][t] = 1] /\ result' = [result EXCEPT ![a][t] = r]
    BY <1>1 DEF BaseInv, TypeOK, Execute
  <2> DEFINE R == [RunState EXCEPT ![a][t] = r]
  <2>2. ASSUME NEW b \in Agents, NEW u \in Tasks PROVE RunState'[b][u] = R[b][u]
    <3>1. runs[b] \in [Tasks -> Nat] /\ result[b] \in [Tasks -> {"none", "ok", "failed"}]
      BY DEF BaseInv, TypeOK
    <3>2. CASE b = a /\ u = t
      BY <2>1, <3>1, <3>2 DEF BaseInv, TypeOK, RunState
    <3>3. CASE ~(b = a /\ u = t)
      <4>1. runs'[b][u] = runs[b][u] /\ result'[b][u] = result[b][u]
        BY <2>1, <3>1, <3>3 DEF BaseInv, TypeOK
      <4>2. RunState'[b][u] = RunState[b][u]
        BY <4>1 DEF RunState
      <4>3. R[b][u] = RunState[b][u]
        BY <3>3 DEF RunState
      <4> QED BY <4>2, <4>3
    <3> QED BY <3>2, <3>3
  <2>3. \A b \in Agents : RunState'[b] = R[b]
    BY <2>2 DEF RunState
  <2> QED BY <2>3 DEF RunState
<1>6. TQ!Run(a, t, r)
  BY <1>1, <1>2, <1>3, <1>4, <1>5 DEF TQ!Run
<1>7. rowId[t] > 0
  BY <1>1 DEF BaseInv, TypeOK, IdsInOrder
<1>8. ASSUME NEW u \in Tasks, RunState[a][u] # "no" PROVE rowId[u] < rowId[t]
  <2>1. runs[a][u] > 0
    BY <1>8 DEF BaseInv, TypeOK, RunState
  <2> QED BY <2>1 DEF HandsInOrder, Execute
<1> QED BY <1>6, <1>7, <1>8 DEF TQ!RunInOrder, Execute, rowVars

\* What Dispatch returns as "ok" or "failed" was produced by a run.
LEMMA ProducedTQ ==
    ASSUME BaseInv, NEW t \in Tasks, NEW s \in Completed, Produced(t, s)
    PROVE  \E a \in Agents : RunState[a][t] = Decode(s)
<1>1. PICK a \in Agents : runs[a][t] > 0 /\ Reported(result[a][t]) = s
  BY DEF Produced
<1>2. result[a][t] \in {"ok", "failed"}
  BY <1>1 DEF BaseInv, TypeOK, RunAndReport
<1>3. result[a][t] = Decode(s)
  BY <1>1, <1>2 DEF Reported, Decode
<1>4. RunState[a][t] = result[a][t]
  BY <1>1 DEF RunState
<1> QED BY <1>3, <1>4

\* A step of Dispatch is a step of its call, or changes neither the call nor
\* what has run.
LEMMA DispatchTQ ==
    ASSUME BaseInv, BaseInv', NEW t \in Tasks, DispatchStep(t)
    PROVE  [TQ!QueueNext]_(TQ!queueVars)
<1> USE DEF InDispatch
<1>1. runs' = runs /\ result' = result
  BY DEF DispatchStep, Register, Create, CreateFails, Receive, Tick, TimerFires,
     Expire, ExpireFails, agentVars
<1>2. RunState' = RunState
  BY <1>1 DEF RunState
<1>3. CASE Register(t)
  <2>1. CallState[t] = "idle"
    BY <1>3 DEF Register, CallState
  <2>2. CallState' = [CallState EXCEPT ![t] = "open"]
    BY <1>3, CallStateStep DEF BaseInv, TypeOK, Register
  <2> QED BY <1>2, <1>3, <2>1, <2>2 DEF TQ!QueueNext, TQ!CallNext, TQ!Open, Register, rowVars
<1>4. CASE TimerFires(t)
  <2>1. CallState' = CallState
    BY <1>4 DEF BaseInv, TypeOK, TimerFires, CallState
  <2> QED BY <1>2, <1>4, <2>1 DEF TQ!queueVars, TQ!callVars, TimerFires, rowVars
<1>10. CASE Create(t)
  <2>1. CallState' = CallState
    BY <1>10 DEF BaseInv, TypeOK, Create, CallState
  <2>2. CallState[t] = "open"
    BY <1>10 DEF Create, CallState
  <2>3. rowId[t] = 0
    BY <1>10 DEF BaseInv, CallAndRow, IdsInOrder, Create
  <2>4. rowId' = [rowId EXCEPT ![t] = nextId] /\ rowId' \in [Tasks -> Nat]
    BY <1>10 DEF BaseInv, TypeOK, Create
  <2>5. \A u \in Tasks : rowId[u] < rowId'[t]
    BY <2>4 DEF BaseInv, TypeOK, IdsInOrder
  <2>6. \A u \in Tasks \ {t} : rowId'[u] = rowId[u]
    BY <2>4 DEF BaseInv, TypeOK
  <2> QED BY <1>2, <2>1, <2>2, <2>3, <2>4, <2>5, <2>6 DEF TQ!QueueNext, TQ!Insert, TQ!callVars
<1>5. CASE CreateFails(t)
  <2>1. CallState[t] = "open"
    BY <1>5 DEF CreateFails, CallState
  <2>2. CallState' = [CallState EXCEPT ![t] = "error"]
    BY <1>5, CallStateStep DEF BaseInv, TypeOK, CreateFails, Return
  <2>3. \A a \in Agents : RunState[a][t] = "no"
    BY <1>5 DEF BaseInv, TypeOK, CallAndRow, RunAndReport, CreateFails, RunState
  <2>4. rowId[t] = 0 /\ rowId' = rowId
    BY <1>5 DEF BaseInv, CallAndRow, IdsInOrder, CreateFails, rowVars
  <2> QED BY <1>2, <2>1, <2>2, <2>3, <2>4
          DEF TQ!QueueNext, TQ!CallNext, TQ!RefuseUnqueued, TQ!Refuse
<1>6. ASSUME NEW s \in Completed, Produced(t, s), caller[t] = "waiting", Return(t, Decode(s)),
             rowId' = rowId
      PROVE  TQ!QueueNext
  <2>1. CallState[t] = "open"
    BY <1>6 DEF CallState
  <2>5. CallState' = [CallState EXCEPT ![t] = Decode(s)]
    BY <1>6, CallStateStep DEF BaseInv, TypeOK, Return
  <2>2. \E a \in Agents : RunState[a][t] = Decode(s)
    BY <1>6, ProducedTQ
  <2>3. Decode(s) \in {"ok", "failed"}
    BY DEF Decode
  <2>4. TQ!Answer(t, Decode(s))
    BY <1>2, <2>1, <2>2, <2>5 DEF TQ!Answer
  <2> QED BY <1>6, <2>3, <2>4 DEF TQ!QueueNext, TQ!CallNext
<1>7. CASE Receive(t)
  <2>1. channel[t] \in Completed /\ Produced(t, channel[t])
    BY <1>7 DEF BaseInv, TypeOK, ReportsAreTrue, ReportTrue, Receive
  <2> QED BY <1>6, <1>7, <2>1 DEF Receive, rowVars
<1>8. CASE Tick(t)
  <2>1. status[t] \in Completed /\ Produced(t, status[t])
    BY <1>8 DEF BaseInv, CallAndRow, ReportsAreTrue, ReportTrue, Tick
  <2> QED BY <1>6, <1>8, <2>1 DEF Tick, rowVars
<1>9. CASE Expire(t) \/ ExpireFails(t)
  <2>1. CallState[t] = "open"
    BY <1>9 DEF Expire, ExpireFails, CallState
  <2>3. Return(t, "timeout") /\ rowId' = rowId
    BY <1>9 DEF Expire, ExpireFails, rowVars
  <2>2. CallState' = [CallState EXCEPT ![t] = "timeout"]
    BY <2>3, CallStateStep DEF BaseInv, TypeOK, Return
  <2> QED BY <1>2, <2>1, <2>2, <2>3 DEF TQ!QueueNext, TQ!CallNext, TQ!GiveUp
<1> QED BY <1>3, <1>4, <1>5, <1>7, <1>8, <1>9, <1>10 DEF DispatchStep

\* Every step is one of TaskQueue or changes nothing of it.
LEMMA NextTQ == IInv /\ IInv' /\ [Next]_vars => [TQ!QueueNext]_(TQ!queueVars)
<1> SUFFICES ASSUME IInv, IInv', [Next]_vars PROVE [TQ!QueueNext]_(TQ!queueVars)
  OBVIOUS
<1>0. BaseInv /\ BaseInv'
  BY DEF IInv
<1>1. ASSUME UNCHANGED <<caller, answer, runs, result, rowId>>
      PROVE  [TQ!QueueNext]_(TQ!queueVars)
  BY <1>1 DEF TQ!queueVars, TQ!callVars, CallState, RunState
<1>2. CASE \E t \in Tasks : DispatchStep(t)
  BY <1>0, <1>2, DispatchTQ
<1>3. CASE \E p \in Polls : PollStep(p)
  BY <1>1, <1>3 DEF PollStep, ResolveNode, SelectPending, MarkDispatched, ReplyPoll,
     PollFails, callerVars, agentVars, rowVars
<1>4. CASE \E a \in Agents : AgentStep(a)
  <2>1. ASSUME NEW a \in Agents, NEW t \in Tasks, NEW r \in {"ok", "failed"}, Execute(a, t, r)
        PROVE  TQ!QueueNext
    BY <2>1, ExecuteTQ DEF TQ!QueueNext, TQ!CallNext
  <2> QED BY <1>1, <1>4, <2>1 DEF AgentStep, StartPoll, AbandonPoll, LoseComplete,
          AgentCrash, PostComplete, callerVars, rowVars
<1>5. CASE \E a \in Agents, t \in Tasks : CompleteStep(a, t)
  BY <1>1, <1>5 DEF CompleteStep, StoreResult, RereadTask, NotifyWaiter,
     CompleteFails, callerVars, agentVars, rowVars
<1>6. CASE CenterCrash
  <2>1. CallState' = [t \in Tasks |-> IF CallState[t] = "open" THEN "lost" ELSE CallState[t]]
    BY <1>0, <1>6 DEF BaseInv, TypeOK, CenterCrash, CallState, InDispatch
  <2>2. RunState' = RunState /\ rowId' = rowId
    BY <1>6 DEF CenterCrash, RunState, rowVars
  <2> QED BY <2>1, <2>2 DEF TQ!QueueNext, TQ!CallNext, TQ!Forget
<1>7. CASE UNCHANGED vars
  BY <1>1, <1>7 DEF vars, callerVars, agentVars, rowVars
<1> QED BY <1>2, <1>3, <1>4, <1>5, <1>6, <1>7 DEF Next

\* The queue, its waiters, its handlers and the agents implement the ordered
\* queue that the other modules rely on (Dispatch, Poll, the loop of main).
THEOREM QueueRefinement == Spec => ImplementsTaskQueue
<1> QED BY InitTQ, NextTQ, Invariance, PTL DEF Spec, ImplementsTaskQueue, TQ!QueueSpec

\* TaskQueue is TaskCall with a place in the queue for every call, so that what
\* keeps to it keeps to TaskCall.
LEMMA QueueIsCall == TQ!QueueSpec => TQ!Spec
<1>1. TQ!QueueInit => TQ!Init
  BY DEF TQ!QueueInit
<1>2. [TQ!QueueNext]_(TQ!queueVars) => [TQ!Next]_(TQ!callVars)
  BY DEF TQ!QueueNext, TQ!CallNext, TQ!Insert, TQ!RefuseUnqueued, TQ!RunInOrder,
         TQ!Next, TQ!queueVars, TQ!callVars
<1> QED BY <1>1, <1>2, PTL DEF TQ!QueueSpec, TQ!Spec

\* The channel implements the remote call that Dispatch promises: an answer is
\* that of a run on the addressed node, and an error means that nothing ran.
THEOREM Refinement == Spec => ImplementsTaskCall
<1> QED BY QueueRefinement, QueueIsCall DEF ImplementsTaskQueue, ImplementsTaskCall
=============================================================================
