------------------------- MODULE RemotePublishProofs -------------------------
(* Proofs about RemotePublish, for any requests, processes, configs and bounds. *)
EXTENDS RemotePublish, TLAPS

-----------------------------------------------------------------------------
(* What the steps of one side leave to the other. *)

\* The center touches neither the node nor a request that has begun, except
\* for its own records.
NodeUntouched ==
    /\ UNCHANGED <<agentVars, ran>>
    /\ \A r \in Requests : version[r] # NoRequest =>
          /\ version'[r] = version[r]
          /\ action'[r] = action[r]
          /\ vconfig'[version[r]] = vconfig[version[r]]
    /\ \A r \in Requests : rowId[r] > 0 => rowId'[r] = rowId[r]

\* A process changes neither rows nor records, nor what it has reported.
RowsUntouched ==
    /\ UNCHANGED <<centerVars, call, rowId, nextId>>
    /\ \A a \in Agents, r \in Requests : ran[a][r] # "no" =>
          ran'[a][r] = ran[a][r] /\ report'[a][r] = report[a][r]

\* Versions are only written by the request they are named after.
LEMMA CenterFrame ==
    ASSUME TypeOK, Ownership, CallShape, CenterStep
    PROVE  NodeUntouched
<1> USE RequestAssumption DEF TypeOK, Ownership, CallShape, NodeUntouched,
        Goto, Move, CenterSteps, AgentSteps, CenterFault, AgentFault,
        versionVars, recordVars, requestVars, channelVars, processVars,
        nodeVars, centerVars, agentVars
<1>1. ASSUME NEW r \in Requests, NEW what \in {"validate", "publish"}, NEW c \in Configs,
             ArriveWithConfig(r, what, c)
      PROVE  NodeUntouched
  BY <1>1 DEF ArriveWithConfig
<1>2. ASSUME NEW r \in Requests, NEW v \in Requests, ArriveWithVersion(r, v)
      PROVE  NodeUntouched
  BY <1>2 DEF ArriveWithVersion
<1>3. ASSUME NEW r \in Requests, NEW v \in Requests, ArriveRollback(r, v)
      PROVE  NodeUntouched
  BY <1>3 DEF ArriveRollback
<1>4. ASSUME NEW r \in Requests, CreateVersion(r)
      PROVE  NodeUntouched
  BY <1>4 DEF CreateVersion
<1>5. ASSUME NEW r \in Requests, SaveValidated(r)
      PROVE  NodeUntouched
  BY <1>5 DEF SaveValidated
<1>6. ASSUME NEW r \in Requests, Dispatch(r)
      PROVE  NodeUntouched
  BY <1>6 DEF Dispatch, Channel!Open
<1>7. ASSUME NEW r \in Requests, Enqueue(r)
      PROVE  NodeUntouched
  BY <1>7 DEF Enqueue
<1>8. ASSUME NEW r \in Requests, EnqueueFails(r)
      PROVE  NodeUntouched
  BY <1>8 DEF EnqueueFails, CallFailed, Channel!Refuse
<1>9. ASSUME NEW r \in Requests, Timeout(r)
      PROVE  NodeUntouched
  BY <1>9 DEF Timeout, CallFailed, Channel!GiveUp
<1>10. ASSUME NEW r \in Requests, AnsweredError(r)
      PROVE  NodeUntouched
  BY <1>10 DEF AnsweredError, CallFailed, Channel!Answer
<1>11. ASSUME NEW r \in Requests, NEW a \in Agents, Answered(r, a)
      PROVE  NodeUntouched
  BY <1>11 DEF Answered, Channel!Answer
<1>12. ASSUME NEW r \in Requests, Record(r)
      PROVE  NodeUntouched
  BY <1>12 DEF Record
<1>13. ASSUME NEW r \in Requests, MarkVersion(r)
      PROVE  NodeUntouched
  BY <1>13 DEF MarkVersion, PublishedStatus
<1>14. ASSUME NEW r \in Requests, MarkFails(r)
      PROVE  NodeUntouched
  BY <1>14 DEF MarkFails
<1>15. ASSUME NEW r \in Requests, Audit(r)
      PROVE  NodeUntouched
  BY <1>15 DEF Audit
<1>16. ASSUME NEW r \in Requests, ErrorReturn(r)
      PROVE  NodeUntouched
  BY <1>16 DEF ErrorReturn
<1>17. ASSUME CenterCrash
      PROVE  NodeUntouched
  BY <1>17 DEF CenterCrash, Channel!Forget
<1> HIDE DEF TypeOK, Ownership, CallShape, NodeUntouched
<1> QED
  BY <1>1, <1>2, <1>3, <1>4, <1>5, <1>6, <1>7, <1>8, <1>9, <1>10, <1>11,
     <1>12, <1>13, <1>14, <1>15, <1>16, <1>17 DEF CenterStep, ArriveStep,
     CallStep, RecordStep

\* A process runs a task once, so it never changes a report.
LEMMA AgentFrame ==
    ASSUME TypeOK, NEW p \in Agents, AgentStep(p)
    PROVE  RowsUntouched
<1> USE DEF TypeOK, RowsUntouched, Goto, Move, CenterSteps, AgentSteps,
        CenterFault, AgentFault, versionVars, recordVars, requestVars,
        channelVars, processVars, nodeVars, centerVars, agentVars
<1>1. ASSUME NEW a \in Agents, NEW r \in Requests, Begin(a, r)
      PROVE  RowsUntouched
  BY <1>1 DEF Begin
<1>2. ASSUME NEW a \in Agents, NEW ok \in BOOLEAN, Test(a, ok)
      PROVE  RowsUntouched
  BY <1>2 DEF Test
<1>3. ASSUME NEW a \in Agents, Backup(a)
      PROVE  RowsUntouched
  BY <1>3 DEF Backup
<1>4. ASSUME NEW a \in Agents, Write(a)
      PROVE  RowsUntouched
  BY <1>4 DEF Write
<1>5. ASSUME NEW a \in Agents, ReloadDone(a)
      PROVE  RowsUntouched
  BY <1>5 DEF ReloadDone
<1>6. ASSUME NEW a \in Agents, ReloadRefused(a)
      PROVE  RowsUntouched
  BY <1>6 DEF ReloadRefused
<1>7. ASSUME NEW a \in Agents, ReloadMisreported(a)
      PROVE  RowsUntouched
  BY <1>7 DEF ReloadMisreported
<1>8. ASSUME NEW a \in Agents, Restore(a)
      PROVE  RowsUntouched
  BY <1>8 DEF Restore
<1>9. ASSUME NEW a \in Agents, Report(a)
      PROVE  RowsUntouched
  BY <1>9 DEF Report, Leave, Channel!Run
<1>10. ASSUME NEW a \in Agents, ReportError(a)
      PROVE  RowsUntouched
  BY <1>10 DEF ReportError, Leave, Channel!Run
<1>11. ASSUME NEW a \in Agents, AgentCrash(a)
      PROVE  RowsUntouched
  BY <1>11 DEF AgentCrash, Leave
<1> HIDE DEF TypeOK, RowsUntouched
<1> QED
  BY <1>1, <1>2, <1>3, <1>4, <1>5, <1>6, <1>7, <1>8, <1>9, <1>10, <1>11 DEF
     AgentStep

-----------------------------------------------------------------------------
(* One lemma per part of the invariant. *)

\* Types are kept.
LEMMA TypeNext ==
    ASSUME TypeOK, Ownership, CallShape, Taken, Next
    PROVE  TypeOK'
<1> USE BoundAssumption, RequestAssumption, ConfigAssumption DEF TypeOK,
        Ownership, CallShape, Taken, Goto, Move, CenterSteps, AgentSteps,
        CenterFault, AgentFault, versionVars, recordVars, requestVars,
        channelVars, processVars, nodeVars, centerVars, agentVars
<1>1. ASSUME NEW r \in Requests, NEW what \in {"validate", "publish"}, NEW c \in Configs,
             ArriveWithConfig(r, what, c)
      PROVE  TypeOK'
  BY <1>1 DEF ArriveWithConfig
<1>2. ASSUME NEW r \in Requests, NEW v \in Requests, ArriveWithVersion(r, v)
      PROVE  TypeOK'
  BY <1>2 DEF ArriveWithVersion
<1>3. ASSUME NEW r \in Requests, NEW v \in Requests, ArriveRollback(r, v)
      PROVE  TypeOK'
  BY <1>3 DEF ArriveRollback
<1>4. ASSUME NEW r \in Requests, CreateVersion(r)
      PROVE  TypeOK'
  BY <1>4 DEF CreateVersion
<1>5. ASSUME NEW r \in Requests, SaveValidated(r)
      PROVE  TypeOK'
  BY <1>5 DEF SaveValidated
<1>6. ASSUME NEW r \in Requests, Dispatch(r)
      PROVE  TypeOK'
  BY <1>6 DEF Dispatch, Channel!Open
<1>7. ASSUME NEW r \in Requests, Enqueue(r)
      PROVE  TypeOK'
  BY <1>7 DEF Enqueue
<1>8. ASSUME NEW r \in Requests, EnqueueFails(r)
      PROVE  TypeOK'
  BY <1>8 DEF EnqueueFails, CallFailed, Channel!Refuse
<1>9. ASSUME NEW r \in Requests, Timeout(r)
      PROVE  TypeOK'
  BY <1>9 DEF Timeout, CallFailed, Channel!GiveUp
<1>10. ASSUME NEW r \in Requests, AnsweredError(r)
      PROVE  TypeOK'
  BY <1>10 DEF AnsweredError, CallFailed, Channel!Answer
<1>11. ASSUME NEW r \in Requests, NEW a \in Agents, Answered(r, a)
      PROVE  TypeOK'
  BY <1>11 DEF Answered, Channel!Answer
<1>12. ASSUME NEW r \in Requests, Record(r)
      PROVE  TypeOK'
  BY <1>12 DEF Record
<1>13. ASSUME NEW r \in Requests, MarkVersion(r)
      PROVE  TypeOK'
  BY <1>13 DEF MarkVersion, PublishedStatus
<1>14. ASSUME NEW r \in Requests, MarkFails(r)
      PROVE  TypeOK'
  BY <1>14 DEF MarkFails
<1>15. ASSUME NEW r \in Requests, Audit(r)
      PROVE  TypeOK'
  <2>1. CASE audit' = [audit EXCEPT ![r] = task[r]] /\ UNCHANGED centerFaults
    BY <1>15, <2>1 DEF Audit
  <2>2. CASE CenterFault /\ UNCHANGED audit
    BY <1>15, <2>2 DEF Audit
  <2> QED BY <1>15, <2>1, <2>2 DEF Audit
<1>16. ASSUME NEW r \in Requests, ErrorReturn(r)
      PROVE  TypeOK'
  BY <1>16 DEF ErrorReturn
<1>17. ASSUME CenterCrash
      PROVE  TypeOK'
  BY <1>17 DEF CenterCrash, Channel!Forget
<1>18. ASSUME NEW a \in Agents, NEW r \in Requests, Begin(a, r)
      PROVE  TypeOK'
  BY <1>18 DEF Begin
<1>19. ASSUME NEW a \in Agents, NEW ok \in BOOLEAN, Test(a, ok)
      PROVE  TypeOK'
  BY <1>19 DEF Test
<1>20. ASSUME NEW a \in Agents, Backup(a)
      PROVE  TypeOK'
  BY <1>20 DEF Backup
<1>21. ASSUME NEW a \in Agents, Write(a)
      PROVE  TypeOK'
  BY <1>21 DEF Write, Sent
<1>22. ASSUME NEW a \in Agents, ReloadDone(a)
      PROVE  TypeOK'
  BY <1>22 DEF ReloadDone
<1>23. ASSUME NEW a \in Agents, ReloadRefused(a)
      PROVE  TypeOK'
  BY <1>23 DEF ReloadRefused
<1>24. ASSUME NEW a \in Agents, ReloadMisreported(a)
      PROVE  TypeOK'
  BY <1>24 DEF ReloadMisreported
<1>25. ASSUME NEW a \in Agents, Restore(a)
      PROVE  TypeOK'
  BY <1>25 DEF Restore
<1>26. ASSUME NEW a \in Agents, Report(a)
      PROVE  TypeOK'
  BY <1>26 DEF Report, Leave, Channel!Run
<1>27. ASSUME NEW a \in Agents, ReportError(a)
      PROVE  TypeOK'
  BY <1>27 DEF ReportError, Leave, Channel!Run
<1>28. ASSUME NEW a \in Agents, AgentCrash(a)
      PROVE  TypeOK'
  BY <1>28 DEF AgentCrash, Leave
<1> HIDE DEF TypeOK, Ownership, CallShape, Taken
<1> QED
  BY <1>1, <1>2, <1>3, <1>4, <1>5, <1>6, <1>7, <1>8, <1>9, <1>10, <1>11,
     <1>12, <1>13, <1>14, <1>15, <1>16, <1>17, <1>18, <1>19, <1>20, <1>21,
     <1>22, <1>23, <1>24, <1>25, <1>26, <1>27, <1>28 DEF Next, CenterStep,
     ArriveStep, CallStep, RecordStep, AgentStep

\* A request writes no version but its own.
LEMMA OwnershipNext ==
    ASSUME TypeOK, Ownership, Next
    PROVE  Ownership'
<1> USE RequestAssumption DEF TypeOK, Ownership, Goto, Move, CenterSteps,
        AgentSteps, CenterFault, AgentFault, versionVars, recordVars,
        requestVars, channelVars, processVars, nodeVars, centerVars, agentVars
<1>1. ASSUME NEW r \in Requests, NEW what \in {"validate", "publish"}, NEW c \in Configs,
             ArriveWithConfig(r, what, c)
      PROVE  Ownership'
  BY <1>1 DEF ArriveWithConfig
<1>2. ASSUME NEW r \in Requests, NEW v \in Requests, ArriveWithVersion(r, v)
      PROVE  Ownership'
  BY <1>2 DEF ArriveWithVersion
<1>3. ASSUME NEW r \in Requests, NEW v \in Requests, ArriveRollback(r, v)
      PROVE  Ownership'
  BY <1>3 DEF ArriveRollback
<1>4. ASSUME NEW r \in Requests, CreateVersion(r)
      PROVE  Ownership'
  BY <1>4 DEF CreateVersion
<1>5. ASSUME NEW r \in Requests, SaveValidated(r)
      PROVE  Ownership'
  BY <1>5 DEF SaveValidated
<1>6. ASSUME NEW r \in Requests, Dispatch(r)
      PROVE  Ownership'
  BY <1>6 DEF Dispatch, Channel!Open
<1>7. ASSUME NEW r \in Requests, Enqueue(r)
      PROVE  Ownership'
  BY <1>7 DEF Enqueue
<1>8. ASSUME NEW r \in Requests, EnqueueFails(r)
      PROVE  Ownership'
  BY <1>8 DEF EnqueueFails, CallFailed, Channel!Refuse
<1>9. ASSUME NEW r \in Requests, Timeout(r)
      PROVE  Ownership'
  BY <1>9 DEF Timeout, CallFailed, Channel!GiveUp
<1>10. ASSUME NEW r \in Requests, AnsweredError(r)
      PROVE  Ownership'
  BY <1>10 DEF AnsweredError, CallFailed, Channel!Answer
<1>11. ASSUME NEW r \in Requests, NEW a \in Agents, Answered(r, a)
      PROVE  Ownership'
  BY <1>11 DEF Answered, Channel!Answer
<1>12. ASSUME NEW r \in Requests, Record(r)
      PROVE  Ownership'
  BY <1>12 DEF Record
<1>13. ASSUME NEW r \in Requests, MarkVersion(r)
      PROVE  Ownership'
  BY <1>13 DEF MarkVersion, PublishedStatus
<1>14. ASSUME NEW r \in Requests, MarkFails(r)
      PROVE  Ownership'
  BY <1>14 DEF MarkFails
<1>15. ASSUME NEW r \in Requests, Audit(r)
      PROVE  Ownership'
  BY <1>15 DEF Audit
<1>16. ASSUME NEW r \in Requests, ErrorReturn(r)
      PROVE  Ownership'
  BY <1>16 DEF ErrorReturn
<1>17. ASSUME CenterCrash
      PROVE  Ownership'
  BY <1>17 DEF CenterCrash, Channel!Forget
<1>18. ASSUME NEW a \in Agents, AgentStep(a)
      PROVE  Ownership'
  BY <1>18, AgentFrame DEF RowsUntouched
<1> HIDE DEF TypeOK, Ownership
<1> QED
  BY <1>1, <1>2, <1>3, <1>4, <1>5, <1>6, <1>7, <1>8, <1>9, <1>10, <1>11,
     <1>12, <1>13, <1>14, <1>15, <1>16, <1>17, <1>18 DEF Next, CenterStep,
     ArriveStep, CallStep, RecordStep

\* A call goes with its request, and rows are numbered in order.
LEMMA CallNext ==
    ASSUME TypeOK, Ownership, CallShape, Next
    PROVE  CallShape'
<1> USE RequestAssumption DEF TypeOK, Ownership, CallShape, Goto, Move,
        CenterSteps, AgentSteps, CenterFault, AgentFault, versionVars,
        recordVars, requestVars, channelVars, processVars, nodeVars,
        centerVars, agentVars
<1>1. ASSUME NEW r \in Requests, NEW what \in {"validate", "publish"}, NEW c \in Configs,
             ArriveWithConfig(r, what, c)
      PROVE  CallShape'
  BY <1>1 DEF ArriveWithConfig
<1>2. ASSUME NEW r \in Requests, NEW v \in Requests, ArriveWithVersion(r, v)
      PROVE  CallShape'
  BY <1>2 DEF ArriveWithVersion
<1>3. ASSUME NEW r \in Requests, NEW v \in Requests, ArriveRollback(r, v)
      PROVE  CallShape'
  BY <1>3 DEF ArriveRollback
<1>4. ASSUME NEW r \in Requests, CreateVersion(r)
      PROVE  CallShape'
  BY <1>4 DEF CreateVersion
<1>5. ASSUME NEW r \in Requests, SaveValidated(r)
      PROVE  CallShape'
  BY <1>5 DEF SaveValidated
<1>6. ASSUME NEW r \in Requests, Dispatch(r)
      PROVE  CallShape'
  BY <1>6 DEF Dispatch, Channel!Open
<1>7. ASSUME NEW r \in Requests, Enqueue(r)
      PROVE  CallShape'
  BY <1>7 DEF Enqueue
<1>8. ASSUME NEW r \in Requests, EnqueueFails(r)
      PROVE  CallShape'
  BY <1>8 DEF EnqueueFails, CallFailed, Channel!Refuse
<1>9. ASSUME NEW r \in Requests, Timeout(r)
      PROVE  CallShape'
  BY <1>9 DEF Timeout, CallFailed, Channel!GiveUp
<1>10. ASSUME NEW r \in Requests, AnsweredError(r)
      PROVE  CallShape'
  BY <1>10 DEF AnsweredError, CallFailed, Channel!Answer
<1>11. ASSUME NEW r \in Requests, NEW a \in Agents, Answered(r, a)
      PROVE  CallShape'
  BY <1>11 DEF Answered, Channel!Answer
<1>12. ASSUME NEW r \in Requests, Record(r)
      PROVE  CallShape'
  BY <1>12 DEF Record
<1>13. ASSUME NEW r \in Requests, MarkVersion(r)
      PROVE  CallShape'
  BY <1>13 DEF MarkVersion, PublishedStatus
<1>14. ASSUME NEW r \in Requests, MarkFails(r)
      PROVE  CallShape'
  BY <1>14 DEF MarkFails
<1>15. ASSUME NEW r \in Requests, Audit(r)
      PROVE  CallShape'
  BY <1>15 DEF Audit
<1>16. ASSUME NEW r \in Requests, ErrorReturn(r)
      PROVE  CallShape'
  BY <1>16 DEF ErrorReturn
<1>17. ASSUME CenterCrash
      PROVE  CallShape'
  BY <1>17 DEF CenterCrash, Channel!Forget
<1>18. ASSUME NEW a \in Agents, AgentStep(a)
      PROVE  CallShape'
  BY <1>18, AgentFrame DEF RowsUntouched
<1> HIDE DEF TypeOK, Ownership, CallShape
<1> QED
  BY <1>1, <1>2, <1>3, <1>4, <1>5, <1>6, <1>7, <1>8, <1>9, <1>10, <1>11,
     <1>12, <1>13, <1>14, <1>15, <1>16, <1>17, <1>18 DEF Next, CenterStep,
     ArriveStep, CallStep, RecordStep

\* A process takes newer and newer rows and finishes what it has in hand.
LEMMA TakenNext ==
    ASSUME TypeOK, Ownership, CallShape, Taken, Next
    PROVE  Taken'
<1> USE RequestAssumption DEF TypeOK, Taken, Goto, Move, CenterSteps,
        AgentSteps, CenterFault, AgentFault, versionVars, recordVars,
        requestVars, channelVars, processVars, nodeVars, centerVars, agentVars
<1>1. ASSUME CenterStep
      PROVE  Taken'
  BY <1>1, CenterFrame DEF NodeUntouched
<1>2. ASSUME NEW a \in Agents, NEW r \in Requests, Begin(a, r)
      PROVE  Taken'
  BY <1>2 DEF Begin
<1>3. ASSUME NEW a \in Agents, NEW ok \in BOOLEAN, Test(a, ok)
      PROVE  Taken'
  BY <1>3 DEF Test
<1>4. ASSUME NEW a \in Agents, Backup(a)
      PROVE  Taken'
  BY <1>4 DEF Backup
<1>5. ASSUME NEW a \in Agents, Write(a)
      PROVE  Taken'
  BY <1>5 DEF Write
<1>6. ASSUME NEW a \in Agents, ReloadDone(a)
      PROVE  Taken'
  BY <1>6 DEF ReloadDone
<1>7. ASSUME NEW a \in Agents, ReloadRefused(a)
      PROVE  Taken'
  BY <1>7 DEF ReloadRefused
<1>8. ASSUME NEW a \in Agents, ReloadMisreported(a)
      PROVE  Taken'
  BY <1>8 DEF ReloadMisreported
<1>9. ASSUME NEW a \in Agents, Restore(a)
      PROVE  Taken'
  BY <1>9 DEF Restore
<1>10. ASSUME NEW a \in Agents, Report(a)
      PROVE  Taken'
  BY <1>10 DEF Report, Leave, Channel!Run
<1>11. ASSUME NEW a \in Agents, ReportError(a)
      PROVE  Taken'
  BY <1>11 DEF ReportError, Leave, Channel!Run
<1>12. ASSUME NEW a \in Agents, AgentCrash(a)
      PROVE  Taken'
  BY <1>12 DEF AgentCrash, Leave
<1> HIDE DEF TypeOK, Taken
<1> QED
  BY <1>1, <1>2, <1>3, <1>4, <1>5, <1>6, <1>7, <1>8, <1>9, <1>10, <1>11,
     <1>12 DEF Next, AgentStep

\* The test precedes the backup, and what was tested does not change.
LEMMA TestedNext ==
    ASSUME TypeOK, Ownership, CallShape, Taken, Tested, OnlyValidConfigs, Next
    PROVE  Tested'
<1> USE RequestAssumption, ConfigAssumption DEF TypeOK, Taken, Tested,
        OnlyValidConfigs, Sent, Goto, Move, CenterSteps, AgentSteps,
        CenterFault, AgentFault, versionVars, recordVars, requestVars,
        channelVars, processVars, nodeVars, centerVars, agentVars
<1>1. ASSUME CenterStep
      PROVE  Tested'
  <2> HIDE DEF TypeOK, Taken, Tested, OnlyValidConfigs, Sent
  <2>1. NodeUntouched
    BY <1>1, CenterFrame
  <2>2. ASSUME NEW a \in Agents, doing[a] # NoRequest
        PROVE  /\ Sent(a)' = Sent(a)
               /\ action'[doing[a]] = action[doing[a]]
    BY <2>1, <2>2 DEF NodeUntouched, CallShape, Taken, TypeOK, Sent
  <2>3. UNCHANGED <<at, doing, backup>>
    BY <2>1 DEF NodeUntouched
  <2> QED BY <2>2, <2>3 DEF Tested, Taken
<1>2. ASSUME NEW a \in Agents, NEW r \in Requests, Begin(a, r)
      PROVE  Tested'
  BY <1>2 DEF Begin
<1>3. ASSUME NEW a \in Agents, NEW ok \in BOOLEAN, Test(a, ok)
      PROVE  Tested'
  BY <1>3 DEF Test
<1>4. ASSUME NEW a \in Agents, Backup(a)
      PROVE  Tested'
  BY <1>4 DEF Backup
<1>5. ASSUME NEW a \in Agents, Write(a)
      PROVE  Tested'
  BY <1>5 DEF Write
<1>6. ASSUME NEW a \in Agents, ReloadDone(a)
      PROVE  Tested'
  BY <1>6 DEF ReloadDone
<1>7. ASSUME NEW a \in Agents, ReloadRefused(a)
      PROVE  Tested'
  BY <1>7 DEF ReloadRefused
<1>8. ASSUME NEW a \in Agents, ReloadMisreported(a)
      PROVE  Tested'
  BY <1>8 DEF ReloadMisreported
<1>9. ASSUME NEW a \in Agents, Restore(a)
      PROVE  Tested'
  BY <1>9 DEF Restore
<1>10. ASSUME NEW a \in Agents, Report(a)
      PROVE  Tested'
  BY <1>10 DEF Report, Leave, Channel!Run
<1>11. ASSUME NEW a \in Agents, ReportError(a)
      PROVE  Tested'
  BY <1>11 DEF ReportError, Leave, Channel!Run
<1>12. ASSUME NEW a \in Agents, AgentCrash(a)
      PROVE  Tested'
  BY <1>12 DEF AgentCrash, Leave
<1> HIDE DEF TypeOK, Taken, Tested, OnlyValidConfigs, Sent
<1> QED
  BY <1>1, <1>2, <1>3, <1>4, <1>5, <1>6, <1>7, <1>8, <1>9, <1>10, <1>11,
     <1>12 DEF Next, AgentStep

\* Only tested configs and backups are written.
LEMMA OnlyValidNext ==
    ASSUME TypeOK, Ownership, CallShape, Tested, OnlyValidConfigs, Next
    PROVE  OnlyValidConfigs'
<1> USE ConfigAssumption DEF TypeOK, Tested, OnlyValidConfigs, Sent, Goto,
        Move, CenterSteps, AgentSteps, CenterFault, AgentFault, versionVars,
        recordVars, requestVars, channelVars, processVars, nodeVars,
        centerVars, agentVars
<1>1. ASSUME CenterStep
      PROVE  OnlyValidConfigs'
  BY <1>1, CenterFrame DEF NodeUntouched
<1>2. ASSUME NEW a \in Agents, NEW r \in Requests, Begin(a, r)
      PROVE  OnlyValidConfigs'
  BY <1>2 DEF Begin
<1>3. ASSUME NEW a \in Agents, NEW ok \in BOOLEAN, Test(a, ok)
      PROVE  OnlyValidConfigs'
  BY <1>3 DEF Test
<1>4. ASSUME NEW a \in Agents, Backup(a)
      PROVE  OnlyValidConfigs'
  BY <1>4 DEF Backup
<1>5. ASSUME NEW a \in Agents, Write(a)
      PROVE  OnlyValidConfigs'
  BY <1>5 DEF Write
<1>6. ASSUME NEW a \in Agents, ReloadDone(a)
      PROVE  OnlyValidConfigs'
  BY <1>6 DEF ReloadDone
<1>7. ASSUME NEW a \in Agents, ReloadRefused(a)
      PROVE  OnlyValidConfigs'
  BY <1>7 DEF ReloadRefused
<1>8. ASSUME NEW a \in Agents, ReloadMisreported(a)
      PROVE  OnlyValidConfigs'
  BY <1>8 DEF ReloadMisreported
<1>9. ASSUME NEW a \in Agents, Restore(a)
      PROVE  OnlyValidConfigs'
  BY <1>9 DEF Restore
<1>10. ASSUME NEW a \in Agents, Report(a)
      PROVE  OnlyValidConfigs'
  BY <1>10 DEF Report, Leave, Channel!Run
<1>11. ASSUME NEW a \in Agents, ReportError(a)
      PROVE  OnlyValidConfigs'
  BY <1>11 DEF ReportError, Leave, Channel!Run
<1>12. ASSUME NEW a \in Agents, AgentCrash(a)
      PROVE  OnlyValidConfigs'
  BY <1>12 DEF AgentCrash, Leave
<1> HIDE DEF TypeOK, Tested, OnlyValidConfigs, Sent
<1> QED
  BY <1>1, <1>2, <1>3, <1>4, <1>5, <1>6, <1>7, <1>8, <1>9, <1>10, <1>11,
     <1>12 DEF Next, AgentStep

\* The task precedes the mark and the audit record.
LEMMA RecordedNext ==
    ASSUME TypeOK, CallShape, Recorded, Next
    PROVE  Recorded'
<1> USE DEF TypeOK, CallShape, Recorded, Goto, Move, CenterSteps, AgentSteps,
        CenterFault, AgentFault, versionVars, recordVars, requestVars,
        channelVars, processVars, nodeVars, centerVars, agentVars
<1>1. ASSUME NEW r \in Requests, NEW what \in {"validate", "publish"}, NEW c \in Configs,
             ArriveWithConfig(r, what, c)
      PROVE  Recorded'
  BY <1>1 DEF ArriveWithConfig
<1>2. ASSUME NEW r \in Requests, NEW v \in Requests, ArriveWithVersion(r, v)
      PROVE  Recorded'
  BY <1>2 DEF ArriveWithVersion
<1>3. ASSUME NEW r \in Requests, NEW v \in Requests, ArriveRollback(r, v)
      PROVE  Recorded'
  BY <1>3 DEF ArriveRollback
<1>4. ASSUME NEW r \in Requests, CreateVersion(r)
      PROVE  Recorded'
  BY <1>4 DEF CreateVersion
<1>5. ASSUME NEW r \in Requests, SaveValidated(r)
      PROVE  Recorded'
  BY <1>5 DEF SaveValidated
<1>6. ASSUME NEW r \in Requests, Dispatch(r)
      PROVE  Recorded'
  BY <1>6 DEF Dispatch, Channel!Open
<1>7. ASSUME NEW r \in Requests, Enqueue(r)
      PROVE  Recorded'
  BY <1>7 DEF Enqueue
<1>8. ASSUME NEW r \in Requests, EnqueueFails(r)
      PROVE  Recorded'
  BY <1>8 DEF EnqueueFails, CallFailed, Channel!Refuse
<1>9. ASSUME NEW r \in Requests, Timeout(r)
      PROVE  Recorded'
  BY <1>9 DEF Timeout, CallFailed, Channel!GiveUp
<1>10. ASSUME NEW r \in Requests, AnsweredError(r)
      PROVE  Recorded'
  BY <1>10 DEF AnsweredError, CallFailed, Channel!Answer
<1>11. ASSUME NEW r \in Requests, NEW a \in Agents, Answered(r, a)
      PROVE  Recorded'
  BY <1>11 DEF Answered, Channel!Answer
<1>12. ASSUME NEW r \in Requests, Record(r)
      PROVE  Recorded'
  BY <1>12 DEF Record
<1>13. ASSUME NEW r \in Requests, MarkVersion(r)
      PROVE  Recorded'
  BY <1>13 DEF MarkVersion, PublishedStatus
<1>14. ASSUME NEW r \in Requests, MarkFails(r)
      PROVE  Recorded'
  BY <1>14 DEF MarkFails
<1>15. ASSUME NEW r \in Requests, Audit(r)
      PROVE  Recorded'
  BY <1>15 DEF Audit
<1>16. ASSUME NEW r \in Requests, ErrorReturn(r)
      PROVE  Recorded'
  BY <1>16 DEF ErrorReturn
<1>17. ASSUME CenterCrash
      PROVE  Recorded'
  BY <1>17 DEF CenterCrash, Channel!Forget
<1>18. ASSUME NEW a \in Agents, AgentStep(a)
      PROVE  Recorded'
  BY <1>18, AgentFrame DEF RowsUntouched
<1> HIDE DEF TypeOK, CallShape, Recorded
<1> QED
  BY <1>1, <1>2, <1>3, <1>4, <1>5, <1>6, <1>7, <1>8, <1>9, <1>10, <1>11,
     <1>12, <1>13, <1>14, <1>15, <1>16, <1>17, <1>18 DEF Next, CenterStep,
     ArriveStep, CallStep, RecordStep

\* An answer repeats what a process has reported, and reports stay.
LEMMA AnswersNext ==
    ASSUME TypeOK, CallShape, Recorded, AnswersTrue, Next
    PROVE  AnswersTrue'
<1> USE DEF TypeOK, CallShape, Recorded, AnswersTrue, Reported, Goto, Move,
        CenterSteps, AgentSteps, CenterFault, AgentFault, versionVars,
        recordVars, requestVars, channelVars, processVars, nodeVars,
        centerVars, agentVars
<1>1. ASSUME NEW r \in Requests, NEW what \in {"validate", "publish"}, NEW c \in Configs,
             ArriveWithConfig(r, what, c)
      PROVE  AnswersTrue'
  BY <1>1 DEF ArriveWithConfig
<1>2. ASSUME NEW r \in Requests, NEW v \in Requests, ArriveWithVersion(r, v)
      PROVE  AnswersTrue'
  BY <1>2 DEF ArriveWithVersion
<1>3. ASSUME NEW r \in Requests, NEW v \in Requests, ArriveRollback(r, v)
      PROVE  AnswersTrue'
  BY <1>3 DEF ArriveRollback
<1>4. ASSUME NEW r \in Requests, CreateVersion(r)
      PROVE  AnswersTrue'
  BY <1>4 DEF CreateVersion
<1>5. ASSUME NEW r \in Requests, SaveValidated(r)
      PROVE  AnswersTrue'
  BY <1>5 DEF SaveValidated
<1>6. ASSUME NEW r \in Requests, Dispatch(r)
      PROVE  AnswersTrue'
  BY <1>6 DEF Dispatch, Channel!Open
<1>7. ASSUME NEW r \in Requests, Enqueue(r)
      PROVE  AnswersTrue'
  BY <1>7 DEF Enqueue
<1>8. ASSUME NEW r \in Requests, EnqueueFails(r)
      PROVE  AnswersTrue'
  BY <1>8 DEF EnqueueFails, CallFailed, Channel!Refuse
<1>9. ASSUME NEW r \in Requests, Timeout(r)
      PROVE  AnswersTrue'
  BY <1>9 DEF Timeout, CallFailed, Channel!GiveUp
<1>10. ASSUME NEW r \in Requests, AnsweredError(r)
      PROVE  AnswersTrue'
  BY <1>10 DEF AnsweredError, CallFailed, Channel!Answer
<1>11. ASSUME NEW r \in Requests, NEW a \in Agents, Answered(r, a)
      PROVE  AnswersTrue'
  BY <1>11 DEF Answered, Channel!Answer
<1>12. ASSUME NEW r \in Requests, Record(r)
      PROVE  AnswersTrue'
  BY <1>12 DEF Record
<1>13. ASSUME NEW r \in Requests, MarkVersion(r)
      PROVE  AnswersTrue'
  BY <1>13 DEF MarkVersion, PublishedStatus
<1>14. ASSUME NEW r \in Requests, MarkFails(r)
      PROVE  AnswersTrue'
  BY <1>14 DEF MarkFails
<1>15. ASSUME NEW r \in Requests, Audit(r)
      PROVE  AnswersTrue'
  BY <1>15 DEF Audit
<1>16. ASSUME NEW r \in Requests, ErrorReturn(r)
      PROVE  AnswersTrue'
  BY <1>16 DEF ErrorReturn
<1>17. ASSUME CenterCrash
      PROVE  AnswersTrue'
  BY <1>17 DEF CenterCrash, Channel!Forget
<1>18. ASSUME NEW a \in Agents, AgentStep(a)
      PROVE  AnswersTrue'
  <2> HIDE DEF TypeOK, CallShape, Recorded, AnswersTrue, Reported
  <2>1. RowsUntouched
    BY <1>18, AgentFrame
  <2>2. ASSUME NEW r \in Requests, NEW b \in Agents, ran[b][r] # "no"
        PROVE  ran'[b][r] = ran[b][r] /\ report'[b][r] = report[b][r]
    BY <2>1, <2>2 DEF RowsUntouched
  <2>3. UNCHANGED <<call, pc, success, task>>
    BY <2>1 DEF RowsUntouched
  <2>4. ASSUME NEW r \in Requests, call[r] \in {"ok", "failed"}
        PROVE  \E b \in Agents : ran'[b][r] = call[r]
    <3>1. PICK b \in Agents : ran[b][r] = call[r]
      BY <2>4 DEF AnswersTrue
    <3> QED BY <2>2, <2>4, <3>1
  <2>5. ASSUME NEW r \in Requests, Reported(r)
        PROVE  Reported(r)'
    <3>1. PICK b \in Agents : ran[b][r] = "ok" /\ report[b][r]
      BY <2>5 DEF Reported
    <3> QED BY <2>2, <3>1 DEF Reported
  <2> QED BY <2>3, <2>4, <2>5 DEF AnswersTrue
<1> HIDE DEF TypeOK, CallShape, Recorded, AnswersTrue, Reported
<1> QED
  BY <1>1, <1>2, <1>3, <1>4, <1>5, <1>6, <1>7, <1>8, <1>9, <1>10, <1>11,
     <1>12, <1>13, <1>14, <1>15, <1>16, <1>17, <1>18 DEF Next, CenterStep,
     ArriveStep, CallStep, RecordStep

\* A version is marked after the success of a publish of it was recorded.
LEMMA RecordsNext ==
    ASSUME TypeOK, Ownership, CallShape, Recorded, AnswersTrue, RecordsAgree,
           Next
    PROVE  RecordsAgree'
<1> USE RequestAssumption DEF TypeOK, Ownership, Recorded, AnswersTrue,
        RecordsAgree, Goto, Move, CenterSteps, AgentSteps, CenterFault,
        AgentFault, versionVars, recordVars, requestVars, channelVars,
        processVars, nodeVars, centerVars, agentVars
<1>1. ASSUME NEW r \in Requests, NEW what \in {"validate", "publish"}, NEW c \in Configs,
             ArriveWithConfig(r, what, c)
      PROVE  RecordsAgree'
  BY <1>1 DEF ArriveWithConfig
<1>2. ASSUME NEW r \in Requests, NEW v \in Requests, ArriveWithVersion(r, v)
      PROVE  RecordsAgree'
  BY <1>2 DEF ArriveWithVersion
<1>3. ASSUME NEW r \in Requests, NEW v \in Requests, ArriveRollback(r, v)
      PROVE  RecordsAgree'
  BY <1>3 DEF ArriveRollback
<1>4. ASSUME NEW r \in Requests, CreateVersion(r)
      PROVE  RecordsAgree'
  BY <1>4 DEF CreateVersion
<1>5. ASSUME NEW r \in Requests, SaveValidated(r)
      PROVE  RecordsAgree'
  BY <1>5 DEF SaveValidated
<1>6. ASSUME NEW r \in Requests, Dispatch(r)
      PROVE  RecordsAgree'
  BY <1>6 DEF Dispatch, Channel!Open
<1>7. ASSUME NEW r \in Requests, Enqueue(r)
      PROVE  RecordsAgree'
  BY <1>7 DEF Enqueue
<1>8. ASSUME NEW r \in Requests, EnqueueFails(r)
      PROVE  RecordsAgree'
  BY <1>8 DEF EnqueueFails, CallFailed, Channel!Refuse
<1>9. ASSUME NEW r \in Requests, Timeout(r)
      PROVE  RecordsAgree'
  BY <1>9 DEF Timeout, CallFailed, Channel!GiveUp
<1>10. ASSUME NEW r \in Requests, AnsweredError(r)
      PROVE  RecordsAgree'
  BY <1>10 DEF AnsweredError, CallFailed, Channel!Answer
<1>11. ASSUME NEW r \in Requests, NEW a \in Agents, Answered(r, a)
      PROVE  RecordsAgree'
  BY <1>11 DEF Answered, Channel!Answer
<1>12. ASSUME NEW r \in Requests, Record(r)
      PROVE  RecordsAgree'
  BY <1>12 DEF Record
<1>13. ASSUME NEW r \in Requests, MarkVersion(r)
      PROVE  RecordsAgree'
  BY <1>13 DEF MarkVersion, PublishedStatus
<1>14. ASSUME NEW r \in Requests, MarkFails(r)
      PROVE  RecordsAgree'
  BY <1>14 DEF MarkFails
<1>15. ASSUME NEW r \in Requests, Audit(r)
      PROVE  RecordsAgree'
  <2>1. CASE audit' = [audit EXCEPT ![r] = task[r]] /\ UNCHANGED centerFaults
    BY <1>15, <2>1 DEF Audit
  <2>2. CASE CenterFault /\ UNCHANGED audit
    BY <1>15, <2>2 DEF Audit
  <2> QED BY <1>15, <2>1, <2>2 DEF Audit
<1>16. ASSUME NEW r \in Requests, ErrorReturn(r)
      PROVE  RecordsAgree'
  BY <1>16 DEF ErrorReturn
<1>17. ASSUME CenterCrash
      PROVE  RecordsAgree'
  BY <1>17 DEF CenterCrash, Channel!Forget
<1>18. ASSUME NEW a \in Agents, AgentStep(a)
      PROVE  RecordsAgree'
  BY <1>18, AgentFrame DEF RowsUntouched
<1> HIDE DEF TypeOK, Ownership, Recorded, AnswersTrue, RecordsAgree
<1> QED
  BY <1>1, <1>2, <1>3, <1>4, <1>5, <1>6, <1>7, <1>8, <1>9, <1>10, <1>11,
     <1>12, <1>13, <1>14, <1>15, <1>16, <1>17, <1>18 DEF Next, CenterStep,
     ArriveStep, CallStep, RecordStep

\* A single process keeps others off the file, and its newest success in it.
LEMMA SoleAgentNext ==
    ASSUME TypeOK, Ownership, CallShape, Taken, Tested, SoleAgent, Next
    PROVE  SoleAgent'
<1> USE RequestAssumption DEF TypeOK, Taken, Tested, SoleAgent, OneAgent,
        Sent, ReportedPublish, NewestPublish, InPlace, Goto, Move,
        CenterSteps, AgentSteps, CenterFault, AgentFault, versionVars,
        recordVars, requestVars, channelVars, processVars, nodeVars,
        centerVars, agentVars
<1>1. ASSUME CenterStep
      PROVE  SoleAgent'
  <2> HIDE DEF TypeOK, Taken, Tested, SoleAgent, OneAgent, Sent, ReportedPublish,
               NewestPublish, InPlace
  <2>1. NodeUntouched
    BY <1>1, CenterFrame
  <2>2. ASSUME NEW a \in Agents, doing[a] # NoRequest
        PROVE  /\ Sent(a)' = Sent(a)
               /\ action'[doing[a]] = action[doing[a]]
    BY <2>1, <2>2 DEF NodeUntouched, CallShape, Taken, TypeOK, Sent
  <2>3. ASSUME NEW a \in Agents, NEW r \in begun[a]
        PROVE  /\ r \in Requests
               /\ rowId'[r] = rowId[r]
               /\ action'[r] = action[r]
               /\ vconfig'[version'[r]] = vconfig[version[r]]
    BY <2>1 DEF NodeUntouched, CallShape, Taken, TypeOK
  <2>4. UNCHANGED <<at, doing, begun, verdict, report, ran, file, live, loaded>>
    BY <2>1 DEF NodeUntouched
  <2>5. ASSUME NEW a \in Agents, NEW r \in begun[a], NewestPublish(r)'
        PROVE  NewestPublish(r)
    <3>1. ASSUME NEW b \in Agents, NEW q \in begun[b], action[q] # "validate"
          PROVE  rowId[q] =< rowId[r]
      BY <2>3, <2>4, <2>5, <3>1 DEF NewestPublish
    <3> QED BY <3>1 DEF NewestPublish
  <2>6. ASSUME OneAgent, NEW a \in Agents, NEW r \in Requests, ReportedPublish(a, r)'
        PROVE  /\ loaded'[r] = vconfig'[version'[r]]
               /\ NewestPublish(r)' => InPlace(r)'
    <3>1. r \in begun[a]
      BY <2>4, <2>6 DEF ReportedPublish, Taken
    <3>2. ReportedPublish(a, r)
      BY <2>3, <2>4, <2>6, <3>1 DEF ReportedPublish
    <3>3. loaded[r] = vconfig[version[r]] /\ (NewestPublish(r) => InPlace(r))
      BY <2>6, <3>2 DEF SoleAgent
    <3> QED BY <2>3, <2>4, <2>5, <3>1, <3>3 DEF InPlace
  <2>7. ASSUME OneAgent, NEW a \in Agents
        PROVE  /\ at'[a] = "reload" => file' = Sent(a)'
               /\ at'[a] = "restore" => ~verdict'[a]
               /\ at'[a] = "report" /\ verdict'[a] /\ action'[doing'[a]] # "validate" =>
                     loaded'[doing'[a]] = Sent(a)' /\ file' = Sent(a)' /\ live' = Sent(a)'
    BY <2>2, <2>4, <2>7 DEF SoleAgent, Taken
  <2> QED BY <2>6, <2>7 DEF SoleAgent, OneAgent
<1>2. ASSUME NEW a \in Agents, NEW r \in Requests, Begin(a, r)
      PROVE  SoleAgent'
  BY <1>2 DEF Begin
<1>3. ASSUME NEW a \in Agents, NEW ok \in BOOLEAN, Test(a, ok)
      PROVE  SoleAgent'
  BY <1>3 DEF Test
<1>4. ASSUME NEW a \in Agents, Backup(a)
      PROVE  SoleAgent'
  BY <1>4 DEF Backup
<1>5. ASSUME NEW a \in Agents, Write(a)
      PROVE  SoleAgent'
  <2> HIDE DEF TypeOK, Taken, Tested, SoleAgent, OneAgent, Sent, ReportedPublish,
               NewestPublish, InPlace
  <2>1. /\ at'[a] = "reload"
        /\ UNCHANGED <<doing, begun, verdict, report, ran, rowId, action,
                       version, vconfig, loaded>>
    BY <1>5 DEF Write, TypeOK
  <2>2. ASSUME NEW r \in Requests, ReportedPublish(a, r)
        PROVE  ~NewestPublish(r)
    <3>1. /\ r \in begun[a] /\ r # doing[a] /\ rowId[r] > 0
          /\ doing[a] \in begun[a] /\ rowId[r] =< rowId[doing[a]]
      BY <1>5, <2>2 DEF Write, ReportedPublish, Taken, TypeOK
    <3>2. rowId[r] # rowId[doing[a]] /\ rowId[r] \in Nat /\ rowId[doing[a]] \in Nat
      BY <3>1 DEF CallShape, TypeOK
    <3>3. ~(rowId[doing[a]] =< rowId[r])
      BY <3>1, <3>2
    <3>4. action[doing[a]] # "validate"
      BY <1>5 DEF Write, Tested
    <3> QED BY <3>1, <3>3, <3>4, Zenon DEF NewestPublish
  <2>3. ASSUME OneAgent, NEW r \in Requests, ReportedPublish(a, r)'
        PROVE  loaded'[r] = vconfig'[version'[r]] /\ ~NewestPublish(r)'
    <3>1. ReportedPublish(a, r)
      BY <2>1, <2>3 DEF ReportedPublish
    <3>2. ~NewestPublish(r)'
      BY <2>1, <2>2, <3>1 DEF NewestPublish
    <3> QED BY <2>1, <2>3, <3>1, <3>2 DEF SoleAgent
  <2>4. file' = Sent(a)
    BY <1>5 DEF Write, SoleAgent
  <2>5. ASSUME OneAgent, NEW b \in Agents
        PROVE  b = a
    BY <2>5 DEF OneAgent
  <2> QED BY <2>1, <2>3, <2>4, <2>5 DEF SoleAgent, OneAgent, Sent
<1>6. ASSUME NEW a \in Agents, ReloadDone(a)
      PROVE  SoleAgent'
  BY <1>6 DEF ReloadDone
<1>7. ASSUME NEW a \in Agents, ReloadRefused(a)
      PROVE  SoleAgent'
  BY <1>7 DEF ReloadRefused
<1>8. ASSUME NEW a \in Agents, ReloadMisreported(a)
      PROVE  SoleAgent'
  BY <1>8 DEF ReloadMisreported
<1>9. ASSUME NEW a \in Agents, Restore(a)
      PROVE  SoleAgent'
  <2> HIDE DEF TypeOK, Taken, Tested, SoleAgent, OneAgent, Sent, ReportedPublish,
               NewestPublish, InPlace
  <2>1. /\ at'[a] = "report"
        /\ UNCHANGED <<doing, begun, verdict, report, ran, rowId, action,
                       version, vconfig, loaded>>
    BY <1>9 DEF Restore, TypeOK
  <2>2. ASSUME NEW r \in Requests, ReportedPublish(a, r)
        PROVE  ~NewestPublish(r)
    <3>1. /\ r \in begun[a] /\ r # doing[a] /\ rowId[r] > 0
          /\ doing[a] \in begun[a] /\ rowId[r] =< rowId[doing[a]]
      BY <1>9, <2>2 DEF Restore, ReportedPublish, Taken, TypeOK
    <3>2. rowId[r] # rowId[doing[a]] /\ rowId[r] \in Nat /\ rowId[doing[a]] \in Nat
      BY <3>1 DEF CallShape, TypeOK
    <3>3. ~(rowId[doing[a]] =< rowId[r])
      BY <3>1, <3>2
    <3>4. action[doing[a]] # "validate"
      BY <1>9 DEF Restore, Tested
    <3> QED BY <3>1, <3>3, <3>4, Zenon DEF NewestPublish
  <2>3. ASSUME OneAgent, NEW r \in Requests, ReportedPublish(a, r)'
        PROVE  loaded'[r] = vconfig'[version'[r]] /\ ~NewestPublish(r)'
    <3>1. ReportedPublish(a, r)
      BY <2>1, <2>3 DEF ReportedPublish
    <3>2. ~NewestPublish(r)'
      BY <2>1, <2>2, <3>1 DEF NewestPublish
    <3> QED BY <2>1, <2>3, <3>1, <3>2 DEF SoleAgent
  <2>4. OneAgent => ~verdict[a]
    BY <1>9 DEF Restore, SoleAgent
  <2>5. ASSUME OneAgent, NEW b \in Agents
        PROVE  b = a
    BY <2>5 DEF OneAgent
  <2> QED BY <2>1, <2>3, <2>4, <2>5 DEF SoleAgent, OneAgent, Sent
<1>10. ASSUME NEW a \in Agents, Report(a)
      PROVE  SoleAgent'
  BY <1>10 DEF Report, Leave, Channel!Run
<1>11. ASSUME NEW a \in Agents, ReportError(a)
      PROVE  SoleAgent'
  BY <1>11 DEF ReportError, Leave, Channel!Run
<1>12. ASSUME NEW a \in Agents, AgentCrash(a)
      PROVE  SoleAgent'
  BY <1>12 DEF AgentCrash, Leave
<1> HIDE DEF TypeOK, Taken, Tested, SoleAgent, OneAgent, Sent, ReportedPublish,
        NewestPublish, InPlace
<1> QED
  BY <1>1, <1>2, <1>3, <1>4, <1>5, <1>6, <1>7, <1>8, <1>9, <1>10, <1>11,
     <1>12 DEF Next, AgentStep

\* A failed reload is undone.
LEMMA SoleAgreementNext ==
    ASSUME TypeOK, Ownership, CallShape, Taken, SoleAgent, SoleAgreement, Next
    PROVE  SoleAgreement'
<1> USE RequestAssumption, BoundAssumption DEF TypeOK, Taken, SoleAgent,
        SoleAgreement, OneAgent, Sent, Goto, Move, CenterSteps, AgentSteps,
        CenterFault, AgentFault, versionVars, recordVars, requestVars,
        channelVars, processVars, nodeVars, centerVars, agentVars
<1>1. ASSUME CenterStep
      PROVE  SoleAgreement'
  BY <1>1, CenterFrame DEF NodeUntouched
<1>2. ASSUME NEW a \in Agents, NEW r \in Requests, Begin(a, r)
      PROVE  SoleAgreement'
  BY <1>2 DEF Begin
<1>3. ASSUME NEW a \in Agents, NEW ok \in BOOLEAN, Test(a, ok)
      PROVE  SoleAgreement'
  BY <1>3 DEF Test
<1>4. ASSUME NEW a \in Agents, Backup(a)
      PROVE  SoleAgreement'
  BY <1>4 DEF Backup
<1>5. ASSUME NEW a \in Agents, Write(a)
      PROVE  SoleAgreement'
  BY <1>5 DEF Write
<1>6. ASSUME NEW a \in Agents, ReloadDone(a)
      PROVE  SoleAgreement'
  BY <1>6 DEF ReloadDone
<1>7. ASSUME NEW a \in Agents, ReloadRefused(a)
      PROVE  SoleAgreement'
  BY <1>7 DEF ReloadRefused
<1>8. ASSUME NEW a \in Agents, ReloadMisreported(a)
      PROVE  SoleAgreement'
  BY <1>8 DEF ReloadMisreported
<1>9. ASSUME NEW a \in Agents, Restore(a)
      PROVE  SoleAgreement'
  BY <1>9 DEF Restore
<1>10. ASSUME NEW a \in Agents, Report(a)
      PROVE  SoleAgreement'
  BY <1>10 DEF Report, Leave, Channel!Run
<1>11. ASSUME NEW a \in Agents, ReportError(a)
      PROVE  SoleAgreement'
  BY <1>11 DEF ReportError, Leave, Channel!Run
<1>12. ASSUME NEW a \in Agents, AgentCrash(a)
      PROVE  SoleAgreement'
  BY <1>12 DEF AgentCrash, Leave
<1> HIDE DEF TypeOK, Taken, SoleAgent, SoleAgreement, OneAgent, Sent
<1> QED
  BY <1>1, <1>2, <1>3, <1>4, <1>5, <1>6, <1>7, <1>8, <1>9, <1>10, <1>11,
     <1>12 DEF Next, AgentStep

\* A version is saved before it is sent to be published, and none is removed.
LEMMA VersionSavedNext ==
    ASSUME TypeOK, Ownership, CallShape, Recorded, VersionSaved, Next
    PROVE  VersionSaved'
<1> USE RequestAssumption DEF TypeOK, Ownership, CallShape, Recorded, VersionSaved, Goto, Move, CenterSteps, AgentSteps,
        CenterFault, AgentFault, versionVars, recordVars, requestVars,
        channelVars, processVars, nodeVars, centerVars, agentVars
<1>1. ASSUME NEW r \in Requests, NEW what \in {"validate", "publish"}, NEW c \in Configs,
             ArriveWithConfig(r, what, c)
      PROVE  VersionSaved'
  BY <1>1 DEF ArriveWithConfig
<1>2. ASSUME NEW r \in Requests, NEW v \in Requests, ArriveWithVersion(r, v)
      PROVE  VersionSaved'
  BY <1>2 DEF ArriveWithVersion
<1>3. ASSUME NEW r \in Requests, NEW v \in Requests, ArriveRollback(r, v)
      PROVE  VersionSaved'
  BY <1>3 DEF ArriveRollback
<1>4. ASSUME NEW r \in Requests, CreateVersion(r)
      PROVE  VersionSaved'
  BY <1>4 DEF CreateVersion
<1>5. ASSUME NEW r \in Requests, SaveValidated(r)
      PROVE  VersionSaved'
  BY <1>5 DEF SaveValidated
<1>6. ASSUME NEW r \in Requests, Dispatch(r)
      PROVE  VersionSaved'
  BY <1>6 DEF Dispatch, Channel!Open
<1>7. ASSUME NEW r \in Requests, Enqueue(r)
      PROVE  VersionSaved'
  BY <1>7 DEF Enqueue
<1>8. ASSUME NEW r \in Requests, EnqueueFails(r)
      PROVE  VersionSaved'
  BY <1>8 DEF EnqueueFails, CallFailed, Channel!Refuse
<1>9. ASSUME NEW r \in Requests, Timeout(r)
      PROVE  VersionSaved'
  BY <1>9 DEF Timeout, CallFailed, Channel!GiveUp
<1>10. ASSUME NEW r \in Requests, AnsweredError(r)
      PROVE  VersionSaved'
  BY <1>10 DEF AnsweredError, CallFailed, Channel!Answer
<1>11. ASSUME NEW r \in Requests, NEW a \in Agents, Answered(r, a)
      PROVE  VersionSaved'
  BY <1>11 DEF Answered, Channel!Answer
<1>12. ASSUME NEW r \in Requests, Record(r)
      PROVE  VersionSaved'
  BY <1>12 DEF Record
<1>13. ASSUME NEW r \in Requests, MarkVersion(r)
      PROVE  VersionSaved'
  BY <1>13 DEF MarkVersion, PublishedStatus
<1>14. ASSUME NEW r \in Requests, MarkFails(r)
      PROVE  VersionSaved'
  BY <1>14 DEF MarkFails
<1>15. ASSUME NEW r \in Requests, Audit(r)
      PROVE  VersionSaved'
  BY <1>15 DEF Audit
<1>16. ASSUME NEW r \in Requests, ErrorReturn(r)
      PROVE  VersionSaved'
  BY <1>16 DEF ErrorReturn
<1>17. ASSUME CenterCrash
      PROVE  VersionSaved'
  BY <1>17 DEF CenterCrash, Channel!Forget
<1>18. ASSUME NEW a \in Agents, AgentStep(a)
      PROVE  VersionSaved'
  BY <1>18, AgentFrame DEF RowsUntouched
<1> HIDE DEF TypeOK, Ownership, CallShape, Recorded, VersionSaved
<1> QED
  BY <1>1, <1>2, <1>3, <1>4, <1>5, <1>6, <1>7, <1>8, <1>9, <1>10, <1>11,
     <1>12, <1>13, <1>14, <1>15, <1>16, <1>17, <1>18 DEF Next, CenterStep,
     ArriveStep, CallStep, RecordStep

\* A success that a process reports has been loaded by its nginx.
LEMMA LoadedFirstNext ==
    ASSUME TypeOK, Ownership, CallShape, Taken, Tested, LoadedFirst, Next
    PROVE  LoadedFirst'
<1> USE RequestAssumption, ConfigAssumption DEF TypeOK, Taken, Tested,
        LoadedFirst, ReportedPublish, Sent, Goto, Move, CenterSteps, AgentSteps,
        CenterFault, AgentFault, versionVars, recordVars, requestVars,
        channelVars, processVars, nodeVars, centerVars, agentVars
<1>1. ASSUME CenterStep
      PROVE  LoadedFirst'
  <2> HIDE DEF TypeOK, Taken, Tested, LoadedFirst, ReportedPublish, Sent
  <2>1. NodeUntouched
    BY <1>1, CenterFrame
  <2>2. ASSUME NEW a \in Agents, NEW r \in begun[a]
        PROVE  r \in Requests /\ action'[r] = action[r]
    BY <2>1 DEF NodeUntouched, CallShape, Taken, TypeOK
  <2>3. UNCHANGED <<at, doing, begun, verdict, report, ran, loaded>>
    BY <2>1 DEF NodeUntouched
  <2>4. ASSUME NEW a \in Agents, at[a] # "idle"
        PROVE  doing[a] \in begun[a]
    BY <2>4 DEF Taken
  <2>5. ASSUME NEW a \in Agents, NEW r \in Requests, ran[a][r] # "no"
        PROVE  r \in begun[a]
    BY <2>5 DEF Taken
  <2> QED BY <2>2, <2>3, <2>4, <2>5 DEF LoadedFirst, ReportedPublish
<1>2. ASSUME NEW a \in Agents, NEW r \in Requests, Begin(a, r)
      PROVE  LoadedFirst'
  BY <1>2 DEF Begin
<1>3. ASSUME NEW a \in Agents, NEW ok \in BOOLEAN, Test(a, ok)
      PROVE  LoadedFirst'
  BY <1>3 DEF Test
<1>4. ASSUME NEW a \in Agents, Backup(a)
      PROVE  LoadedFirst'
  BY <1>4 DEF Backup
<1>5. ASSUME NEW a \in Agents, Write(a)
      PROVE  LoadedFirst'
  BY <1>5 DEF Write
<1>6. ASSUME NEW a \in Agents, ReloadDone(a)
      PROVE  LoadedFirst'
  BY <1>6 DEF ReloadDone
<1>7. ASSUME NEW a \in Agents, ReloadRefused(a)
      PROVE  LoadedFirst'
  BY <1>7 DEF ReloadRefused
<1>8. ASSUME NEW a \in Agents, ReloadMisreported(a)
      PROVE  LoadedFirst'
  BY <1>8 DEF ReloadMisreported
<1>9. ASSUME NEW a \in Agents, Restore(a)
      PROVE  LoadedFirst'
  BY <1>9 DEF Restore
<1>10. ASSUME NEW a \in Agents, Report(a)
      PROVE  LoadedFirst'
  BY <1>10 DEF Report, Leave, Channel!Run
<1>11. ASSUME NEW a \in Agents, ReportError(a)
      PROVE  LoadedFirst'
  BY <1>11 DEF ReportError, Leave, Channel!Run
<1>12. ASSUME NEW a \in Agents, AgentCrash(a)
      PROVE  LoadedFirst'
  BY <1>12 DEF AgentCrash, Leave
<1> HIDE DEF TypeOK, Taken, Tested, LoadedFirst, ReportedPublish, Sent
<1> QED
  BY <1>1, <1>2, <1>3, <1>4, <1>5, <1>6, <1>7, <1>8, <1>9, <1>10, <1>11,
     <1>12 DEF Next, AgentStep

-----------------------------------------------------------------------------
(* The invariant. *)

\* It holds initially: nothing has begun.
LEMMA InitIInv == Init => IInv
<1> SUFFICES ASSUME Init PROVE IInv
  OBVIOUS
<1> USE ConfigAssumption, RequestAssumption, BoundAssumption DEF Init, Channel!Init
<1>1. TypeOK
  BY DEF TypeOK
<1>2. Ownership /\ CallShape /\ Taken /\ Tested
  BY DEF Ownership, CallShape, Taken, Tested, CenterSteps
<1>3. Recorded /\ AnswersTrue
  BY DEF Recorded, AnswersTrue
<1>4. SoleAgent /\ SoleAgreement
  BY DEF SoleAgent, SoleAgreement, ReportedPublish
<1>5. OnlyValidConfigs /\ RecordsAgree
  BY DEF OnlyValidConfigs, RecordsAgree
<1>6. VersionSaved /\ LoadedFirst
  BY DEF VersionSaved, LoadedFirst, ReportedPublish, CenterSteps
<1> QED BY <1>1, <1>2, <1>3, <1>4, <1>5, <1>6 DEF IInv

\* Every step keeps it.
LEMMA NextIInv == IInv /\ [Next]_vars => IInv'
<1> SUFFICES ASSUME IInv, [Next]_vars PROVE IInv'
  OBVIOUS
<1>1. CASE Next
  BY <1>1, TypeNext, OwnershipNext, CallNext, TakenNext, TestedNext, OnlyValidNext,
     RecordedNext, AnswersNext, RecordsNext, SoleAgentNext, SoleAgreementNext,
     VersionSavedNext, LoadedFirstNext DEF IInv
<1>2. CASE UNCHANGED vars
  <2> USE <1>2 DEF IInv, vars, versionVars, recordVars, requestVars, channelVars,
                   processVars, nodeVars, centerVars, agentVars
  <2>1. TypeOK' /\ OnlyValidConfigs' /\ RecordsAgree'
    BY DEF TypeOK, OnlyValidConfigs, RecordsAgree
  <2>2. Ownership' /\ CallShape' /\ Taken' /\ Tested'
    BY DEF Ownership, CallShape, Taken, Tested, Sent
  <2>3. Recorded' /\ AnswersTrue'
    BY DEF Recorded, AnswersTrue, Reported
  <2>4. SoleAgent' /\ SoleAgreement'
    BY DEF SoleAgent, SoleAgreement, Sent, ReportedPublish, NewestPublish, InPlace
  <2>5. VersionSaved' /\ LoadedFirst'
    BY DEF VersionSaved, LoadedFirst, ReportedPublish
  <2> QED BY <2>1, <2>2, <2>3, <2>4, <2>5
<1> QED BY <1>1, <1>2

\* IInv is an invariant of remote publishing, for any number of overlapping
\* requests, processes of the node and faults.
THEOREM RemoteInvariance == Spec => []IInv
<1>1. Init => IInv
  BY InitIInv
<1>2. IInv /\ [Next]_vars => IInv'
  BY NextIInv
<1> QED BY <1>1, <1>2, PTL DEF Spec

-----------------------------------------------------------------------------
(* The properties. *)

\* Every reachable state is well typed.
THEOREM RemoteTypes == Spec => []TypeOK
<1>1. IInv => TypeOK
  BY DEF IInv
<1> QED BY <1>1, RemoteInvariance, PTL

\* No config that nginx -t rejects reaches the file or the nginx of the node, with
\* any number of processes that share them.
THEOREM RemoteValidConfigs == Spec => []OnlyValidConfigs
<1>1. IInv => OnlyValidConfigs
  BY DEF IInv
<1> QED BY <1>1, RemoteInvariance, PTL

\* Published versions have a successful task, which was answered, and audit
\* records agree with tasks.
THEOREM RemoteRecords == Spec => []RecordsAgree
<1>1. IInv => RecordsAgree
  BY DEF IInv
<1> QED BY <1>1, RemoteInvariance, PTL

\* A recorded success was reported by the process that is alone on its node.
LEMMA SuccessReported ==
    ASSUME IInv, NEW r \in Requests, task[r] = "success"
    PROVE  /\ action[r] # "validate"
           /\ \E a \in Agents : ran[a][r] = "ok" /\ report[a][r]
  BY DEF IInv, AnswersTrue, Reported, Recorded

\* With one process, a recorded success means that nginx loaded the version.
THEOREM RemoteDelivery == Spec => []SuccessDelivers
<1>1. IInv => SuccessDelivers
  BY SuccessReported DEF IInv, SoleAgent, SuccessDelivers, OneAgent,
     ReportedPublish
<1> QED BY <1>1, RemoteInvariance, PTL

\* With one process, the newest success stays in the file and in nginx.
THEOREM NewestWins == Spec => []NewestSuccessStands
<1>1. IInv => NewestSuccessStands
  BY SuccessReported DEF IInv, SoleAgent, NewestSuccessStands,
     ReportedPublish
<1> QED BY <1>1, RemoteInvariance, PTL

\* With one process that did not fail, nginx runs the managed file between two
\* tasks.
THEOREM RemoteAgreement == Spec => []AgentAgreement
<1>1. IInv => AgentAgreement
  <2> SUFFICES ASSUME IInv, OneAgent, agentFaults = 0, \A a \in Agents : at[a] = "idle"
               PROVE  live \in {NoConfig, file}
    BY DEF AgentAgreement
  <2>1. PICK a \in Agents : at[a] = "idle"
    BY DEF OneAgent
  <2> QED BY <2>1 DEF IInv, SoleAgreement
<1> QED BY <1>1, RemoteInvariance, PTL

\* With one process, the node is done with a request whose outcome is recorded,
\* unless the outcome is a timeout.
THEOREM RemoteSettled == Spec => SettledForGood
<1> DEFINE Settled == OneAgent => \A r \in Requests :
                          task[r] # "none" /\ call[r] # "timeout" => loaded'[r] = loaded[r]
<1>1. IInv /\ [Next]_vars => Settled
  <2> SUFFICES ASSUME IInv, [Next]_vars, OneAgent, NEW r \in Requests,
                      task[r] # "none", call[r] # "timeout"
               PROVE  loaded'[r] = loaded[r]
    OBVIOUS
  <2>1. \A a \in Agents : doing[a] # r
    <3>1. call[r] \in {"ok", "failed", "error"}
      BY DEF IInv, Recorded
    <3>2. CASE call[r] = "error"
      <4>1. ~(rowId[r] > 0)
        BY <3>2 DEF IInv, CallShape
      <4>2. ASSUME NEW a \in Agents, doing[a] = r
            PROVE  rowId[r] > 0
        BY <4>2, RequestAssumption DEF IInv, Taken
      <4> QED BY <4>1, <4>2
    <3>3. CASE call[r] \in {"ok", "failed"}
      <4>1. PICK b \in Agents : ran[b][r] = call[r]
        BY <3>3 DEF IInv, AnswersTrue
      <4>2. r # doing[b]
        BY <3>3, <4>1 DEF IInv, Taken
      <4> QED BY <4>2 DEF OneAgent
    <3> QED BY <3>1, <3>2, <3>3
  <2>2. CASE CenterStep
    BY <2>2, CenterFrame DEF IInv, NodeUntouched, agentVars, nodeVars
  <2>3. CASE \E a \in Agents : AgentStep(a)
    <3>1. PICK a \in Agents : AgentStep(a)
      BY <2>3
    <3>2. \/ UNCHANGED loaded
          \/ loaded' = [loaded EXCEPT ![doing[a]] = file]
      BY <3>1 DEF AgentStep, Begin, Test, Backup, Write, ReloadDone, ReloadRefused,
                  ReloadMisreported, Restore, Report, ReportError, AgentCrash, Leave,
                  nodeVars
    <3> QED BY <2>1, <3>2 DEF IInv, TypeOK
  <2>4. CASE UNCHANGED vars
    BY <2>4 DEF vars, agentVars, nodeVars
  <2> QED BY <2>2, <2>3, <2>4 DEF Next
<1> HIDE DEF Settled
<1>2. IInv /\ [Next]_vars => [Settled]_vars
  BY <1>1
<1>3. Spec => [][Settled]_vars
  BY <1>2, RemoteInvariance, PTL DEF Spec
<1> QED BY <1>3 DEF SettledForGood, Settled

-----------------------------------------------------------------------------
(* The order of the queue. *)

\* A process finishes a task in the order of the queue: of what it has begun,
\* the task in hand is the newest, and it was queued.
LEMMA RunQueued ==
    ASSUME IInv, NEW a \in Agents, at[a] # "idle", NEW o \in {"ok", "failed"},
           Channel!Run(a, doing[a], o), UNCHANGED rowId
    PROVE  Channel!CallNext
<1>1. doing[a] \in Requests /\ doing[a] \in begun[a]
  BY DEF IInv, TypeOK, Taken
<1>2. rowId[doing[a]] > 0
  BY <1>1 DEF IInv, Taken
<1>3. ASSUME NEW q \in Requests, ran[a][q] # "no"
      PROVE  rowId[q] < rowId[doing[a]]
  <2>1. q \in begun[a] /\ q # doing[a]
    BY <1>3 DEF IInv, Taken
  <2>2. rowId[q] > 0 /\ rowId[q] =< rowId[doing[a]]
    BY <1>1, <2>1, RequestAssumption DEF IInv, Taken
  <2>3. rowId[q] # rowId[doing[a]]
    BY <1>1, <2>1, <2>2 DEF IInv, CallShape
  <2>4. rowId[q] \in Nat /\ rowId[doing[a]] \in Nat
    BY <1>1 DEF IInv, TypeOK
  <2> QED BY <2>2, <2>3, <2>4
<1>4. Channel!RunInOrder(a, doing[a], o)
  BY <1>2, <1>3 DEF Channel!RunInOrder
<1> QED BY <1>1, <1>4 DEF Channel!CallNext

\* A step of a call is one of the queue.
LEMMA CallQueued ==
    ASSUME IInv, NEW r \in Requests, CallStep(r)
    PROVE  Channel!QueueNext
<1>1. CASE Dispatch(r)
  BY <1>1 DEF Dispatch, Channel!CallNext, Channel!QueueNext
<1>2. CASE Enqueue(r)
  <2>1. call[r] = "open" /\ rowId[r] = 0
    BY <1>2 DEF IInv, CallShape, Enqueue
  <2>2. rowId' = [rowId EXCEPT ![r] = nextId] /\ rowId' \in [Requests -> Nat]
    BY <1>2 DEF IInv, TypeOK, Enqueue
  <2>3. /\ \A q \in Requests : rowId[q] < rowId'[r]
        /\ \A q \in Requests \ {r} : rowId'[q] = rowId[q]
    BY <2>2 DEF IInv, TypeOK, CallShape
  <2>4. Channel!Insert(r)
    BY <1>2, <2>1, <2>2, <2>3 DEF Channel!Insert, Channel!callVars, Enqueue
  <2> QED BY <2>4 DEF Channel!QueueNext
<1>3. CASE EnqueueFails(r)
  <2>1. rowId[r] = 0 /\ UNCHANGED rowId /\ Channel!Refuse(r)
    BY <1>3 DEF IInv, CallShape, EnqueueFails, CallFailed
  <2> QED BY <2>1 DEF Channel!RefuseUnqueued, Channel!CallNext, Channel!QueueNext
<1>4. CASE Timeout(r)
  BY <1>4 DEF Timeout, CallFailed, Channel!CallNext, Channel!QueueNext
<1>5. CASE AnsweredError(r)
  BY <1>5 DEF AnsweredError, CallFailed, Channel!CallNext, Channel!QueueNext
<1>6. ASSUME NEW a \in Agents, Answered(r, a) PROVE Channel!QueueNext
  BY <1>6 DEF Answered, Channel!CallNext, Channel!QueueNext
<1> QED BY <1>1, <1>2, <1>3, <1>4, <1>5, <1>6 DEF CallStep

\* Every step is one of the queue or leaves it alone.
LEMMA NextQueued ==
    IInv /\ [Next]_vars => [Channel!QueueNext]_(Channel!queueVars)
<1> SUFFICES ASSUME IInv, [Next]_vars PROVE [Channel!QueueNext]_(Channel!queueVars)
  OBVIOUS
<1>1. ASSUME UNCHANGED channelVars PROVE [Channel!QueueNext]_(Channel!queueVars)
  BY <1>1 DEF channelVars, Channel!queueVars, Channel!callVars
<1>2. ASSUME NEW r \in Requests, ArriveStep(r) \/ RecordStep(r)
      PROVE  UNCHANGED channelVars
  BY <1>2 DEF ArriveStep, ArriveWithConfig, ArriveWithVersion, ArriveRollback, RecordStep,
     CreateVersion, SaveValidated, Record, MarkVersion, MarkFails, Audit, ErrorReturn
<1>3. CASE CenterCrash
  BY <1>3 DEF CenterCrash, Channel!CallNext, Channel!QueueNext
<1>4. CASE CenterStep
  BY <1>1, <1>2, <1>3, <1>4, CallQueued DEF CenterStep
<1>5. ASSUME NEW a \in Agents, AgentStep(a)
      PROVE  [Channel!QueueNext]_(Channel!queueVars)
  <2>1. CASE Report(a)
    <3>1. /\ at[a] # "idle" /\ UNCHANGED rowId
          /\ Channel!Run(a, doing[a], "ok")
      BY <2>1 DEF Report
    <3> QED BY <3>1, RunQueued DEF Channel!QueueNext
  <2>2. CASE ReportError(a)
    <3>1. /\ at[a] # "idle" /\ UNCHANGED rowId
          /\ Channel!Run(a, doing[a], "failed")
      BY <2>2 DEF ReportError
    <3> QED BY <3>1, RunQueued DEF Channel!QueueNext
  <2>3. CASE UNCHANGED channelVars
    BY <1>1, <2>3
  <2> QED BY <1>5, <2>1, <2>2, <2>3 DEF AgentStep, Begin, Test, Backup, Write, ReloadDone,
          ReloadRefused, ReloadMisreported, Restore, AgentCrash
<1>6. CASE UNCHANGED vars
  BY <1>1, <1>6 DEF vars
<1> QED BY <1>4, <1>5, <1>6 DEF Next

\* Requests and processes together keep to the promised queue, whatever crashes:
\* a process finishes newer and newer tasks, each once (Dispatch, handleTask).
THEOREM RemoteQueue == Spec => KeepsTaskQueue
<1>1. Init => Channel!QueueInit
  BY DEF Init, Channel!QueueInit
<1> QED BY <1>1, NextQueued, RemoteInvariance, PTL DEF Spec, KeepsTaskQueue, Channel!QueueSpec

-----------------------------------------------------------------------------
(* The record of the publishes. *)

\* A request arrives and chooses its version; nothing else is recorded.
LEMMA ArriveRecord ==
    ASSUME IInv, NEW r \in Requests, ArriveStep(r)
    PROVE  Tables!Next
<1>1. version[r] = NoRequest
  <2>1. pc[r] = "idle"
    BY DEF ArriveStep, ArriveWithConfig, ArriveWithVersion, ArriveRollback
  <2> QED BY <2>1 DEF IInv, Ownership
<1>2. UNCHANGED <<vstatus, task, audit, Served>>
  BY DEF ArriveStep, ArriveWithConfig, ArriveWithVersion, ArriveRollback,
         versionVars, recordVars, agentVars, nodeVars, Served
<1>3. \E v \in Requests : (v = r \/ vstatus[v] # "none") /\ version' = [version EXCEPT ![r] = v]
  BY DEF ArriveStep, ArriveWithConfig, ArriveWithVersion, ArriveRollback
<1>4. PICK v \in Requests : Tables!Choose(r, v)
  BY <1>1, <1>2, <1>3 DEF Tables!Choose, Tables!Saved
<1> QED BY <1>4 DEF Tables!Next

\* The center records one thing of a request, in its order, or nothing.
LEMMA CenterRecord ==
    ASSUME IInv, NEW r \in Requests, RecordStep(r)
    PROVE  Tables!Next \/ UNCHANGED Tables!recordVars
<1> USE DEF versionVars, recordVars, requestVars, agentVars, nodeVars
<1>1. CASE CreateVersion(r) \/ SaveValidated(r)
  <2>1. version[r] = r /\ vstatus[r] = "none"
    BY <1>1 DEF CreateVersion, SaveValidated, IInv, VersionSaved, CenterSteps
  <2>2. PICK s \in {"validated", "rolled_back"} : vstatus' = [vstatus EXCEPT ![r] = s]
    BY <1>1 DEF CreateVersion, SaveValidated
  <2>3. Tables!Save(r, s)
    BY <1>1, <2>1, <2>2 DEF CreateVersion, SaveValidated, Tables!Save, Tables!Saved, Served
  <2> QED BY <2>3 DEF Tables!Next
<1>2. CASE Record(r)
  <2>1. action[r] # "validate" /\ task[r] = "none"
    BY <1>2 DEF Record, IInv, Recorded
  <2>2. version[r] # NoRequest /\ vstatus[version[r]] # "none"
    BY <1>2, <2>1 DEF Record, IInv, Ownership, VersionSaved, CenterSteps
  <2>3. success[r] => r \in Served
    <3>1. success[r] => Reported(r)
      BY <1>2 DEF Record, IInv, AnswersTrue
    <3> QED BY <2>1, <3>1 DEF Reported, ReportedPublish, Served, IInv, LoadedFirst
  <2>4. PICK o \in {"success", "failed"} :
           task' = [task EXCEPT ![r] = o] /\ (o = "success" => r \in Served)
    BY <1>2, <2>3 DEF Record
  <2>5. Tables!Record(r, o)
    BY <1>2, <2>1, <2>2, <2>4 DEF Record, Tables!Record, Tables!Saved, Served
  <2> QED BY <2>5 DEF Tables!Next
<1>3. CASE MarkVersion(r)
  <2>1. task[r] = "success"
    BY <1>3 DEF MarkVersion, IInv, Recorded
  <2>2. Tables!Mark(r, PublishedStatus(r))
    BY <1>3, <2>1 DEF MarkVersion, PublishedStatus, Tables!Mark, Served, IInv, VersionSaved
  <2> QED BY <2>2 DEF PublishedStatus, Tables!Next
<1>4. CASE Audit(r)
  <2>1. task[r] # "none" /\ audit[r] = "none"
    BY <1>4 DEF Audit, IInv, Recorded
  <2>2. Tables!Audit(r) \/ UNCHANGED Tables!recordVars
    BY <1>4, <2>1 DEF Audit, Tables!Audit, Tables!recordVars, Served
  <2> QED BY <2>2 DEF Tables!Next
<1>5. CASE MarkFails(r) \/ ErrorReturn(r)
  BY <1>5 DEF MarkFails, ErrorReturn, Tables!recordVars, Served
<1> QED BY <1>1, <1>2, <1>3, <1>4, <1>5 DEF RecordStep

\* A process only adds reloads, of requests whose versions are saved.
LEMMA AgentRecord ==
    ASSUME IInv, NEW a \in Agents, AgentStep(a)
    PROVE  Tables!Next \/ UNCHANGED Tables!recordVars
<1>1. UNCHANGED <<version, vstatus, task, audit>>
  BY AgentFrame DEF IInv, RowsUntouched, centerVars, versionVars, recordVars, requestVars
<1>2. CASE ReloadDone(a) \/ ReloadMisreported(a)
  <2> DEFINE r == doing[a]
  <2>1. r \in Requests /\ rowId[r] > 0 /\ action[r] # "validate"
    BY <1>2 DEF ReloadDone, ReloadMisreported, IInv, TypeOK, Taken, Tested
  <2>2. version[r] # NoRequest /\ vstatus[version[r]] # "none"
    BY <2>1 DEF IInv, CallShape, VersionSaved
  <2>3. Served' = Served \cup {r}
    <3>1. file \in ValidConfigs /\ loaded' = [loaded EXCEPT ![r] = file]
      BY <1>2 DEF ReloadDone, ReloadMisreported
    <3> QED BY <2>1, <3>1, ConfigAssumption DEF Served, IInv, TypeOK
  <2>4. Tables!Serve(r)
    BY <1>1, <2>2, <2>3 DEF Tables!Serve, Tables!Saved
  <2> QED BY <2>1, <2>4 DEF Tables!Next
<1>3. CASE UNCHANGED loaded
  BY <1>1, <1>3 DEF Tables!recordVars, Served
<1> QED BY <1>2, <1>3 DEF AgentStep, Begin, Test, Backup, Write, ReloadRefused, Restore,
       Report, ReportError, AgentCrash, Leave, nodeVars

\* The tables of the center are in the order of PublishRecord although the node
\* answers late, twice or never: a recorded success was loaded before.
THEOREM RemoteRecordRefinement == Spec => KeepsRecord
<1>1. Init => Tables!Init
  BY DEF Init, Tables!Init, Served
<1>2. IInv /\ [Next]_vars => [Tables!Next]_(Tables!recordVars)
  <2> SUFFICES ASSUME IInv, [Next]_vars PROVE Tables!Next \/ UNCHANGED Tables!recordVars
    OBVIOUS
  <2>1. CASE CenterCrash \/ UNCHANGED vars \/ \E r \in Requests : CallStep(r)
    BY <2>1 DEF CenterCrash, vars, centerVars, agentVars, nodeVars, versionVars,
       recordVars, requestVars, CallStep, Dispatch, Enqueue, EnqueueFails, Timeout,
       AnsweredError, Answered, CallFailed, Tables!recordVars, Served
  <2> QED BY <2>1, ArriveRecord, CenterRecord, AgentRecord DEF Next, CenterStep
<1> QED BY <1>1, <1>2, RemoteInvariance, PTL DEF Spec, KeepsRecord, Tables!Spec
=============================================================================
