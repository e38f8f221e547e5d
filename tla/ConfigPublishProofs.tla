------------------------- MODULE ConfigPublishProofs -------------------------
(* Proofs about ConfigPublish, for any requests, configs and bounds. *)
EXTENDS ConfigPublish, TLAPS

-----------------------------------------------------------------------------
(* Facts about the operators of the model. *)

\* The status a version is created with.
LEMMA FirstStatusType ==
    ASSUME NEW r \in Requests
    PROVE  FirstStatus(r) \in {"rendered", "rolled_back", "validated"}
  BY Zenon DEF FirstStatus

\* A version is created with a Boolean validate_ok.
LEMMA FirstValidateOKType ==
    ASSUME NEW r \in Requests, success[r] \in BOOLEAN
    PROVE  FirstValidateOK(r) \in BOOLEAN
  BY DEF FirstValidateOK

\* What an arriving request learns of the others, and they of it.
LEMMA ArriveAlone ==
    ASSUME TypeOK, NEW r \in Requests, NEW step, NEW a, Arrive(r, step, a)
    PROVE  /\ alone'[r] => \A o \in Requests : ~InFlight(o)
           /\ \A q \in Requests \ {r} : alone'[q] <=> alone[q] /\ ~InFlight(q)
<1>1. alone' = [q \in Requests |->
                  IF q = r THEN \A o \in Requests : ~InFlight(o)
                  ELSE alone[q] /\ ~InFlight(q)]
  BY DEF Arrive
<1>2. alone'[r] = \A o \in Requests : ~InFlight(o)
  BY <1>1, Zenon
<1>3. \A q \in Requests \ {r} : alone'[q] = (alone[q] /\ ~InFlight(q))
  BY <1>1, Zenon
<1> QED BY <1>2, <1>3

\* An arrival changes neither records nor file nor nginx.
LEMMA ArriveFrame ==
    ASSUME TypeOK, NEW r \in Requests, NEW step, NEW a, Arrive(r, step, a)
    PROVE  /\ pc[r] = "idle"
           /\ pc' = [pc EXCEPT ![r] = step]
           /\ UNCHANGED <<vstatus, recordVars, nginxVars, scopeVars, loaded, faults>>
  BY DEF Arrive, Goto, recordVars, nginxVars, scopeVars

-----------------------------------------------------------------------------
(* One lemma per part of the invariant, one step per action. *)

\* Types are kept; that a published version has a config is Ownership.
LEMMA TypeNext ==
    ASSUME TypeOK, Ownership, Next
    PROVE  TypeOK'
<1> USE BoundAssumption, VersionAssumption DEF TypeOK, Ownership, Outcomes,
        StatusText, Goto, InFlight, Steps, Fault, versionVars, recordVars,
        nginxVars, requestVars, scopeVars, localVars
<1>1. ASSUME NEW r \in Requests, NEW a \in {"render", "validate", "publish"},
                    NEW c \in Configs, ArriveWithConfig(r, a, c)
      PROVE  TypeOK'
  BY <1>1 DEF ArriveWithConfig, Arrive
<1>2. ASSUME NEW r \in Requests, NEW v \in Requests, ArriveWithVersion(r, v)
      PROVE  TypeOK'
  BY <1>2 DEF ArriveWithVersion, Arrive
<1>3. ASSUME NEW r \in Requests, NEW v \in Requests, ArriveRollback(r, v)
      PROVE  TypeOK'
  BY <1>3 DEF ArriveRollback, Arrive
<1>4. ASSUME NEW r \in Requests, CreateVersion(r)
      PROVE  TypeOK'
  <2> HIDE DEF TypeOK
  <2>1. validateOK' \in [Requests -> BOOLEAN]
    BY <1>4, FirstValidateOKType DEF CreateVersion, TypeOK
  <2>2. vstatus' \in [Requests -> {"none", "rendered", "validated", "published",
                                  "rolled_back"}]
    BY <1>4, FirstStatusType DEF CreateVersion, TypeOK
  <2>3. /\ success' \in [Requests -> BOOLEAN]
        /\ backup' \in [Requests -> Configs \cup {NoConfig}]
        /\ before' \in [Requests -> Configs \cup {NoConfig}]
        /\ pc' \in [Requests -> {"idle", "done"} \cup Steps]
        /\ reply' \in [Requests -> {"none", "ok", "failed", "error", "lost"}]
    <3>1. CASE action[r] \in {"publish", "rollback"}
      BY <1>4, <3>1 DEF CreateVersion, TypeOK
    <3>2. CASE action[r] \notin {"publish", "rollback"}
      <4>1. PICK x \in {"ok", "failed"} : Return(r, x)
        BY <1>4, <3>2 DEF CreateVersion
      <4> QED BY <4>1 DEF Return, TypeOK
    <3> QED BY <3>1, <3>2
  <2>4. UNCHANGED <<vconfig, rollbackFrom, task, audit, file, live, action,
                  version, loaded, alone, faults>>
    BY <1>4 DEF CreateVersion
  <2> QED BY <2>1, <2>2, <2>3, <2>4 DEF TypeOK
<1>5. ASSUME NEW r \in Requests, Resolve(r)
      PROVE  TypeOK'
  BY <1>5 DEF Resolve
<1>6. ASSUME NEW r \in Requests, NEW ok \in BOOLEAN, Test(r, ok)
      PROVE  TypeOK'
  BY <1>6 DEF Test
<1>7. ASSUME NEW r \in Requests, Reject(r)
      PROVE  TypeOK'
  BY <1>7 DEF Reject
<1>8. ASSUME NEW r \in Requests, Backup(r)
      PROVE  TypeOK'
  BY <1>8 DEF Backup
<1>9. ASSUME NEW r \in Requests, Write(r)
      PROVE  TypeOK'
  BY <1>9 DEF Write
<1>10. ASSUME NEW r \in Requests, NEW ok \in BOOLEAN, Retest(r, ok)
      PROVE  TypeOK'
  BY <1>10 DEF Retest
<1>11. ASSUME NEW r \in Requests, ReloadDone(r)
      PROVE  TypeOK'
  BY <1>11 DEF ReloadDone
<1>12. ASSUME NEW r \in Requests, ReloadRefused(r)
      PROVE  TypeOK'
  BY <1>12 DEF ReloadRefused
<1>13. ASSUME NEW r \in Requests, ReloadMisreported(r)
      PROVE  TypeOK'
  BY <1>13 DEF ReloadMisreported
<1>14. ASSUME NEW r \in Requests, Record(r)
      PROVE  TypeOK'
  BY <1>14 DEF Record
<1>15. ASSUME NEW r \in Requests, MarkVersion(r)
      PROVE  TypeOK'
  BY <1>15 DEF MarkVersion, PublishedStatus
<1>16. ASSUME NEW r \in Requests, Restore(r)
      PROVE  TypeOK'
  BY <1>16 DEF Restore
<1>17. ASSUME NEW r \in Requests, SettleFails(r)
      PROVE  TypeOK'
  BY <1>17 DEF SettleFails
<1>18. ASSUME NEW r \in Requests, Audit(r)
      PROVE  TypeOK'
  BY <1>18 DEF Audit, Return
<1>19. ASSUME NEW r \in Requests, ErrorReturn(r)
      PROVE  TypeOK'
  BY <1>19 DEF ErrorReturn, Fail, Return
<1>20. ASSUME Crash
      PROVE  TypeOK'
  BY <1>20 DEF Crash
<1> QED BY <1>1, <1>2, <1>3, <1>4, <1>5, <1>6, <1>7, <1>8, <1>9, <1>10, <1>11,
           <1>12, <1>13, <1>14, <1>15, <1>16, <1>17, <1>18, <1>19, <1>20 DEF
           Next, ArriveStep, RequestStep

\* A request touches only a version that has begun.
LEMMA OwnershipNext ==
    ASSUME TypeOK, Ownership, Next
    PROVE  Ownership'
<1> USE VersionAssumption DEF TypeOK, Ownership, Goto, InFlight, Steps, Fault,
        versionVars, recordVars, nginxVars, requestVars, scopeVars, localVars
<1>1. ASSUME NEW r \in Requests, NEW a \in {"render", "validate", "publish"},
                    NEW c \in Configs, ArriveWithConfig(r, a, c)
      PROVE  Ownership'
  BY <1>1 DEF ArriveWithConfig, Arrive
<1>2. ASSUME NEW r \in Requests, NEW v \in Requests, ArriveWithVersion(r, v)
      PROVE  Ownership'
  BY <1>2 DEF ArriveWithVersion, Arrive
<1>3. ASSUME NEW r \in Requests, NEW v \in Requests, ArriveRollback(r, v)
      PROVE  Ownership'
  BY <1>3 DEF ArriveRollback, Arrive
<1>4. ASSUME NEW r \in Requests, CreateVersion(r)
      PROVE  Ownership'
  BY <1>4 DEF CreateVersion, Return
<1>5. ASSUME NEW r \in Requests, Resolve(r)
      PROVE  Ownership'
  BY <1>5 DEF Resolve
<1>6. ASSUME NEW r \in Requests, NEW ok \in BOOLEAN, Test(r, ok)
      PROVE  Ownership'
  BY <1>6 DEF Test
<1>7. ASSUME NEW r \in Requests, Reject(r)
      PROVE  Ownership'
  BY <1>7 DEF Reject
<1>8. ASSUME NEW r \in Requests, Backup(r)
      PROVE  Ownership'
  BY <1>8 DEF Backup
<1>9. ASSUME NEW r \in Requests, Write(r)
      PROVE  Ownership'
  BY <1>9 DEF Write
<1>10. ASSUME NEW r \in Requests, NEW ok \in BOOLEAN, Retest(r, ok)
      PROVE  Ownership'
  BY <1>10 DEF Retest
<1>11. ASSUME NEW r \in Requests, ReloadDone(r)
      PROVE  Ownership'
  BY <1>11 DEF ReloadDone
<1>12. ASSUME NEW r \in Requests, ReloadRefused(r)
      PROVE  Ownership'
  BY <1>12 DEF ReloadRefused
<1>13. ASSUME NEW r \in Requests, ReloadMisreported(r)
      PROVE  Ownership'
  BY <1>13 DEF ReloadMisreported
<1>14. ASSUME NEW r \in Requests, Record(r)
      PROVE  Ownership'
  BY <1>14 DEF Record
<1>15. ASSUME NEW r \in Requests, MarkVersion(r)
      PROVE  Ownership'
  BY <1>15 DEF MarkVersion, PublishedStatus
<1>16. ASSUME NEW r \in Requests, Restore(r)
      PROVE  Ownership'
  BY <1>16 DEF Restore
<1>17. ASSUME NEW r \in Requests, SettleFails(r)
      PROVE  Ownership'
  BY <1>17 DEF SettleFails
<1>18. ASSUME NEW r \in Requests, Audit(r)
      PROVE  Ownership'
  BY <1>18 DEF Audit, Return
<1>19. ASSUME NEW r \in Requests, ErrorReturn(r)
      PROVE  Ownership'
  BY <1>19 DEF ErrorReturn, Fail, Return
<1>20. ASSUME Crash
      PROVE  Ownership'
  BY <1>20 DEF Crash
<1> QED BY <1>1, <1>2, <1>3, <1>4, <1>5, <1>6, <1>7, <1>8, <1>9, <1>10, <1>11,
           <1>12, <1>13, <1>14, <1>15, <1>16, <1>17, <1>18, <1>19, <1>20 DEF
           Next, ArriveStep, RequestStep

\* The test comes before the backup, and versions do not change.
LEMMA TestedNext ==
    ASSUME TypeOK, Ownership, Tested, OnlyValidConfigs, Next
    PROVE  Tested'
<1> USE VersionAssumption, ConfigAssumption DEF TypeOK, Ownership, Tested,
        OnlyValidConfigs, Goto, InFlight, Steps, Fault, versionVars,
        recordVars, nginxVars, requestVars, scopeVars, localVars
<1>1. ASSUME NEW r \in Requests, NEW a \in {"render", "validate", "publish"},
                    NEW c \in Configs, ArriveWithConfig(r, a, c)
      PROVE  Tested'
  BY <1>1 DEF ArriveWithConfig, Arrive
<1>2. ASSUME NEW r \in Requests, NEW v \in Requests, ArriveWithVersion(r, v)
      PROVE  Tested'
  BY <1>2 DEF ArriveWithVersion, Arrive
<1>3. ASSUME NEW r \in Requests, NEW v \in Requests, ArriveRollback(r, v)
      PROVE  Tested'
  BY <1>3 DEF ArriveRollback, Arrive
<1>4. ASSUME NEW r \in Requests, CreateVersion(r)
      PROVE  Tested'
  BY <1>4 DEF CreateVersion, Return
<1>5. ASSUME NEW r \in Requests, Resolve(r)
      PROVE  Tested'
  BY <1>5 DEF Resolve
<1>6. ASSUME NEW r \in Requests, NEW ok \in BOOLEAN, Test(r, ok)
      PROVE  Tested'
  BY <1>6 DEF Test
<1>7. ASSUME NEW r \in Requests, Reject(r)
      PROVE  Tested'
  BY <1>7 DEF Reject
<1>8. ASSUME NEW r \in Requests, Backup(r)
      PROVE  Tested'
  BY <1>8 DEF Backup
<1>9. ASSUME NEW r \in Requests, Write(r)
      PROVE  Tested'
  BY <1>9 DEF Write
<1>10. ASSUME NEW r \in Requests, NEW ok \in BOOLEAN, Retest(r, ok)
      PROVE  Tested'
  BY <1>10 DEF Retest
<1>11. ASSUME NEW r \in Requests, ReloadDone(r)
      PROVE  Tested'
  BY <1>11 DEF ReloadDone
<1>12. ASSUME NEW r \in Requests, ReloadRefused(r)
      PROVE  Tested'
  BY <1>12 DEF ReloadRefused
<1>13. ASSUME NEW r \in Requests, ReloadMisreported(r)
      PROVE  Tested'
  BY <1>13 DEF ReloadMisreported
<1>14. ASSUME NEW r \in Requests, Record(r)
      PROVE  Tested'
  BY <1>14 DEF Record
<1>15. ASSUME NEW r \in Requests, MarkVersion(r)
      PROVE  Tested'
  BY <1>15 DEF MarkVersion, PublishedStatus
<1>16. ASSUME NEW r \in Requests, Restore(r)
      PROVE  Tested'
  BY <1>16 DEF Restore
<1>17. ASSUME NEW r \in Requests, SettleFails(r)
      PROVE  Tested'
  BY <1>17 DEF SettleFails
<1>18. ASSUME NEW r \in Requests, Audit(r)
      PROVE  Tested'
  BY <1>18 DEF Audit, Return
<1>19. ASSUME NEW r \in Requests, ErrorReturn(r)
      PROVE  Tested'
  BY <1>19 DEF ErrorReturn, Fail, Return
<1>20. ASSUME Crash
      PROVE  Tested'
  BY <1>20 DEF Crash
<1> QED BY <1>1, <1>2, <1>3, <1>4, <1>5, <1>6, <1>7, <1>8, <1>9, <1>10, <1>11,
           <1>12, <1>13, <1>14, <1>15, <1>16, <1>17, <1>18, <1>19, <1>20 DEF
           Next, ArriveStep, RequestStep

\* Only tested configs and backups of valid files are written and loaded.
LEMMA OnlyValidNext ==
    ASSUME TypeOK, Ownership, Tested, OnlyValidConfigs, Next
    PROVE  OnlyValidConfigs'
<1> USE VersionAssumption, ConfigAssumption DEF TypeOK, Ownership, Tested,
        OnlyValidConfigs, Goto, InFlight, Steps, Fault, versionVars,
        recordVars, nginxVars, requestVars, scopeVars, localVars
<1>1. ASSUME NEW r \in Requests, NEW a \in {"render", "validate", "publish"},
                    NEW c \in Configs, ArriveWithConfig(r, a, c)
      PROVE  OnlyValidConfigs'
  BY <1>1 DEF ArriveWithConfig, Arrive
<1>2. ASSUME NEW r \in Requests, NEW v \in Requests, ArriveWithVersion(r, v)
      PROVE  OnlyValidConfigs'
  BY <1>2 DEF ArriveWithVersion, Arrive
<1>3. ASSUME NEW r \in Requests, NEW v \in Requests, ArriveRollback(r, v)
      PROVE  OnlyValidConfigs'
  BY <1>3 DEF ArriveRollback, Arrive
<1>4. ASSUME NEW r \in Requests, CreateVersion(r)
      PROVE  OnlyValidConfigs'
  BY <1>4 DEF CreateVersion, Return
<1>5. ASSUME NEW r \in Requests, Resolve(r)
      PROVE  OnlyValidConfigs'
  BY <1>5 DEF Resolve
<1>6. ASSUME NEW r \in Requests, NEW ok \in BOOLEAN, Test(r, ok)
      PROVE  OnlyValidConfigs'
  BY <1>6 DEF Test
<1>7. ASSUME NEW r \in Requests, Reject(r)
      PROVE  OnlyValidConfigs'
  BY <1>7 DEF Reject
<1>8. ASSUME NEW r \in Requests, Backup(r)
      PROVE  OnlyValidConfigs'
  BY <1>8 DEF Backup
<1>9. ASSUME NEW r \in Requests, Write(r)
      PROVE  OnlyValidConfigs'
  BY <1>9 DEF Write
<1>10. ASSUME NEW r \in Requests, NEW ok \in BOOLEAN, Retest(r, ok)
      PROVE  OnlyValidConfigs'
  BY <1>10 DEF Retest
<1>11. ASSUME NEW r \in Requests, ReloadDone(r)
      PROVE  OnlyValidConfigs'
  BY <1>11 DEF ReloadDone
<1>12. ASSUME NEW r \in Requests, ReloadRefused(r)
      PROVE  OnlyValidConfigs'
  BY <1>12 DEF ReloadRefused
<1>13. ASSUME NEW r \in Requests, ReloadMisreported(r)
      PROVE  OnlyValidConfigs'
  BY <1>13 DEF ReloadMisreported
<1>14. ASSUME NEW r \in Requests, Record(r)
      PROVE  OnlyValidConfigs'
  BY <1>14 DEF Record
<1>15. ASSUME NEW r \in Requests, MarkVersion(r)
      PROVE  OnlyValidConfigs'
  BY <1>15 DEF MarkVersion, PublishedStatus
<1>16. ASSUME NEW r \in Requests, Restore(r)
      PROVE  OnlyValidConfigs'
  BY <1>16 DEF Restore
<1>17. ASSUME NEW r \in Requests, SettleFails(r)
      PROVE  OnlyValidConfigs'
  BY <1>17 DEF SettleFails
<1>18. ASSUME NEW r \in Requests, Audit(r)
      PROVE  OnlyValidConfigs'
  BY <1>18 DEF Audit, Return
<1>19. ASSUME NEW r \in Requests, ErrorReturn(r)
      PROVE  OnlyValidConfigs'
  BY <1>19 DEF ErrorReturn, Fail, Return
<1>20. ASSUME Crash
      PROVE  OnlyValidConfigs'
  BY <1>20 DEF Crash
<1> QED BY <1>1, <1>2, <1>3, <1>4, <1>5, <1>6, <1>7, <1>8, <1>9, <1>10, <1>11,
           <1>12, <1>13, <1>14, <1>15, <1>16, <1>17, <1>18, <1>19, <1>20 DEF
           Next, ArriveStep, RequestStep

\* The task follows the last nginx command.
LEMMA RecordedNext ==
    ASSUME TypeOK, Ownership, Recorded, Next
    PROVE  Recorded'
<1> USE DEF TypeOK, Ownership, Recorded, StatusText, Outcomes, Goto, InFlight,
        Steps, Fault, versionVars, recordVars, nginxVars, requestVars,
        scopeVars, localVars
<1>1. ASSUME NEW r \in Requests, NEW a \in {"render", "validate", "publish"},
                    NEW c \in Configs, ArriveWithConfig(r, a, c)
      PROVE  Recorded'
  BY <1>1 DEF ArriveWithConfig, Arrive
<1>2. ASSUME NEW r \in Requests, NEW v \in Requests, ArriveWithVersion(r, v)
      PROVE  Recorded'
  BY <1>2 DEF ArriveWithVersion, Arrive
<1>3. ASSUME NEW r \in Requests, NEW v \in Requests, ArriveRollback(r, v)
      PROVE  Recorded'
  BY <1>3 DEF ArriveRollback, Arrive
<1>4. ASSUME NEW r \in Requests, CreateVersion(r)
      PROVE  Recorded'
  BY <1>4, FirstStatusType DEF CreateVersion, Return
<1>5. ASSUME NEW r \in Requests, Resolve(r)
      PROVE  Recorded'
  BY <1>5 DEF Resolve
<1>6. ASSUME NEW r \in Requests, NEW ok \in BOOLEAN, Test(r, ok)
      PROVE  Recorded'
  BY <1>6 DEF Test
<1>7. ASSUME NEW r \in Requests, Reject(r)
      PROVE  Recorded'
  BY <1>7 DEF Reject
<1>8. ASSUME NEW r \in Requests, Backup(r)
      PROVE  Recorded'
  BY <1>8 DEF Backup
<1>9. ASSUME NEW r \in Requests, Write(r)
      PROVE  Recorded'
  BY <1>9 DEF Write
<1>10. ASSUME NEW r \in Requests, NEW ok \in BOOLEAN, Retest(r, ok)
      PROVE  Recorded'
  BY <1>10 DEF Retest
<1>11. ASSUME NEW r \in Requests, ReloadDone(r)
      PROVE  Recorded'
  BY <1>11 DEF ReloadDone
<1>12. ASSUME NEW r \in Requests, ReloadRefused(r)
      PROVE  Recorded'
  BY <1>12 DEF ReloadRefused
<1>13. ASSUME NEW r \in Requests, ReloadMisreported(r)
      PROVE  Recorded'
  BY <1>13 DEF ReloadMisreported
<1>14. ASSUME NEW r \in Requests, Record(r)
      PROVE  Recorded'
  BY <1>14 DEF Record
<1>15. ASSUME NEW r \in Requests, MarkVersion(r)
      PROVE  Recorded'
  BY <1>15 DEF MarkVersion, PublishedStatus
<1>16. ASSUME NEW r \in Requests, Restore(r)
      PROVE  Recorded'
  BY <1>16 DEF Restore
<1>17. ASSUME NEW r \in Requests, SettleFails(r)
      PROVE  Recorded'
  BY <1>17 DEF SettleFails
<1>18. ASSUME NEW r \in Requests, Audit(r)
      PROVE  Recorded'
  BY <1>18 DEF Audit, Return
<1>19. ASSUME NEW r \in Requests, ErrorReturn(r)
      PROVE  Recorded'
  BY <1>19 DEF ErrorReturn, Fail, Return
<1>20. ASSUME Crash
      PROVE  Recorded'
  BY <1>20 DEF Crash
<1> QED BY <1>1, <1>2, <1>3, <1>4, <1>5, <1>6, <1>7, <1>8, <1>9, <1>10, <1>11,
           <1>12, <1>13, <1>14, <1>15, <1>16, <1>17, <1>18, <1>19, <1>20 DEF
           Next, ArriveStep, RequestStep

\* A version is marked and an audit record written after the task.
LEMMA RecordsNext ==
    ASSUME TypeOK, Ownership, Recorded, RecordsAgree, Next
    PROVE  RecordsAgree'
<1> USE DEF TypeOK, Ownership, Recorded, StatusText, Outcomes, RecordsAgree,
        Goto, InFlight, Steps, Fault, versionVars, recordVars, nginxVars,
        requestVars, scopeVars, localVars
<1>1. ASSUME NEW r \in Requests, NEW a \in {"render", "validate", "publish"},
                    NEW c \in Configs, ArriveWithConfig(r, a, c)
      PROVE  RecordsAgree'
  BY <1>1 DEF ArriveWithConfig, Arrive
<1>2. ASSUME NEW r \in Requests, NEW v \in Requests, ArriveWithVersion(r, v)
      PROVE  RecordsAgree'
  BY <1>2 DEF ArriveWithVersion, Arrive
<1>3. ASSUME NEW r \in Requests, NEW v \in Requests, ArriveRollback(r, v)
      PROVE  RecordsAgree'
  BY <1>3 DEF ArriveRollback, Arrive
<1>4. ASSUME NEW r \in Requests, CreateVersion(r)
      PROVE  RecordsAgree'
  BY <1>4, FirstStatusType DEF CreateVersion, Return
<1>5. ASSUME NEW r \in Requests, Resolve(r)
      PROVE  RecordsAgree'
  BY <1>5 DEF Resolve
<1>6. ASSUME NEW r \in Requests, NEW ok \in BOOLEAN, Test(r, ok)
      PROVE  RecordsAgree'
  BY <1>6 DEF Test
<1>7. ASSUME NEW r \in Requests, Reject(r)
      PROVE  RecordsAgree'
  BY <1>7 DEF Reject
<1>8. ASSUME NEW r \in Requests, Backup(r)
      PROVE  RecordsAgree'
  BY <1>8 DEF Backup
<1>9. ASSUME NEW r \in Requests, Write(r)
      PROVE  RecordsAgree'
  BY <1>9 DEF Write
<1>10. ASSUME NEW r \in Requests, NEW ok \in BOOLEAN, Retest(r, ok)
      PROVE  RecordsAgree'
  BY <1>10 DEF Retest
<1>11. ASSUME NEW r \in Requests, ReloadDone(r)
      PROVE  RecordsAgree'
  BY <1>11 DEF ReloadDone
<1>12. ASSUME NEW r \in Requests, ReloadRefused(r)
      PROVE  RecordsAgree'
  BY <1>12 DEF ReloadRefused
<1>13. ASSUME NEW r \in Requests, ReloadMisreported(r)
      PROVE  RecordsAgree'
  BY <1>13 DEF ReloadMisreported
<1>14. ASSUME NEW r \in Requests, Record(r)
      PROVE  RecordsAgree'
  BY <1>14 DEF Record
<1>15. ASSUME NEW r \in Requests, MarkVersion(r)
      PROVE  RecordsAgree'
  BY <1>15 DEF MarkVersion, PublishedStatus
<1>16. ASSUME NEW r \in Requests, Restore(r)
      PROVE  RecordsAgree'
  BY <1>16 DEF Restore
<1>17. ASSUME NEW r \in Requests, SettleFails(r)
      PROVE  RecordsAgree'
  BY <1>17 DEF SettleFails
<1>18. ASSUME NEW r \in Requests, Audit(r)
      PROVE  RecordsAgree'
  BY <1>18 DEF Audit, Return
<1>19. ASSUME NEW r \in Requests, ErrorReturn(r)
      PROVE  RecordsAgree'
  BY <1>19 DEF ErrorReturn, Fail, Return
<1>20. ASSUME Crash
      PROVE  RecordsAgree'
  BY <1>20 DEF Crash
<1> QED BY <1>1, <1>2, <1>3, <1>4, <1>5, <1>6, <1>7, <1>8, <1>9, <1>10, <1>11,
           <1>12, <1>13, <1>14, <1>15, <1>16, <1>17, <1>18, <1>19, <1>20 DEF
           Next, ArriveStep, RequestStep

\* Requests in flight know of an arrival.
LEMMA SolitudeNext ==
    ASSUME TypeOK, Solitude, Next
    PROVE  Solitude'
<1> USE DEF TypeOK, Solitude, Goto, InFlight, Steps, Fault, versionVars,
        recordVars, nginxVars, requestVars, scopeVars, localVars
<1>1. ASSUME NEW r \in Requests, NEW a \in {"render", "validate", "publish"},
                    NEW c \in Configs, ArriveWithConfig(r, a, c)
      PROVE  Solitude'
  <2> DEFINE arrive == Arrive(r, IF a = "validate" THEN "test" ELSE "create", a)
  <2>1. arrive
    BY <1>1 DEF ArriveWithConfig
  <2> QED BY <1>1, <2>1, ArriveAlone, ArriveFrame DEF ArriveWithConfig
<1>2. ASSUME NEW r \in Requests, NEW v \in Requests, ArriveWithVersion(r, v)
      PROVE  Solitude'
  <2> DEFINE arrive == Arrive(r, "resolve", "publish")
  <2>1. arrive
    BY <1>2 DEF ArriveWithVersion
  <2> QED BY <1>2, <2>1, ArriveAlone, ArriveFrame DEF ArriveWithVersion
<1>3. ASSUME NEW r \in Requests, NEW v \in Requests, ArriveRollback(r, v)
      PROVE  Solitude'
  <2> DEFINE arrive == Arrive(r, "create", "rollback")
  <2>1. arrive
    BY <1>3 DEF ArriveRollback
  <2> QED BY <1>3, <2>1, ArriveAlone, ArriveFrame DEF ArriveRollback
<1>4. ASSUME NEW r \in Requests, CreateVersion(r)
      PROVE  Solitude'
  BY <1>4 DEF CreateVersion, Return
<1>5. ASSUME NEW r \in Requests, Resolve(r)
      PROVE  Solitude'
  BY <1>5 DEF Resolve
<1>6. ASSUME NEW r \in Requests, NEW ok \in BOOLEAN, Test(r, ok)
      PROVE  Solitude'
  BY <1>6 DEF Test
<1>7. ASSUME NEW r \in Requests, Reject(r)
      PROVE  Solitude'
  BY <1>7 DEF Reject
<1>8. ASSUME NEW r \in Requests, Backup(r)
      PROVE  Solitude'
  BY <1>8 DEF Backup
<1>9. ASSUME NEW r \in Requests, Write(r)
      PROVE  Solitude'
  BY <1>9 DEF Write
<1>10. ASSUME NEW r \in Requests, NEW ok \in BOOLEAN, Retest(r, ok)
      PROVE  Solitude'
  BY <1>10 DEF Retest
<1>11. ASSUME NEW r \in Requests, ReloadDone(r)
      PROVE  Solitude'
  BY <1>11 DEF ReloadDone
<1>12. ASSUME NEW r \in Requests, ReloadRefused(r)
      PROVE  Solitude'
  BY <1>12 DEF ReloadRefused
<1>13. ASSUME NEW r \in Requests, ReloadMisreported(r)
      PROVE  Solitude'
  BY <1>13 DEF ReloadMisreported
<1>14. ASSUME NEW r \in Requests, Record(r)
      PROVE  Solitude'
  BY <1>14 DEF Record
<1>15. ASSUME NEW r \in Requests, MarkVersion(r)
      PROVE  Solitude'
  BY <1>15 DEF MarkVersion, PublishedStatus
<1>16. ASSUME NEW r \in Requests, Restore(r)
      PROVE  Solitude'
  BY <1>16 DEF Restore
<1>17. ASSUME NEW r \in Requests, SettleFails(r)
      PROVE  Solitude'
  BY <1>17 DEF SettleFails
<1>18. ASSUME NEW r \in Requests, Audit(r)
      PROVE  Solitude'
  BY <1>18 DEF Audit, Return
<1>19. ASSUME NEW r \in Requests, ErrorReturn(r)
      PROVE  Solitude'
  BY <1>19 DEF ErrorReturn, Fail, Return
<1>20. ASSUME Crash
      PROVE  Solitude'
  BY <1>20 DEF Crash
<1> QED BY <1>1, <1>2, <1>3, <1>4, <1>5, <1>6, <1>7, <1>8, <1>9, <1>10, <1>11,
           <1>12, <1>13, <1>14, <1>15, <1>16, <1>17, <1>18, <1>19, <1>20 DEF
           Next, ArriveStep, RequestStep

\* Nobody else touches the file of a request that is alone.
LEMMA OwnFileNext ==
    ASSUME TypeOK, Ownership, Recorded, Solitude, OwnFile, Next
    PROVE  OwnFile'
<1> USE VersionAssumption DEF TypeOK, Ownership, Recorded, Solitude, OwnFile,
        Goto, InFlight, Steps, Fault, versionVars, recordVars, nginxVars,
        requestVars, scopeVars, localVars
<1>1. ASSUME NEW r \in Requests, NEW a \in {"render", "validate", "publish"},
                    NEW c \in Configs, ArriveWithConfig(r, a, c)
      PROVE  OwnFile'
  BY <1>1 DEF ArriveWithConfig, Arrive
<1>2. ASSUME NEW r \in Requests, NEW v \in Requests, ArriveWithVersion(r, v)
      PROVE  OwnFile'
  BY <1>2 DEF ArriveWithVersion, Arrive
<1>3. ASSUME NEW r \in Requests, NEW v \in Requests, ArriveRollback(r, v)
      PROVE  OwnFile'
  BY <1>3 DEF ArriveRollback, Arrive
<1>4. ASSUME NEW r \in Requests, CreateVersion(r)
      PROVE  OwnFile'
  BY <1>4, FirstStatusType DEF CreateVersion, Return
<1>5. ASSUME NEW r \in Requests, Resolve(r)
      PROVE  OwnFile'
  BY <1>5 DEF Resolve
<1>6. ASSUME NEW r \in Requests, NEW ok \in BOOLEAN, Test(r, ok)
      PROVE  OwnFile'
  BY <1>6 DEF Test
<1>7. ASSUME NEW r \in Requests, Reject(r)
      PROVE  OwnFile'
  BY <1>7 DEF Reject
<1>8. ASSUME NEW r \in Requests, Backup(r)
      PROVE  OwnFile'
  BY <1>8 DEF Backup
<1>9. ASSUME NEW r \in Requests, Write(r)
      PROVE  OwnFile'
  BY <1>9 DEF Write
<1>10. ASSUME NEW r \in Requests, NEW ok \in BOOLEAN, Retest(r, ok)
      PROVE  OwnFile'
  BY <1>10 DEF Retest
<1>11. ASSUME NEW r \in Requests, ReloadDone(r)
      PROVE  OwnFile'
  BY <1>11 DEF ReloadDone
<1>12. ASSUME NEW r \in Requests, ReloadRefused(r)
      PROVE  OwnFile'
  BY <1>12 DEF ReloadRefused
<1>13. ASSUME NEW r \in Requests, ReloadMisreported(r)
      PROVE  OwnFile'
  BY <1>13 DEF ReloadMisreported
<1>14. ASSUME NEW r \in Requests, Record(r)
      PROVE  OwnFile'
  BY <1>14 DEF Record
<1>15. ASSUME NEW r \in Requests, MarkVersion(r)
      PROVE  OwnFile'
  BY <1>15 DEF MarkVersion, PublishedStatus
<1>16. ASSUME NEW r \in Requests, Restore(r)
      PROVE  OwnFile'
  BY <1>16 DEF Restore
<1>17. ASSUME NEW r \in Requests, SettleFails(r)
      PROVE  OwnFile'
  BY <1>17 DEF SettleFails
<1>18. ASSUME NEW r \in Requests, Audit(r)
      PROVE  OwnFile'
  BY <1>18 DEF Audit, Return
<1>19. ASSUME NEW r \in Requests, ErrorReturn(r)
      PROVE  OwnFile'
  BY <1>19 DEF ErrorReturn, Fail, Return
<1>20. ASSUME Crash
      PROVE  OwnFile'
  BY <1>20 DEF Crash
<1> QED BY <1>1, <1>2, <1>3, <1>4, <1>5, <1>6, <1>7, <1>8, <1>9, <1>10, <1>11,
           <1>12, <1>13, <1>14, <1>15, <1>16, <1>17, <1>18, <1>19, <1>20 DEF
           Next, ArriveStep, RequestStep

\* A request that is alone loads what it wrote.
LEMMA DeliversNext ==
    ASSUME TypeOK, Ownership, Recorded, Solitude, OwnFile, AloneDelivers, Next
    PROVE  AloneDelivers'
<1> USE VersionAssumption DEF TypeOK, Ownership, Recorded, StatusText,
        Outcomes, Solitude, OwnFile, AloneDelivers, Delivered, Goto, InFlight,
        Steps, Fault, versionVars, recordVars, nginxVars, requestVars,
        scopeVars, localVars
<1>1. ASSUME NEW r \in Requests, NEW a \in {"render", "validate", "publish"},
                    NEW c \in Configs, ArriveWithConfig(r, a, c)
      PROVE  AloneDelivers'
  BY <1>1 DEF ArriveWithConfig, Arrive
<1>2. ASSUME NEW r \in Requests, NEW v \in Requests, ArriveWithVersion(r, v)
      PROVE  AloneDelivers'
  BY <1>2 DEF ArriveWithVersion, Arrive
<1>3. ASSUME NEW r \in Requests, NEW v \in Requests, ArriveRollback(r, v)
      PROVE  AloneDelivers'
  BY <1>3 DEF ArriveRollback, Arrive
<1>4. ASSUME NEW r \in Requests, CreateVersion(r)
      PROVE  AloneDelivers'
  BY <1>4, FirstStatusType DEF CreateVersion, Return
<1>5. ASSUME NEW r \in Requests, Resolve(r)
      PROVE  AloneDelivers'
  BY <1>5 DEF Resolve
<1>6. ASSUME NEW r \in Requests, NEW ok \in BOOLEAN, Test(r, ok)
      PROVE  AloneDelivers'
  BY <1>6 DEF Test
<1>7. ASSUME NEW r \in Requests, Reject(r)
      PROVE  AloneDelivers'
  BY <1>7 DEF Reject
<1>8. ASSUME NEW r \in Requests, Backup(r)
      PROVE  AloneDelivers'
  BY <1>8 DEF Backup
<1>9. ASSUME NEW r \in Requests, Write(r)
      PROVE  AloneDelivers'
  BY <1>9 DEF Write
<1>10. ASSUME NEW r \in Requests, NEW ok \in BOOLEAN, Retest(r, ok)
      PROVE  AloneDelivers'
  BY <1>10 DEF Retest
<1>11. ASSUME NEW r \in Requests, ReloadDone(r)
      PROVE  AloneDelivers'
  BY <1>11 DEF ReloadDone
<1>12. ASSUME NEW r \in Requests, ReloadRefused(r)
      PROVE  AloneDelivers'
  BY <1>12 DEF ReloadRefused
<1>13. ASSUME NEW r \in Requests, ReloadMisreported(r)
      PROVE  AloneDelivers'
  BY <1>13 DEF ReloadMisreported
<1>14. ASSUME NEW r \in Requests, Record(r)
      PROVE  AloneDelivers'
  BY <1>14 DEF Record
<1>15. ASSUME NEW r \in Requests, MarkVersion(r)
      PROVE  AloneDelivers'
  BY <1>15 DEF MarkVersion, PublishedStatus
<1>16. ASSUME NEW r \in Requests, Restore(r)
      PROVE  AloneDelivers'
  BY <1>16 DEF Restore
<1>17. ASSUME NEW r \in Requests, SettleFails(r)
      PROVE  AloneDelivers'
  BY <1>17 DEF SettleFails
<1>18. ASSUME NEW r \in Requests, Audit(r)
      PROVE  AloneDelivers'
  BY <1>18 DEF Audit, Return
<1>19. ASSUME NEW r \in Requests, ErrorReturn(r)
      PROVE  AloneDelivers'
  BY <1>19 DEF ErrorReturn, Fail, Return
<1>20. ASSUME Crash
      PROVE  AloneDelivers'
  BY <1>20 DEF Crash
<1> QED BY <1>1, <1>2, <1>3, <1>4, <1>5, <1>6, <1>7, <1>8, <1>9, <1>10, <1>11,
           <1>12, <1>13, <1>14, <1>15, <1>16, <1>17, <1>18, <1>19, <1>20 DEF
           Next, ArriveStep, RequestStep

\* One request after the other: nginx runs the file or the backup.
LEMMA AloneAgreementNext ==
    ASSUME TypeOK, Ownership, Solitude, Recorded, OwnFile, AloneAgreement,
           Tested, OnlyValidConfigs, Next
    PROVE  AloneAgreement'
<1> USE BoundAssumption, ConfigAssumption, VersionAssumption DEF TypeOK,
        Ownership, Solitude, Recorded, OwnFile, AloneAgreement, Tested,
        OnlyValidConfigs, Goto, InFlight, Steps, Fault, versionVars,
        recordVars, nginxVars, requestVars, scopeVars, localVars
<1>1. ASSUME NEW r \in Requests, NEW a \in {"render", "validate", "publish"},
                    NEW c \in Configs, ArriveWithConfig(r, a, c)
      PROVE  AloneAgreement'
  <2> DEFINE arrive == Arrive(r, IF a = "validate" THEN "test" ELSE "create", a)
  <2>1. arrive
    BY <1>1 DEF ArriveWithConfig
  <2> QED BY <1>1, <2>1, ArriveAlone, ArriveFrame DEF ArriveWithConfig
<1>2. ASSUME NEW r \in Requests, NEW v \in Requests, ArriveWithVersion(r, v)
      PROVE  AloneAgreement'
  <2> DEFINE arrive == Arrive(r, "resolve", "publish")
  <2>1. arrive
    BY <1>2 DEF ArriveWithVersion
  <2> QED BY <1>2, <2>1, ArriveAlone, ArriveFrame DEF ArriveWithVersion
<1>3. ASSUME NEW r \in Requests, NEW v \in Requests, ArriveRollback(r, v)
      PROVE  AloneAgreement'
  <2> DEFINE arrive == Arrive(r, "create", "rollback")
  <2>1. arrive
    BY <1>3 DEF ArriveRollback
  <2> QED BY <1>3, <2>1, ArriveAlone, ArriveFrame DEF ArriveRollback
<1>4. ASSUME NEW r \in Requests, CreateVersion(r)
      PROVE  AloneAgreement'
  BY <1>4, FirstStatusType DEF CreateVersion, Return
<1>5. ASSUME NEW r \in Requests, Resolve(r)
      PROVE  AloneAgreement'
  BY <1>5 DEF Resolve
<1>6. ASSUME NEW r \in Requests, NEW ok \in BOOLEAN, Test(r, ok)
      PROVE  AloneAgreement'
  BY <1>6 DEF Test
<1>7. ASSUME NEW r \in Requests, Reject(r)
      PROVE  AloneAgreement'
  BY <1>7 DEF Reject
<1>8. ASSUME NEW r \in Requests, Backup(r)
      PROVE  AloneAgreement'
  BY <1>8 DEF Backup
<1>9. ASSUME NEW r \in Requests, Write(r)
      PROVE  AloneAgreement'
  BY <1>9 DEF Write
<1>10. ASSUME NEW r \in Requests, NEW ok \in BOOLEAN, Retest(r, ok)
      PROVE  AloneAgreement'
  BY <1>10 DEF Retest
<1>11. ASSUME NEW r \in Requests, ReloadDone(r)
      PROVE  AloneAgreement'
  BY <1>11 DEF ReloadDone
<1>12. ASSUME NEW r \in Requests, ReloadRefused(r)
      PROVE  AloneAgreement'
  BY <1>12 DEF ReloadRefused
<1>13. ASSUME NEW r \in Requests, ReloadMisreported(r)
      PROVE  AloneAgreement'
  BY <1>13 DEF ReloadMisreported
<1>14. ASSUME NEW r \in Requests, Record(r)
      PROVE  AloneAgreement'
  BY <1>14 DEF Record
<1>15. ASSUME NEW r \in Requests, MarkVersion(r)
      PROVE  AloneAgreement'
  BY <1>15 DEF MarkVersion, PublishedStatus
<1>16. ASSUME NEW r \in Requests, Restore(r)
      PROVE  AloneAgreement'
  BY <1>16 DEF Restore
<1>17. ASSUME NEW r \in Requests, SettleFails(r)
      PROVE  AloneAgreement'
  BY <1>17 DEF SettleFails
<1>18. ASSUME NEW r \in Requests, Audit(r)
      PROVE  AloneAgreement'
  BY <1>18 DEF Audit, Return
<1>19. ASSUME NEW r \in Requests, ErrorReturn(r)
      PROVE  AloneAgreement'
  BY <1>19 DEF ErrorReturn, Fail, Return
<1>20. ASSUME Crash
      PROVE  AloneAgreement'
  BY <1>20 DEF Crash
<1> QED BY <1>1, <1>2, <1>3, <1>4, <1>5, <1>6, <1>7, <1>8, <1>9, <1>10, <1>11,
           <1>12, <1>13, <1>14, <1>15, <1>16, <1>17, <1>18, <1>19, <1>20 DEF
           Next, ArriveStep, RequestStep

\* Overlapping requests: the last writer reloads after its write.
LEMMA OverlapAgreementNext ==
    ASSUME TypeOK, Ownership, Recorded, OverlapAgreement, Tested, OnlyValidConfigs, Next
    PROVE  OverlapAgreement'
<1> USE BoundAssumption, ConfigAssumption, VersionAssumption DEF TypeOK,
        Ownership, Recorded, StatusText, Outcomes, Refused, OverlapAgreement,
        Tested, OnlyValidConfigs, Goto, InFlight, Steps, Fault, versionVars,
        recordVars, nginxVars, requestVars, scopeVars, localVars
<1>1. ASSUME NEW r \in Requests, NEW a \in {"render", "validate", "publish"},
                    NEW c \in Configs, ArriveWithConfig(r, a, c)
      PROVE  OverlapAgreement'
  BY <1>1 DEF ArriveWithConfig, Arrive
<1>2. ASSUME NEW r \in Requests, NEW v \in Requests, ArriveWithVersion(r, v)
      PROVE  OverlapAgreement'
  BY <1>2 DEF ArriveWithVersion, Arrive
<1>3. ASSUME NEW r \in Requests, NEW v \in Requests, ArriveRollback(r, v)
      PROVE  OverlapAgreement'
  BY <1>3 DEF ArriveRollback, Arrive
<1>4. ASSUME NEW r \in Requests, CreateVersion(r)
      PROVE  OverlapAgreement'
  BY <1>4, FirstStatusType DEF CreateVersion, Return
<1>5. ASSUME NEW r \in Requests, Resolve(r)
      PROVE  OverlapAgreement'
  BY <1>5 DEF Resolve
<1>6. ASSUME NEW r \in Requests, NEW ok \in BOOLEAN, Test(r, ok)
      PROVE  OverlapAgreement'
  BY <1>6 DEF Test
<1>7. ASSUME NEW r \in Requests, Reject(r)
      PROVE  OverlapAgreement'
  BY <1>7 DEF Reject
<1>8. ASSUME NEW r \in Requests, Backup(r)
      PROVE  OverlapAgreement'
  BY <1>8 DEF Backup
<1>9. ASSUME NEW r \in Requests, Write(r)
      PROVE  OverlapAgreement'
  BY <1>9 DEF Write
<1>10. ASSUME NEW r \in Requests, NEW ok \in BOOLEAN, Retest(r, ok)
      PROVE  OverlapAgreement'
  BY <1>10 DEF Retest
<1>11. ASSUME NEW r \in Requests, ReloadDone(r)
      PROVE  OverlapAgreement'
  BY <1>11 DEF ReloadDone
<1>12. ASSUME NEW r \in Requests, ReloadRefused(r)
      PROVE  OverlapAgreement'
  BY <1>12 DEF ReloadRefused
<1>13. ASSUME NEW r \in Requests, ReloadMisreported(r)
      PROVE  OverlapAgreement'
  BY <1>13 DEF ReloadMisreported
<1>14. ASSUME NEW r \in Requests, Record(r)
      PROVE  OverlapAgreement'
  BY <1>14 DEF Record
<1>15. ASSUME NEW r \in Requests, MarkVersion(r)
      PROVE  OverlapAgreement'
  BY <1>15 DEF MarkVersion, PublishedStatus
<1>16. ASSUME NEW r \in Requests, Restore(r)
      PROVE  OverlapAgreement'
  BY <1>16 DEF Restore
<1>17. ASSUME NEW r \in Requests, SettleFails(r)
      PROVE  OverlapAgreement'
  BY <1>17 DEF SettleFails
<1>18. ASSUME NEW r \in Requests, Audit(r)
      PROVE  OverlapAgreement'
  BY <1>18 DEF Audit, Return
<1>19. ASSUME NEW r \in Requests, ErrorReturn(r)
      PROVE  OverlapAgreement'
  BY <1>19 DEF ErrorReturn, Fail, Return
<1>20. ASSUME Crash
      PROVE  OverlapAgreement'
  BY <1>20 DEF Crash
<1> QED BY <1>1, <1>2, <1>3, <1>4, <1>5, <1>6, <1>7, <1>8, <1>9, <1>10, <1>11,
           <1>12, <1>13, <1>14, <1>15, <1>16, <1>17, <1>18, <1>19, <1>20 DEF
           Next, ArriveStep, RequestStep

\* A write is followed by a reload or by the news of its failure.
LEMMA ToldAgreementNext ==
    ASSUME TypeOK, Ownership, Recorded, ToldAgreement, Next
    PROVE  ToldAgreement'
<1> USE VersionAssumption DEF TypeOK, Ownership, Recorded, StatusText, Outcomes,
        ToldAgreement, Told, Goto, InFlight, Steps, Fault, versionVars,
        recordVars, nginxVars, requestVars, scopeVars, localVars
<1>1. ASSUME NEW r \in Requests, NEW a \in {"render", "validate", "publish"},
                    NEW c \in Configs, ArriveWithConfig(r, a, c)
      PROVE  ToldAgreement'
  BY <1>1 DEF ArriveWithConfig, Arrive
<1>2. ASSUME NEW r \in Requests, NEW v \in Requests, ArriveWithVersion(r, v)
      PROVE  ToldAgreement'
  BY <1>2 DEF ArriveWithVersion, Arrive
<1>3. ASSUME NEW r \in Requests, NEW v \in Requests, ArriveRollback(r, v)
      PROVE  ToldAgreement'
  BY <1>3 DEF ArriveRollback, Arrive
<1>4. ASSUME NEW r \in Requests, CreateVersion(r)
      PROVE  ToldAgreement'
  BY <1>4, FirstStatusType DEF CreateVersion, Return
<1>5. ASSUME NEW r \in Requests, Resolve(r)
      PROVE  ToldAgreement'
  BY <1>5 DEF Resolve
<1>6. ASSUME NEW r \in Requests, NEW ok \in BOOLEAN, Test(r, ok)
      PROVE  ToldAgreement'
  BY <1>6 DEF Test
<1>7. ASSUME NEW r \in Requests, Reject(r)
      PROVE  ToldAgreement'
  BY <1>7 DEF Reject
<1>8. ASSUME NEW r \in Requests, Backup(r)
      PROVE  ToldAgreement'
  BY <1>8 DEF Backup
<1>9. ASSUME NEW r \in Requests, Write(r)
      PROVE  ToldAgreement'
  BY <1>9 DEF Write
<1>10. ASSUME NEW r \in Requests, NEW ok \in BOOLEAN, Retest(r, ok)
      PROVE  ToldAgreement'
  BY <1>10 DEF Retest
<1>11. ASSUME NEW r \in Requests, ReloadDone(r)
      PROVE  ToldAgreement'
  BY <1>11 DEF ReloadDone
<1>12. ASSUME NEW r \in Requests, ReloadRefused(r)
      PROVE  ToldAgreement'
  BY <1>12 DEF ReloadRefused
<1>13. ASSUME NEW r \in Requests, ReloadMisreported(r)
      PROVE  ToldAgreement'
  BY <1>13 DEF ReloadMisreported
<1>14. ASSUME NEW r \in Requests, Record(r)
      PROVE  ToldAgreement'
  BY <1>14 DEF Record
<1>15. ASSUME NEW r \in Requests, MarkVersion(r)
      PROVE  ToldAgreement'
  BY <1>15 DEF MarkVersion, PublishedStatus
<1>16. ASSUME NEW r \in Requests, Restore(r)
      PROVE  ToldAgreement'
  BY <1>16 DEF Restore
<1>17. ASSUME NEW r \in Requests, SettleFails(r)
      PROVE  ToldAgreement'
  BY <1>17 DEF SettleFails
<1>18. ASSUME NEW r \in Requests, Audit(r)
      PROVE  ToldAgreement'
  BY <1>18 DEF Audit, Return
<1>19. ASSUME NEW r \in Requests, ErrorReturn(r)
      PROVE  ToldAgreement'
  BY <1>19 DEF ErrorReturn, Fail, Return
<1>20. ASSUME Crash
      PROVE  ToldAgreement'
  BY <1>20 DEF Crash
<1> QED BY <1>1, <1>2, <1>3, <1>4, <1>5, <1>6, <1>7, <1>8, <1>9, <1>10, <1>11,
           <1>12, <1>13, <1>14, <1>15, <1>16, <1>17, <1>18, <1>19, <1>20 DEF
           Next, ArriveStep, RequestStep

\* A version is saved before a request other than its own works on it, and before
\* it is published; no version is ever removed.
LEMMA VersionSavedNext ==
    ASSUME TypeOK, Ownership, VersionSaved, Next
    PROVE  VersionSaved'
<1> USE VersionAssumption, ConfigAssumption DEF TypeOK, Ownership, VersionSaved,
        StatusText, Outcomes, Goto, InFlight, Steps, Fault, versionVars, recordVars,
        nginxVars, requestVars, scopeVars, localVars
<1>1. ASSUME NEW r \in Requests, NEW a \in {"render", "validate", "publish"},
                    NEW c \in Configs, ArriveWithConfig(r, a, c)
      PROVE  VersionSaved'
  BY <1>1 DEF ArriveWithConfig, Arrive
<1>2. ASSUME NEW r \in Requests, NEW v \in Requests, ArriveWithVersion(r, v)
      PROVE  VersionSaved'
  BY <1>2 DEF ArriveWithVersion, Arrive
<1>3. ASSUME NEW r \in Requests, NEW v \in Requests, ArriveRollback(r, v)
      PROVE  VersionSaved'
  BY <1>3 DEF ArriveRollback, Arrive
<1>4. ASSUME NEW r \in Requests, CreateVersion(r)
      PROVE  VersionSaved'
  BY <1>4, FirstStatusType DEF CreateVersion, Return
<1>5. ASSUME NEW r \in Requests, Resolve(r)
      PROVE  VersionSaved'
  BY <1>5 DEF Resolve
<1>6. ASSUME NEW r \in Requests, NEW ok \in BOOLEAN, Test(r, ok)
      PROVE  VersionSaved'
  BY <1>6 DEF Test
<1>7. ASSUME NEW r \in Requests, Reject(r)
      PROVE  VersionSaved'
  BY <1>7 DEF Reject
<1>8. ASSUME NEW r \in Requests, Backup(r)
      PROVE  VersionSaved'
  BY <1>8 DEF Backup
<1>9. ASSUME NEW r \in Requests, Write(r)
      PROVE  VersionSaved'
  BY <1>9 DEF Write
<1>10. ASSUME NEW r \in Requests, NEW ok \in BOOLEAN, Retest(r, ok)
      PROVE  VersionSaved'
  BY <1>10 DEF Retest
<1>11. ASSUME NEW r \in Requests, ReloadDone(r)
      PROVE  VersionSaved'
  BY <1>11 DEF ReloadDone
<1>12. ASSUME NEW r \in Requests, ReloadRefused(r)
      PROVE  VersionSaved'
  BY <1>12 DEF ReloadRefused
<1>13. ASSUME NEW r \in Requests, ReloadMisreported(r)
      PROVE  VersionSaved'
  BY <1>13 DEF ReloadMisreported
<1>14. ASSUME NEW r \in Requests, Record(r)
      PROVE  VersionSaved'
  BY <1>14 DEF Record
<1>15. ASSUME NEW r \in Requests, MarkVersion(r)
      PROVE  VersionSaved'
  BY <1>15 DEF MarkVersion, PublishedStatus
<1>16. ASSUME NEW r \in Requests, Restore(r)
      PROVE  VersionSaved'
  BY <1>16 DEF Restore
<1>17. ASSUME NEW r \in Requests, SettleFails(r)
      PROVE  VersionSaved'
  BY <1>17 DEF SettleFails
<1>18. ASSUME NEW r \in Requests, Audit(r)
      PROVE  VersionSaved'
  BY <1>18 DEF Audit, Return
<1>19. ASSUME NEW r \in Requests, ErrorReturn(r)
      PROVE  VersionSaved'
  BY <1>19 DEF ErrorReturn, Fail, Return
<1>20. ASSUME Crash
      PROVE  VersionSaved'
  BY <1>20 DEF Crash
<1> HIDE DEF TypeOK, Ownership, VersionSaved
<1> QED BY <1>1, <1>2, <1>3, <1>4, <1>5, <1>6, <1>7, <1>8, <1>9, <1>10, <1>11,
           <1>12, <1>13, <1>14, <1>15, <1>16, <1>17, <1>18, <1>19, <1>20 DEF
           Next, ArriveStep, RequestStep

\* Only a reload that was carried out leads to a success.
LEMMA LoadedFirstNext ==
    ASSUME TypeOK, Ownership, Recorded, LoadedFirst, Next
    PROVE  LoadedFirst'
<1> USE VersionAssumption, ConfigAssumption DEF TypeOK, Ownership, Recorded, LoadedFirst,
        StatusText, Outcomes, Goto, InFlight, Steps, Fault, versionVars, recordVars,
        nginxVars, requestVars, scopeVars, localVars
<1>1. ASSUME NEW r \in Requests, NEW a \in {"render", "validate", "publish"},
                    NEW c \in Configs, ArriveWithConfig(r, a, c)
      PROVE  LoadedFirst'
  BY <1>1 DEF ArriveWithConfig, Arrive
<1>2. ASSUME NEW r \in Requests, NEW v \in Requests, ArriveWithVersion(r, v)
      PROVE  LoadedFirst'
  BY <1>2 DEF ArriveWithVersion, Arrive
<1>3. ASSUME NEW r \in Requests, NEW v \in Requests, ArriveRollback(r, v)
      PROVE  LoadedFirst'
  BY <1>3 DEF ArriveRollback, Arrive
<1>4. ASSUME NEW r \in Requests, CreateVersion(r)
      PROVE  LoadedFirst'
  BY <1>4, FirstStatusType DEF CreateVersion, Return
<1>5. ASSUME NEW r \in Requests, Resolve(r)
      PROVE  LoadedFirst'
  BY <1>5 DEF Resolve
<1>6. ASSUME NEW r \in Requests, NEW ok \in BOOLEAN, Test(r, ok)
      PROVE  LoadedFirst'
  BY <1>6 DEF Test
<1>7. ASSUME NEW r \in Requests, Reject(r)
      PROVE  LoadedFirst'
  BY <1>7 DEF Reject
<1>8. ASSUME NEW r \in Requests, Backup(r)
      PROVE  LoadedFirst'
  BY <1>8 DEF Backup
<1>9. ASSUME NEW r \in Requests, Write(r)
      PROVE  LoadedFirst'
  BY <1>9 DEF Write
<1>10. ASSUME NEW r \in Requests, NEW ok \in BOOLEAN, Retest(r, ok)
      PROVE  LoadedFirst'
  BY <1>10 DEF Retest
<1>11. ASSUME NEW r \in Requests, ReloadDone(r)
      PROVE  LoadedFirst'
  BY <1>11 DEF ReloadDone
<1>12. ASSUME NEW r \in Requests, ReloadRefused(r)
      PROVE  LoadedFirst'
  BY <1>12 DEF ReloadRefused
<1>13. ASSUME NEW r \in Requests, ReloadMisreported(r)
      PROVE  LoadedFirst'
  BY <1>13 DEF ReloadMisreported
<1>14. ASSUME NEW r \in Requests, Record(r)
      PROVE  LoadedFirst'
  BY <1>14 DEF Record
<1>15. ASSUME NEW r \in Requests, MarkVersion(r)
      PROVE  LoadedFirst'
  BY <1>15 DEF MarkVersion, PublishedStatus
<1>16. ASSUME NEW r \in Requests, Restore(r)
      PROVE  LoadedFirst'
  BY <1>16 DEF Restore
<1>17. ASSUME NEW r \in Requests, SettleFails(r)
      PROVE  LoadedFirst'
  BY <1>17 DEF SettleFails
<1>18. ASSUME NEW r \in Requests, Audit(r)
      PROVE  LoadedFirst'
  BY <1>18 DEF Audit, Return
<1>19. ASSUME NEW r \in Requests, ErrorReturn(r)
      PROVE  LoadedFirst'
  BY <1>19 DEF ErrorReturn, Fail, Return
<1>20. ASSUME Crash
      PROVE  LoadedFirst'
  BY <1>20 DEF Crash
<1> HIDE DEF TypeOK, Ownership, LoadedFirst
<1> QED BY <1>1, <1>2, <1>3, <1>4, <1>5, <1>6, <1>7, <1>8, <1>9, <1>10, <1>11,
           <1>12, <1>13, <1>14, <1>15, <1>16, <1>17, <1>18, <1>19, <1>20 DEF
           Next, ArriveStep, RequestStep

-----------------------------------------------------------------------------
(* The invariant. *)

\* It holds initially: nothing has begun.
LEMMA InitIInv == Init => IInv
<1> SUFFICES ASSUME Init PROVE IInv
  OBVIOUS
<1> USE ConfigAssumption, VersionAssumption, BoundAssumption DEF Init
<1>1. TypeOK
  BY DEF TypeOK, Outcomes
<1>2. Ownership /\ Tested /\ Recorded
  BY DEF Ownership, Tested, Recorded, InFlight, Steps
<1>3. Solitude /\ OwnFile
  BY DEF Solitude, OwnFile, InFlight, Steps
<1>4. AloneAgreement /\ OverlapAgreement /\ ToldAgreement
  BY DEF AloneAgreement, OverlapAgreement, Refused, ToldAgreement, Told
<1>5. VersionSaved /\ LoadedFirst
  BY DEF VersionSaved, LoadedFirst, Steps
<1>6. OnlyValidConfigs /\ RecordsAgree /\ AloneDelivers
  BY DEF OnlyValidConfigs, RecordsAgree, AloneDelivers, Delivered
<1> QED BY <1>1, <1>2, <1>3, <1>4, <1>5, <1>6 DEF IInv

\* Every step keeps it.
LEMMA NextIInv == IInv /\ [Next]_vars => IInv'
<1> SUFFICES ASSUME IInv, [Next]_vars PROVE IInv'
  OBVIOUS
<1>1. CASE Next
  BY <1>1, TypeNext, OwnershipNext, TestedNext, OnlyValidNext, RecordedNext,
     RecordsNext, SolitudeNext, OwnFileNext, DeliversNext, AloneAgreementNext,
     OverlapAgreementNext, ToldAgreementNext, VersionSavedNext, LoadedFirstNext DEF IInv
<1>2. CASE UNCHANGED vars
  <2> USE <1>2 DEF IInv, vars, versionVars, recordVars, nginxVars, localVars,
                   requestVars, scopeVars
  <2>1. TypeOK' /\ OnlyValidConfigs' /\ RecordsAgree' /\ AloneDelivers'
    BY DEF TypeOK, OnlyValidConfigs, RecordsAgree, AloneDelivers, Delivered
  <2>2. Ownership' /\ Tested' /\ Recorded'
    BY DEF Ownership, Tested, Recorded, InFlight
  <2>3. Solitude' /\ OwnFile'
    BY DEF Solitude, OwnFile, InFlight
  <2>4. AloneAgreement' /\ OverlapAgreement' /\ ToldAgreement'
    BY DEF AloneAgreement, OverlapAgreement, Refused, ToldAgreement, Told
  <2>5. VersionSaved' /\ LoadedFirst'
    BY DEF VersionSaved, LoadedFirst
  <2> QED BY <2>1, <2>2, <2>3, <2>4, <2>5
<1> QED BY <1>1, <1>2

\* IInv is an invariant of publishing, for any number of overlapping requests
\* and faults.
THEOREM PublishInvariance == Spec => []IInv
<1>1. Init => IInv
  BY InitIInv
<1>2. IInv /\ [Next]_vars => IInv'
  BY NextIInv
<1> QED BY <1>1, <1>2, PTL DEF Spec

-----------------------------------------------------------------------------
(* The properties. *)

\* Every reachable state is well typed.
THEOREM PublishTypes == Spec => []TypeOK
<1>1. IInv => TypeOK
  BY DEF IInv
<1> QED BY <1>1, PublishInvariance, PTL

\* No config that nginx -t rejects reaches the managed file or nginx.
THEOREM ValidConfigsOnly == Spec => []OnlyValidConfigs
<1>1. IInv => OnlyValidConfigs
  BY DEF IInv
<1> QED BY <1>1, PublishInvariance, PTL

\* Published versions have a successful task, and audit records agree with it.
THEOREM RecordsConsistent == Spec => []RecordsAgree
<1>1. IInv => RecordsAgree
  BY DEF IInv
<1> QED BY <1>1, PublishInvariance, PTL

\* A success that was alone means that nginx loaded the version.
THEOREM Delivery == Spec => []AloneDelivers
<1>1. IInv => AloneDelivers
  BY DEF IInv
<1> QED BY <1>1, PublishInvariance, PTL

\* When all requests have returned, nginx runs the managed file: without faults if
\* they did not overlap or no reload was refused, and otherwise unless somebody
\* was told of a failure.
THEOREM Agreement == Spec => []QuietAgreement
<1>1. IInv => QuietAgreement
  <2> SUFFICES ASSUME IInv, Quiet,
                      \/ AllAnsweredOK
                      \/ /\ faults = 0 /\ live # NoConfig
                         /\ (\A r \in Requests : alone[r]) \/ NoReloadRefused
               PROVE  file = live
    BY DEF QuietAgreement
  <2>1. \A r \in Requests : pc[r] \notin Steps
    BY DEF Quiet, InFlight
  <2>2. CASE AllAnsweredOK
    <3>1. \A r \in Requests : ~Told(r)
      <4> SUFFICES ASSUME NEW r \in Requests PROVE ~Told(r)
        OBVIOUS
      <4>1. pc[r] \in {"idle", "done"}
        BY <2>1 DEF IInv, TypeOK
      <4>2. task[r] # "failed"
        BY <2>2, <4>1 DEF AllAnsweredOK, IInv, Ownership, ToldAgreement
      <4> QED BY <2>2, <4>1, <4>2 DEF AllAnsweredOK, Told
    <3> QED BY <2>1, <3>1 DEF IInv, ToldAgreement, Steps
  <2>3. CASE faults = 0 /\ live # NoConfig /\ \A r \in Requests : alone[r]
    BY <2>1, <2>3 DEF IInv, AloneAgreement, Steps
  <2>4. CASE faults = 0 /\ NoReloadRefused
    <3>1. \A r \in Requests : ~Refused(r)
      BY <2>1, <2>4 DEF NoReloadRefused, Refused, Steps
    <3> QED BY <2>1, <2>4, <3>1 DEF IInv, OverlapAgreement, Steps
  <2> QED BY <2>2, <2>3, <2>4
<1> QED BY <1>1, PublishInvariance, PTL

\* A request that was alone leaves the managed file as it found it when it rejects
\* its version or restores the backup.
THEOREM Undoing == Spec => RestoreUndoesPublish
<1> DEFINE Undone(r) == (alone[r] /\ before[r] # NoConfig /\ (Reject(r) \/ Restore(r)))
                            => file' = before[r]
           AllUndone == \A r \in Requests : Undone(r)
<1>1. IInv => AllUndone
  <2> SUFFICES ASSUME IInv, NEW r \in Requests, alone[r], before[r] # NoConfig,
                      Reject(r) \/ Restore(r)
               PROVE  file' = before[r]
    OBVIOUS
  <2>1. CASE Reject(r)
    BY <2>1 DEF Reject, IInv, OwnFile, nginxVars
  <2>2. CASE Restore(r)
    BY <2>2 DEF Restore, IInv, OwnFile
  <2> QED BY <2>1, <2>2
<1>2. IInv => [AllUndone]_vars
  BY <1>1
<1> HIDE DEF AllUndone
<1>3. Spec => [][AllUndone]_vars
  BY <1>2, PublishInvariance, PTL DEF Spec
<1> QED BY <1>3 DEF RestoreUndoesPublish, AllUndone

-----------------------------------------------------------------------------
(* The record of the publishes. *)

\* A request arrives and chooses its version; nothing else is recorded.
LEMMA ArriveRecord ==
    ASSUME IInv, NEW r \in Requests, ArriveStep(r)
    PROVE  Tables!Next
<1>1. version[r] = NoVersion
  <2>1. pc[r] = "idle"
    BY DEF ArriveStep, ArriveWithConfig, ArriveWithVersion, ArriveRollback, Arrive
  <2> QED BY <2>1 DEF IInv, Ownership
<1>2. UNCHANGED <<vstatus, task, audit, Served>>
  BY DEF ArriveStep, ArriveWithConfig, ArriveWithVersion, ArriveRollback, Arrive,
         recordVars, Served
<1>3. \E v \in Requests : (v = r \/ vstatus[v] # "none") /\ version' = [version EXCEPT ![r] = v]
  BY DEF ArriveStep, ArriveWithConfig, ArriveWithVersion, ArriveRollback
<1>4. PICK v \in Requests : Tables!Choose(r, v)
  BY <1>1, <1>2, <1>3 DEF Tables!Choose, Tables!Saved
<1> QED BY <1>4 DEF Tables!Next

\* A step of a request records one thing, in its order, or nothing.
LEMMA RequestRecord ==
    ASSUME IInv, NEW r \in Requests, RequestStep(r)
    PROVE  Tables!Next \/ UNCHANGED Tables!recordVars
<1> USE DEF versionVars, recordVars, nginxVars, requestVars, localVars, scopeVars
<1>1. CASE CreateVersion(r)
  <2>1. version[r] = r /\ vstatus[r] = "none"
    BY <1>1 DEF CreateVersion, IInv, VersionSaved
  <2>2. Tables!Save(r, FirstStatus(r))
    BY <1>1, <2>1 DEF CreateVersion, Tables!Save, Tables!Saved, Served
  <2> QED BY <2>2, FirstStatusType DEF Tables!Next
<1>2. CASE ReloadDone(r)
  <2>1. version[r] # NoVersion /\ vstatus[version[r]] # "none"
    BY <1>2 DEF ReloadDone, IInv, Ownership, VersionSaved, InFlight, Steps
  <2>2. Served' = Served \cup {r}
    BY <1>2, ConfigAssumption DEF ReloadDone, Served, IInv, TypeOK
  <2>3. Tables!Serve(r)
    BY <1>2, <2>1, <2>2 DEF ReloadDone, Tables!Serve, Tables!Saved
  <2> QED BY <2>3 DEF Tables!Next
<1>3. CASE Reject(r) \/ Record(r)
  <2>1. /\ version[r] # NoVersion /\ vstatus[version[r]] # "none"
        /\ task[r] = "none"
    BY <1>3 DEF Reject, Record, IInv, Ownership, VersionSaved, Recorded, InFlight, Steps
  <2>2. PICK o \in {"success", "failed"} :
           task' = [task EXCEPT ![r] = o] /\ (o = "success" => r \in Served)
    BY <1>3 DEF Reject, Record, StatusText, Served, IInv, LoadedFirst
  <2>3. Tables!Record(r, o)
    BY <1>3, <2>1, <2>2 DEF Reject, Record, Tables!Record, Tables!Saved, Served
  <2> QED BY <2>3 DEF Tables!Next
<1>4. CASE MarkVersion(r)
  <2>1. task[r] = "success"
    BY <1>4 DEF MarkVersion, IInv, Recorded, StatusText
  <2>2. Tables!Mark(r, PublishedStatus(r))
    BY <1>4, <2>1 DEF MarkVersion, PublishedStatus, Tables!Mark, Served, IInv, VersionSaved
  <2> QED BY <2>2 DEF PublishedStatus, Tables!Next
<1>5. CASE Audit(r)
  <2>1. task[r] # "none" /\ audit[r] = "none"
    BY <1>5 DEF Audit, IInv, Recorded
  <2>2. Tables!Audit(r) \/ UNCHANGED Tables!recordVars
    BY <1>5, <2>1 DEF Audit, Tables!Audit, Tables!recordVars, Served
  <2> QED BY <2>2 DEF Tables!Next
<1>6. CASE UNCHANGED <<version, vstatus, task, audit, loaded>>
  BY <1>6 DEF Tables!recordVars, Served
<1> QED BY <1>1, <1>2, <1>3, <1>4, <1>5, <1>6 DEF RequestStep, Resolve, Test, Backup,
       Write, Retest, ReloadRefused, ReloadMisreported, Restore, SettleFails, ErrorReturn,
       Fail, Return

\* What the tables tell is in the order of PublishRecord, whichever requests overlap
\* and whatever fails: recorded once, a success after its reload, and then the rest.
THEOREM RecordRefinement == Spec => KeepsRecord
<1>1. Init => Tables!Init
  BY DEF Init, Tables!Init, Served
<1>2. IInv /\ [Next]_vars => [Tables!Next]_(Tables!recordVars)
  <2> SUFFICES ASSUME IInv, [Next]_vars PROVE Tables!Next \/ UNCHANGED Tables!recordVars
    OBVIOUS
  <2>1. CASE Crash \/ UNCHANGED vars
    BY <2>1 DEF Crash, vars, versionVars, recordVars, localVars, requestVars,
                Tables!recordVars, Served
  <2> QED BY <2>1, ArriveRecord, RequestRecord DEF Next
<1> QED BY <1>1, <1>2, PublishInvariance, PTL DEF Spec, KeepsRecord, Tables!Spec
=============================================================================
