--------------------------- MODULE PublishRecord ---------------------------
(***************************************************************************)
(* What the tables tell of a publish, wherever its instance is.  A request *)
(* works on one version, which is saved before nginx sees it.  Its outcome *)
(* is recorded once: a success only after nginx has loaded a config for    *)
(* the request, and before the version counts as published or anything is *)
(* audited.  Nothing of it is taken back, whatever fails or restarts.      *)
(* ConfigPublish and RemotePublish implement this specification.           *)
(***************************************************************************)
CONSTANTS Requests, NoVersion

VARIABLES
    version,    \* the version a request works on
    vstatus,    \* the status of the versions, each named after its creator
    task,       \* the outcome in the request's publish task
    audit,      \* the outcome in its audit record
    served      \* the requests for which nginx has loaded a config

recordVars == <<version, vstatus, task, audit, served>>

Saved(v) == vstatus[v] # "none"

Init ==
    /\ version = [r \in Requests |-> NoVersion]
    /\ vstatus = [r \in Requests |-> "none"]
    /\ task = [r \in Requests |-> "none"]
    /\ audit = [r \in Requests |-> "none"]
    /\ served = {}

\* A version of its own, which is yet to be saved, or a saved one.
Choose(r, v) ==
    /\ version[r] = NoVersion
    /\ v = r \/ Saved(v)
    /\ version' = [version EXCEPT ![r] = v]
    /\ UNCHANGED <<vstatus, task, audit, served>>

\* createVersion, once: before a publish, or after the test of a validation.
Save(r, status) ==
    /\ version[r] = r /\ ~Saved(r)
    /\ vstatus' = [vstatus EXCEPT ![r] = status]
    /\ UNCHANGED <<version, task, audit, served>>

\* A reload that is carried out.  The request need not learn of it.
Serve(r) ==
    /\ version[r] # NoVersion /\ Saved(version[r])
    /\ served' = served \cup {r}
    /\ UNCHANGED <<version, vstatus, task, audit>>

\* recordPublishTask
Record(r, outcome) ==
    /\ version[r] # NoVersion /\ Saved(version[r])
    /\ task[r] = "none"
    /\ outcome = "success" => r \in served
    /\ task' = [task EXCEPT ![r] = outcome]
    /\ UNCHANGED <<version, vstatus, audit, served>>

\* The version of a success is marked; a rollback's version is its own.
Mark(r, status) ==
    /\ task[r] = "success"
    /\ status = "rolled_back" => version[r] = r
    /\ vstatus' = [vstatus EXCEPT ![version[r]] = status]
    /\ UNCHANGED <<version, task, audit, served>>

\* auditConfigChange
Audit(r) ==
    /\ task[r] # "none" /\ audit[r] = "none"
    /\ audit' = [audit EXCEPT ![r] = task[r]]
    /\ UNCHANGED <<version, vstatus, task, served>>

Next == \E r \in Requests :
    \/ \E v \in Requests : Choose(r, v)
    \/ \E status \in {"rendered", "validated", "rolled_back"} : Save(r, status)
    \/ \E status \in {"published", "rolled_back"} : Mark(r, status)
    \/ \E outcome \in {"success", "failed"} : Record(r, outcome)
    \/ Serve(r) \/ Audit(r)

Spec == Init /\ [][Next]_recordVars
=============================================================================
