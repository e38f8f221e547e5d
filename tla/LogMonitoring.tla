--------------------------- MODULE LogMonitoring ---------------------------
(***************************************************************************)
(* What the center reads from nginx on its own account: the recent lines   *)
(* of the logs (Sync, on request), and three scheduled sweeps, ScanErrors  *)
(* over the error logs, Collect over the metrics and CollectHealth over    *)
(* the upstreams.  Each runs in a goroutine of its own, and scheduled runs *)
(* may overlap, while nginx writes its logs, logrotate empties them and    *)
(* the registry changes.                                                   *)
(*                                                                         *)
(* services/log_service.go, metric_service.go, upstream_service.go and     *)
(* listNginxRuntimes of nginx_service.go.                                  *)
(***************************************************************************)
EXTENDS Naturals, Sequences, FiniteSets, SequencesExt, FiniteSetsExt

CONSTANTS
    Workers,    \* runs of Sync, ScanErrors, Collect, CollectHealth
    Jobs,       \* which of them
    Instances,
    Default,    \* the guid "default": needs no row, and what a sweep falls back on
    Upstreams,
    Lines,      \* distinct log lines
    Parsed,     \* those the access log pattern matches
    Critical,   \* those with [error], [crit], [alert] or [emerg]
    Limit,      \* how many lines a tail returns
    MaxMatches, \* how many lines an alert holds
    MaxWrites, MaxEdits, MaxFaults

Items == Instances \cup Upstreams
Files == {"access", "error"}

ASSUME WorkersAssumption == IsFiniteSet(Workers)
ASSUME NamesAssumption == Default \in Instances /\ Instances \cap Upstreams = {}
ASSUME JobsAssumption == Jobs \subseteq {"sync", "scan", "collect", "health"}
ASSUME LinesAssumption == IsFiniteSet(Lines) /\ Parsed \cup Critical \subseteq Lines
ASSUME LimitAssumption == Limit \in Nat \ {0} /\ MaxMatches \in Nat \ {0}
ASSUME BoundsAssumption == MaxWrites \in Nat /\ MaxEdits \in Nat /\ MaxFaults \in Nat

VARIABLES
    log,        \* the files
    state,      \* the row of the instance; "cut off": its node is disabled or gone
    upstreams,  \* the upstream rows
    stored,     \* nginx_access_logs, nginx_error_logs
    \* the workers
    pc, job,
    unresolved, \* the listed instances that are not resolved yet
    items,      \* what is left of the sweep
    item, file,
    lines,      \* the lines still to insert
    matches,    \* the lines of the alert
    count,      \* AccessInserted and ErrorInserted (a scan does not report it)
    \* what a sweep leaves behind
    sample,     \* the status of its metric sample of an item
    alert,      \* the lines in it
    notified,
    \* history
    failed,     \* the items whose error a worker has met
    aborted,    \* it ended before its first item
    stable,     \* the items that could be used all the time since it began
    kept,       \* the lines a tail would have returned all that time
    writes, edits, faults

workVars    == <<pc, job, unresolved, items, item, file, lines, matches, count>>
traceVars   == <<sample, alert, notified, failed, aborted>>
envVars     == <<log, state, upstreams, stable, kept, writes, edits>>
vars == <<envVars, stored, workVars, traceVars, faults>>

\* The types; a tail and an alert hold no more lines than they may.
TypeOK ==
    /\ log \in [Instances -> [Files -> Seq(Lines)]]
    /\ state \in [Instances -> {"absent", "enabled", "disabled", "cut off"}]
    /\ upstreams \in SUBSET Upstreams
    /\ stored \in [Files -> SUBSET (Instances \X Lines)]
    /\ pc \in [Workers -> {"idle", "resolve", "loop", "tail", "save", "alert", "done"}]
    /\ job \in [Workers -> Jobs \cup {"none"}]
    /\ unresolved \in [Workers -> SUBSET Instances]
    /\ items \in [Workers -> SUBSET Items]
    /\ item \in [Workers -> Items]
    /\ file \in [Workers -> Files]
    /\ lines \in [Workers -> Seq(Lines)] /\ matches \in [Workers -> Seq(Lines)]
    /\ \A w \in Workers : Len(lines[w]) <= Limit /\ Len(matches[w]) <= MaxMatches
    /\ count \in [Workers -> [Files -> Nat]]
    /\ sample \in [Workers -> [Items -> {"none", "success", "failed", "warning"}]]
    /\ alert \in [Workers -> [Items -> SUBSET Lines]]
    /\ notified \in [Workers -> SUBSET Items]
    /\ failed \in [Workers -> SUBSET Items]
    /\ aborted \in SUBSET Workers
    /\ stable \in [Workers -> SUBSET Items]
    /\ kept \in [Workers -> [Instances -> [Files \cup {"alert"} -> SUBSET Lines]]]
    /\ writes \in 0..MaxWrites /\ edits \in 0..MaxEdits /\ faults \in 0..MaxFaults

Init ==
    /\ \E l \in Lines : log = [i \in Instances |-> [f \in Files |-> <<l>>]]
    /\ \E x \in {"absent", "enabled", "disabled"} : state = [i \in Instances |-> x]
    /\ upstreams = Upstreams
    /\ stored = [f \in Files |-> {}]
    /\ pc = [w \in Workers |-> "idle"]
    /\ job = [w \in Workers |-> "none"]
    /\ unresolved = [w \in Workers |-> {}]
    /\ items = [w \in Workers |-> {}]
    /\ item = [w \in Workers |-> Default]
    /\ file = [w \in Workers |-> "error"]
    /\ lines = [w \in Workers |-> <<>>]
    /\ matches = [w \in Workers |-> <<>>]
    /\ count = [w \in Workers |-> [f \in Files |-> 0]]
    /\ sample = [w \in Workers |-> [x \in Items |-> "none"]]
    /\ alert = [w \in Workers |-> [x \in Items |-> {}]]
    /\ notified = [w \in Workers |-> {}]
    /\ failed = [w \in Workers |-> {}]
    /\ aborted = {}
    /\ stable = [w \in Workers |-> {}]
    /\ kept = [w \in Workers |-> [i \in Instances |-> [f \in Files \cup {"alert"} |-> {}]]]
    /\ writes = 0 /\ edits = 0 /\ faults = 0

Fault == faults < MaxFaults /\ faults' = faults + 1
Goto(w, step) == pc' = [pc EXCEPT ![w] = step]

\* resolveNginxRuntime: only the default instance works without a row.
Resolvable(i) == state[i] = "enabled" \/ (i = Default /\ state[i] = "absent")

-----------------------------------------------------------------------------
(* What is read of a log. *)

LastOf(s, n) == SubSeq(s, Max({1, Len(s) - n + 1}), Len(s))

\* Mutant: the buffer grows.
AllLines(s) == s
\* The ring buffer of tailFile.
TailLines(s) == LastOf(s, Limit)

\* The loop that collects the lines of s that are in S.
Filtered(s, S) ==
    LET upTo[n \in 0..Len(s)] ==
          IF n = 0 THEN <<>>
          ELSE IF s[n] \in S THEN Append(upTo[n - 1], s[n]) ELSE upTo[n - 1]
    IN  upTo[Len(s)]

\* filterErrorLines: the last critical ones.
Matching(s) == LastOf(Filtered(s, Critical), MaxMatches)

\* Each line becomes a record; of the access log those that can be parsed.
Records(f, s) == IF f = "access" THEN Filtered(s, Parsed) ELSE s

-----------------------------------------------------------------------------
(* The surroundings: nginx writes, logrotate, the registry. *)

\* What a Sync or a scan would find in the logs g of an instance.
Found(g, f) ==
    ToSet(CASE f = "alert" -> Matching(LastOf(g["error"], Limit))
            [] OTHER       -> Records(f, LastOf(g[f], Limit)))

SetLog(i, f, s) ==
    /\ writes < MaxWrites
    /\ writes' = writes + 1
    /\ log' = [log EXCEPT ![i] = [@ EXCEPT ![f] = s]]
    /\ kept' = [w \in Workers |-> [kept[w] EXCEPT ![i] =
                  [g \in Files \cup {"alert"} |-> @[g] \cap Found(log'[i], g)]]]
    /\ UNCHANGED <<state, upstreams, stable, edits, stored, workVars, traceVars, faults>>

Write(i, f, l) == SetLog(i, f, Append(log[i][f], l))
Rotate(i, f) == log[i][f] # <<>> /\ SetLog(i, f, <<>>)

Usable == {i \in Instances : state[i] = "enabled"} \cup upstreams

Edit ==
    /\ edits < MaxEdits
    /\ edits' = edits + 1
    /\ \/ /\ \E i \in Instances, x \in {"absent", "enabled", "disabled", "cut off"} :
                x # state[i] /\ state' = [state EXCEPT ![i] = x]
          /\ UNCHANGED upstreams
       \/ \E u \in upstreams : upstreams' = upstreams \ {u} /\ UNCHANGED state
    /\ stable' = [w \in Workers |-> stable[w] \cap Usable']
    /\ UNCHANGED <<log, kept, writes, stored, workVars, traceVars, faults>>

\* Where a sweep goes after an item, or where it has none.
NextItem(w) == IF items'[w] = {} THEN "done" ELSE "loop"

Leave(w) == Goto(w, NextItem(w)) /\ item' = [item EXCEPT ![w] = Default]

-----------------------------------------------------------------------------
(* The beginning of a run; looksAt are the logs it reads. *)

Start(w, j, looksAt) ==
    /\ pc[w] = "idle"
    /\ job' = [job EXCEPT ![w] = j]
    /\ stable' = [stable EXCEPT ![w] = IF j = "sync" THEN {} ELSE Usable]
    /\ kept' = [kept EXCEPT ![w] = [i \in Instances |->
                  [f \in Files \cup {"alert"} |->
                      IF <<i, f>> \in looksAt THEN Found(log[i], f) ELSE {}]]]
    /\ UNCHANGED <<log, state, upstreams, writes, edits, stored, lines, matches, count,
                   sample, alert, notified, failed, faults>>

\* Sync resolves the instance it is asked for.
StartSync(w, i) ==
    /\ Start(w, "sync", {i} \X Files)
    /\ item' = [item EXCEPT ![w] = i]
    /\ file' = [file EXCEPT ![w] = "access"]
    /\ \/ Resolvable(i) /\ Goto(w, "tail") /\ UNCHANGED aborted
       \/ ~Resolvable(i) /\ Goto(w, "done") /\ aborted' = aborted \cup {w}
    /\ UNCHANGED <<unresolved, items>>

\* listNginxRuntimes selects the enabled instances, also those whose node is not.
StartSweep(w, j) ==
    /\ Start(w, j, IF j = "scan" THEN Instances \X {"alert"} ELSE {})
    /\ LET enabled == {i \in Instances : state[i] \in {"enabled", "cut off"}} IN
       unresolved' = [unresolved EXCEPT ![w] = IF enabled = {} THEN {Default} ELSE enabled]
    /\ Goto(w, "resolve")
    /\ UNCHANGED <<items, item, file, aborted>>

\* CollectHealth selects the upstreams.
StartHealth(w) ==
    /\ Start(w, "health", {})
    /\ items' = [items EXCEPT ![w] = upstreams]
    /\ Goto(w, NextItem(w))
    /\ UNCHANGED <<unresolved, item, file, aborted>>

\* One instance that cannot be resolved ends the sweep for all of them.
Resolve(w, i) ==
    /\ pc[w] = "resolve" /\ i \in unresolved[w]
    /\ \/ /\ Resolvable(i)
          /\ unresolved' = [unresolved EXCEPT ![w] = @ \ {i}]
          /\ items' = [items EXCEPT ![w] = @ \cup {i}]
          /\ Goto(w, IF unresolved'[w] = {} THEN "loop" ELSE "resolve")
          /\ UNCHANGED aborted
       \/ /\ ~Resolvable(i)
          /\ unresolved' = [unresolved EXCEPT ![w] = {}]
          /\ items' = [items EXCEPT ![w] = {}]
          /\ Goto(w, "done")
          /\ aborted' = aborted \cup {w}
    /\ UNCHANGED <<envVars, stored, job, item, file, lines, matches, count, sample, alert,
                   notified, failed, faults>>

-----------------------------------------------------------------------------
(* The sweeps: the next item. *)

Take(w, x) ==
    /\ pc[w] = "loop" /\ x \in items[w]
    /\ items' = [items EXCEPT ![w] = @ \ {x}]

\* Create of a metric sample, which may fail; f are the errors met before.
Sample(w, x, status, f) ==
    \/ /\ sample' = [sample EXCEPT ![w] = [@ EXCEPT ![x] = status]]
       /\ failed' = [failed EXCEPT ![w] = @ \cup f]
       /\ UNCHANGED faults
    \/ /\ Fault
       /\ failed' = [failed EXCEPT ![w] = @ \cup {x}]
       /\ UNCHANGED sample

\* Collect: Summary resolves the instance again and asks for its status; its error
\* is the sample.
CollectOne(w, i) ==
    /\ job[w] = "collect" /\ Take(w, i)
    /\ \/ Resolvable(i) /\ Sample(w, i, "success", {})
       \/ Sample(w, i, "failed", {i})
    /\ Goto(w, NextItem(w))
    /\ UNCHANGED <<envVars, stored, job, unresolved, item, file, lines, matches, count,
                   alert, notified, aborted>>

\* CollectHealth: Health finds the upstream deleted, healthy or not; notified if not.
CheckOne(w, u) ==
    /\ job[w] = "health" /\ Take(w, u)
    /\ \/ /\ u \notin upstreams
          /\ failed' = [failed EXCEPT ![w] = @ \cup {u}]
          /\ UNCHANGED <<sample, notified, faults>>
       \/ /\ u \in upstreams
          /\ Sample(w, u, "success", {})
          /\ UNCHANGED notified
       \/ /\ u \in upstreams
          /\ Sample(w, u, "failed", {})
          /\ notified' = [notified EXCEPT ![w] = @ \cup {u}]
    /\ Goto(w, NextItem(w))
    /\ UNCHANGED <<envVars, stored, job, unresolved, item, file, lines, matches, count,
                   alert, aborted>>

\* ScanErrors: the error log of the next instance.
ScanOne(w, i) ==
    /\ job[w] = "scan" /\ Take(w, i)
    /\ item' = [item EXCEPT ![w] = i]
    /\ Goto(w, "tail")
    /\ UNCHANGED <<envVars, stored, job, unresolved, file, lines, matches, count,
                   traceVars, faults>>

-----------------------------------------------------------------------------
(* Reading a log and storing its lines. *)

\* What follows the lines of a file: the other log, the alert of the critical lines
\* found, or the end.
AfterFile(w, found) ==
    /\ file' = [file EXCEPT ![w] = "error"]
    /\ \/ /\ job[w] = "sync"
          /\ Goto(w, IF file[w] = "access" THEN "tail" ELSE "done")
          /\ UNCHANGED <<items, item>>
       \/ /\ job[w] = "scan" /\ found # <<>>
          /\ Goto(w, "alert")
          /\ UNCHANGED <<items, item>>
       \/ /\ job[w] = "scan" /\ found = <<>>
          /\ UNCHANGED items
          /\ Leave(w)

ReadTail(w) ==
    /\ pc[w] = "tail"
    /\ LET read == TailLines(log[item[w]][file[w]]) IN
       IF job[w] = "sync"
       THEN lines' = [lines EXCEPT ![w] = Records(file[w], read)] /\ UNCHANGED matches
       ELSE /\ lines' = [lines EXCEPT ![w] = Matching(read)]
            /\ matches' = [matches EXCEPT ![w] = Matching(read)]
    /\ \/ lines'[w] # <<>> /\ Goto(w, "save") /\ UNCHANGED <<file, items, item>>
       \/ lines'[w] = <<>> /\ AfterFile(w, <<>>)
    /\ UNCHANGED <<envVars, stored, job, unresolved, count, traceVars, faults>>

\* Mutant: a log that cannot be read ends the sweep.
StopAtFailure(w) ==
    /\ pc[w] = "tail"
    /\ Fault
    /\ failed' = [failed EXCEPT ![w] = @ \cup {item[w]}]
    /\ Goto(w, "done")
    /\ UNCHANGED <<envVars, stored, job, unresolved, items, item, file, lines, matches,
                   count, sample, alert, notified, aborted>>

\* The file is missing, or a line in it is longer than the scanner takes (64 KB),
\* or the agent does not answer.
TailFails(w) ==
    /\ pc[w] = "tail"
    /\ Fault
    /\ failed' = [failed EXCEPT ![w] = @ \cup {item[w]}]
    /\ AfterFile(w, matches[w])
    /\ UNCHANGED <<envVars, stored, job, unresolved, lines, matches, count,
                   sample, alert, notified, aborted>>

\* Mutant: a line counts whether or not its row is new.
CountEveryLine(w) ==
    /\ pc[w] = "save"
    /\ stored' = [stored EXCEPT ![file[w]] = @ \cup {<<item[w], Head(lines[w])>>}]
    /\ count' = [count EXCEPT ![w] = [@ EXCEPT ![file[w]] = @ + 1]]
    /\ lines' = [lines EXCEPT ![w] = Tail(@)]
    /\ \/ lines'[w] # <<>> /\ UNCHANGED <<pc, file, items, item>>
       \/ lines'[w] = <<>> /\ AfterFile(w, matches[w])
    /\ UNCHANGED <<envVars, job, unresolved, matches, traceVars, faults>>

\* INSERT ... ON CONFLICT DO NOTHING: the hash of the line is unique.
Save(w) ==
    /\ pc[w] = "save"
    /\ LET row == <<item[w], Head(lines[w])>>  f == file[w] IN
        /\ stored' = [stored EXCEPT ![f] = @ \cup {row}]
        /\ count' = IF row \in stored[f] THEN count ELSE [count EXCEPT ![w][f] = @ + 1]
    /\ lines' = [lines EXCEPT ![w] = Tail(@)]
    /\ \/ lines'[w] # <<>> /\ UNCHANGED <<pc, file, items, item>>
       \/ lines'[w] = <<>> /\ AfterFile(w, matches[w])
    /\ UNCHANGED <<envVars, job, unresolved, matches, traceVars, faults>>

\* The rest of the lines is left.  Sync reports the error, ScanErrors does not.
SaveFails(w) ==
    /\ pc[w] = "save"
    /\ Fault
    /\ failed' = [failed EXCEPT ![w] = IF job[w] = "sync" THEN @ \cup {item[w]} ELSE @]
    /\ lines' = [lines EXCEPT ![w] = <<>>]
    /\ AfterFile(w, matches[w])
    /\ UNCHANGED <<envVars, stored, job, unresolved, matches, count, sample,
                   alert, notified, aborted>>

\* The alert of ScanErrors: a sample with the lines, and a notification.
Alert(w) ==
    /\ pc[w] = "alert"
    /\ Sample(w, item[w], "warning", {})
    /\ alert' = [alert EXCEPT ![w] = [@ EXCEPT ![item[w]] = ToSet(matches[w])]]
    /\ notified' = [notified EXCEPT ![w] = @ \cup {item[w]}]
    /\ matches' = [matches EXCEPT ![w] = <<>>]
    /\ UNCHANGED items
    /\ Leave(w)
    /\ UNCHANGED <<envVars, stored, job, unresolved, file, lines, count,
                   aborted>>

WorkerStep(w) ==
    \/ "sync" \in Jobs /\ \E i \in Instances : StartSync(w, i)
    \/ \E j \in Jobs \cap {"scan", "collect"} : StartSweep(w, j)
    \/ "health" \in Jobs /\ StartHealth(w)
    \/ \E i \in Instances : Resolve(w, i) \/ CollectOne(w, i) \/ ScanOne(w, i)
    \/ \E u \in Upstreams : CheckOne(w, u)
    \/ ReadTail(w) \/ TailFails(w) \/ Save(w) \/ SaveFails(w) \/ Alert(w)

EnvironmentStep ==
    \/ \E i \in Instances, f \in Files : Rotate(i, f) \/ \E l \in Lines : Write(i, f, l)
    \/ Edit

Next == EnvironmentStep \/ \E w \in Workers : WorkerStep(w)

Spec == Init /\ [][Next]_vars

-----------------------------------------------------------------------------
(* Properties. *)

Finished(w, j) == pc[w] = "done" /\ job[w] = j /\ w \notin aborted

\* The rows of a file that the workers say they have inserted.
Inserted(f) == SumFunction([w \in Workers |-> count[w][f]])

\* Sync and ScanErrors insert the same lines at the same time, line by line, and
\* yet every row is counted by exactly one of them; and a line that a tail would
\* have returned all the time a Sync ran is stored when it answers without error,
\* whatever nginx wrote and logrotate took away in between.
SyncComplete ==
    /\ \A f \in Files : Inserted(f) = Cardinality(stored[f])
    /\ \A w \in Workers : Finished(w, "sync") /\ failed[w] = {} =>
          \A f \in Files : \A l \in kept[w][item[w]][f] : <<item[w], l>> \in stored[f]

\* A sweep that gets to its items covers all that were usable throughout, whatever
\* happens to the others: the errors of an item stay its own.  A metric sample says
\* how the item did; critical lines that stay in sight are in an alert and lead to
\* a notification, and so does an upstream that does not answer.
SweepCovers ==
    \A w \in Workers :
        /\ Finished(w, "collect") => \A i \in stable[w] \cap Instances :
              /\ sample[w][i] = "none" => i \in failed[w] /\ faults > 0
              /\ sample[w][i] = "failed" => i \in failed[w]
        /\ Finished(w, "scan") => \A i \in (stable[w] \cap Instances) \ failed[w] :
              kept[w][i]["alert"] # {} =>
                 /\ sample[w][i] = "warning" /\ i \in notified[w]
                 /\ kept[w][i]["alert"] \subseteq alert[w][i]
        /\ Finished(w, "health") => \A u \in (stable[w] \cap Upstreams) \ failed[w] :
              sample[w][u] = "success" \/ (sample[w][u] = "failed" /\ u \in notified[w])
=============================================================================
