------------------------- MODULE LogMonitoringProofs -------------------------
(* Proofs about LogMonitoring, for any workers, instances, upstreams, lines   *)
(* and bounds: the sweeps cover what they should, a Sync is complete, and      *)
(* every row is counted once.                                                 *)
EXTENDS LogMonitoring, DataLemmas, SequenceTheorems, TLAPS

\* What one worker has, and what happened to it.
Own(w) == <<pc[w], job[w], unresolved[w], items[w], item[w], file[w], lines[w], matches[w],
            sample[w], alert[w], notified[w], failed[w], w \in aborted>>

\* The types as far as the course of a worker rests on them.
Shape ==
    /\ DOMAIN log = Instances
    /\ upstreams \subseteq Upstreams
    /\ pc \in [Workers -> {"idle", "resolve", "loop", "tail", "save", "alert", "done"}]
    /\ job \in [Workers -> Jobs \cup {"none"}]
    /\ unresolved \in [Workers -> SUBSET Instances]
    /\ items \in [Workers -> SUBSET Items]
    /\ item \in [Workers -> Items]
    /\ file \in [Workers -> Files]
    /\ DOMAIN lines = Workers /\ DOMAIN matches = Workers
    /\ sample \in [Workers -> [Items -> {"none", "success", "failed", "warning"}]]
    /\ DOMAIN alert = Workers /\ \A w \in Workers : DOMAIN alert[w] = Items
    /\ notified \in [Workers -> SUBSET Items]
    /\ failed \in [Workers -> SUBSET Items]
    /\ aborted \subseteq Workers
    /\ stable \in [Workers -> SUBSET Items]
    /\ DOMAIN kept = Workers /\ \A w \in Workers : DOMAIN kept[w] = Instances
    /\ faults \in Nat

\* The types of what is read, stored and counted.
Contents ==
    /\ log \in [Instances -> [Files -> Seq(Lines)]]
    /\ state \in [Instances -> {"absent", "enabled", "disabled", "cut off"}]
    /\ stored \in [Files -> SUBSET (Instances \X Lines)]
    /\ lines \in [Workers -> Seq(Lines)] /\ matches \in [Workers -> Seq(Lines)]
    /\ \A w \in Workers : Len(lines[w]) <= Limit /\ Len(matches[w]) <= MaxMatches
    /\ count \in [Workers -> [Files -> Nat]]
    /\ alert \in [Workers -> [Items -> SUBSET Lines]]
    /\ kept \in [Workers -> [Instances -> [Files \cup {"alert"} -> SUBSET Lines]]]
    /\ writes \in 0..MaxWrites /\ edits \in 0..MaxEdits /\ faults \in 0..MaxFaults

\* How a worker goes through its steps.
Course(w) ==
    /\ pc[w] = "idle" => w \notin aborted /\ items[w] = {} /\ file[w] = "error"
    /\ pc[w] = "idle" <=> job[w] = "none"
    /\ pc[w] # "resolve" => unresolved[w] = {}
    /\ pc[w] = "resolve" => job[w] \in {"scan", "collect"}
    /\ pc[w] = "done" /\ job[w] # "sync" /\ w \notin aborted => items[w] = {}
    /\ w \in aborted => pc[w] = "done"
    /\ pc[w] \in {"tail", "save", "alert"} => job[w] \in {"sync", "scan"} /\ item[w] \in Instances
    /\ job[w] = "sync" => item[w] \in Instances
    /\ job[w] = "scan" => file[w] = "error"
    /\ job[w] = "sync" => pc[w] \in {"tail", "save", "done"}
    /\ pc[w] = "save" <=> lines[w] # <<>>

\* What a worker would have found in a log all the time is still there.
InSight(w) ==
    \A i \in Instances, g \in Files \cup {"alert"} : kept[w][i][g] \subseteq Found(log[i], g)

\* An item that was usable all the time is still to come, in work or covered.
ToCome(w, x) == x \in unresolved[w] \cup items[w]
Scanning(w, i) == pc[w] \in {"tail", "save", "alert"} /\ item[w] = i

Collected(w, i) ==
    /\ sample[w][i] = "none" => i \in failed[w] /\ faults > 0
    /\ sample[w][i] = "failed" => i \in failed[w]
Scanned(w, i) ==
    i \notin failed[w] /\ kept[w][i]["alert"] # {} =>
        /\ sample[w][i] = "warning" /\ i \in notified[w]
        /\ kept[w][i]["alert"] \subseteq alert[w][i]
Checked(w, u) ==
    u \notin failed[w] =>
        sample[w][u] = "success" \/ (sample[w][u] = "failed" /\ u \in notified[w])

\* A scan holds the lines in sight of the item in work, once it has read its log.
Holds(w) ==
    job[w] = "scan" /\ pc[w] \in {"save", "alert"} =>
        item[w] \in failed[w] \/ kept[w][item[w]]["alert"] \subseteq ToSet(matches[w])

Covers(w) ==
    w \notin aborted =>
        /\ job[w] = "collect" => \A i \in stable[w] \cap Instances :
              ToCome(w, i) \/ Collected(w, i)
        /\ job[w] = "scan" => \A i \in stable[w] \cap Instances :
              ToCome(w, i) \/ Scanning(w, i) \/ Scanned(w, i)
        /\ job[w] = "health" => \A u \in stable[w] \cap Upstreams :
              ToCome(w, u) \/ Checked(w, u)

\* The logs a Sync has still to read.
Unread(w, f) ==
    \/ file[w] = "access" /\ f = "error" /\ pc[w] # "done"
    \/ file[w] = f /\ pc[w] = "tail"

\* A line in sight of a Sync is to be read, in its hands or stored.
Syncs(w) ==
    job[w] = "sync" /\ w \notin aborted /\ failed[w] = {} =>
        \A f \in Files : Unread(w, f) \/ \A l \in kept[w][item[w]][f] :
            \/ file[w] = f /\ l \in ToSet(lines[w])
            \/ <<item[w], l>> \in stored[f]

\* A row is counted once, by whoever inserted it.
Counted == \A f \in Files : IsFiniteSet(stored[f]) /\ Inserted(f) = Cardinality(stored[f])

IInv ==
    /\ Shape /\ Contents /\ Counted
    /\ \A w \in Workers : Course(w) /\ InSight(w) /\ Holds(w) /\ Covers(w) /\ Syncs(w)

-----------------------------------------------------------------------------
(* What is read of a log. *)

\* The loop of a filter passes through the lines one by one.
LEMMA FilteredDef ==
    ASSUME NEW X, NEW s \in Seq(X), NEW S
    PROVE  \E upTo : /\ Filtered(s, S) = upTo[Len(s)]
                     /\ upTo[0] = <<>>
                     /\ \A n \in 1..Len(s) :
                           upTo[n] = IF s[n] \in S THEN Append(upTo[n - 1], s[n]) ELSE upTo[n - 1]
<1> DEFINE Pass(f, i) == IF i = 0 THEN <<>>
                         ELSE IF s[i] \in S THEN Append(f[i - 1], s[i]) ELSE f[i - 1]
           Passes(f, n) == f = [i \in 0..n |-> Pass(f, i)]
           upTo == CHOOSE f : Passes(f, Len(s))
           Bad == {n \in Nat : ~ \E f : Passes(f, n)}
<1>1. Filtered(s, S) = upTo[Len(s)]
  BY DEF Filtered
<1>2. Bad = {}
  <2> SUFFICES ASSUME Bad # {} PROVE FALSE
    OBVIOUS
  <2>1. PICK n \in Bad : \A m \in Bad : n <= m
    <3> HIDE DEF Bad
    <3>1. Bad \in SUBSET Nat
      BY DEF Bad
    <3> QED BY <3>1, NatMin
  <2>2. CASE n = 0
    <3> DEFINE f == [i \in 0..n |-> <<>>]
    <3>1. \A i \in 0..n : i = 0
      BY <2>2
    <3>2. \A i \in 0..n : f[i] = Pass(f, i)
      BY <3>1
    <3>3. Passes(f, n)
      <4> HIDE DEF Pass
      <4> QED BY <3>2
    <3> QED BY <2>2, <3>3
  <2>3. CASE n # 0
    <3>1. n \in Nat /\ n - 1 \in Nat /\ n - 1 < n
      BY <2>3
    <3>2. n - 1 \notin Bad
      <4> HIDE DEF Bad
      <4> QED BY <2>1, <3>1
    <3>3. PICK f : Passes(f, n - 1)
      BY <3>1, <3>2
    <3> DEFINE g == [i \in 0..n |-> Pass(f, i)]
    <3>4. \A i \in 0..(n - 1) : i \in 0..n /\ g[i] = f[i]
      <4>1. \A i \in 0..(n - 1) : i \in 0..n
        BY <3>1
      <4> HIDE DEF Pass
      <4>2. \A i \in 0..(n - 1) : f[i] = Pass(f, i)
        BY <3>3
      <4> QED BY <4>1, <4>2
    <3>5. \A i \in 0..n : i # 0 => i - 1 \in 0..(n - 1)
      BY <3>1
    <3>6. \A i \in 0..n : g[i] = Pass(f, i)
      OBVIOUS
    <3>7. \A i \in 0..n : Pass(f, i) = Pass(g, i)
      <4> HIDE DEF g
      <4> QED BY <3>4, <3>5
    <3>8. Passes(g, n)
      <4> HIDE DEF Pass
      <4> QED BY <3>7
    <3> QED BY <3>1, <3>8
  <2> QED BY <2>2, <2>3
<1>3. Len(s) \in Nat
  BY LenProperties
<1>4. Passes(upTo, Len(s))
  <2>1. \E f : Passes(f, Len(s))
    BY <1>2, <1>3
  <2> HIDE DEF Passes
  <2> QED BY <2>1
<1> HIDE DEF upTo
<1>5. \A n \in 0..Len(s) : upTo[n] = Pass(upTo, n)
  <2> HIDE DEF Pass
  <2> QED BY <1>4
<1>6. 0 \in 0..Len(s) /\ \A n \in 1..Len(s) : n \in 0..Len(s) /\ n # 0
  BY <1>3
<1>7. upTo[0] = <<>>
  BY <1>5, <1>6
<1>8. \A n \in 1..Len(s) :
         upTo[n] = IF s[n] \in S THEN Append(upTo[n - 1], s[n]) ELSE upTo[n - 1]
  <2> HIDE DEF Passes
  <2> QED BY <1>5, <1>6
<1> HIDE DEF Passes, Pass
<1> QED BY <1>1, <1>7, <1>8

\* A filter returns lines of its argument, and no more than it has.
LEMMA FilteredType ==
    ASSUME NEW X, NEW s \in Seq(X), NEW S
    PROVE  Filtered(s, S) \in Seq(X) /\ Len(Filtered(s, S)) <= Len(s)
<1>1. PICK upTo : /\ Filtered(s, S) = upTo[Len(s)]
                  /\ upTo[0] = <<>>
                  /\ \A n \in 1..Len(s) :
                        upTo[n] = IF s[n] \in S THEN Append(upTo[n - 1], s[n]) ELSE upTo[n - 1]
  BY FilteredDef
<1> DEFINE Bad == {n \in 0..Len(s) : ~(upTo[n] \in Seq(X) /\ Len(upTo[n]) <= n)}
<1>2. Len(s) \in Nat /\ \A n \in 1..Len(s) : s[n] \in X
  BY LenProperties, ElementOfSeq
<1>3. Bad = {}
  <2> SUFFICES ASSUME Bad # {} PROVE FALSE
    OBVIOUS
  <2>1. PICK n \in Bad : \A m \in Bad : n <= m
    <3>1. Bad \in SUBSET Nat
      BY <1>2
    <3> HIDE DEF Bad
    <3> QED BY <3>1, NatMin
  <2>2. CASE n = 0
    <3>1. upTo[n] = <<>> /\ Len(<<>>) <= 0 /\ <<>> \in Seq(X)
      BY <1>1, <2>2
    <3> QED BY <2>2, <3>1
  <2>3. CASE n # 0
    <3>1. n \in 1..Len(s) /\ n - 1 \in 0..Len(s) /\ n - 1 < n /\ n \in Nat
      BY <1>2, <2>3
    <3>2. n - 1 \notin Bad
      <4> HIDE DEF Bad
      <4> QED BY <2>1, <3>1
    <3>3. upTo[n - 1] \in Seq(X) /\ Len(upTo[n - 1]) <= n - 1
      BY <3>1, <3>2
    <3>4. /\ Append(upTo[n - 1], s[n]) \in Seq(X)
          /\ Len(Append(upTo[n - 1], s[n])) = Len(upTo[n - 1]) + 1
          /\ Len(upTo[n - 1]) \in Nat
      BY <1>2, <3>1, <3>3
    <3>5. upTo[n] \in Seq(X) /\ Len(upTo[n]) <= n
      <4>1. CASE s[n] \in S
        <5>1. upTo[n] = Append(upTo[n - 1], s[n])
          BY <1>1, <3>1, <4>1
        <5> QED BY <3>1, <3>3, <3>4, <5>1
      <4>2. CASE s[n] \notin S
        <5>1. upTo[n] = upTo[n - 1]
          BY <1>1, <3>1, <4>2
        <5> QED BY <3>1, <3>3, <3>4, <5>1
      <4> QED BY <4>1, <4>2
    <3> QED BY <3>5
  <2> QED BY <2>2, <2>3
<1> QED BY <1>1, <1>2, <1>3

\* The last lines are lines, and no more than asked for.
LEMMA LastOfType ==
    ASSUME NEW X, NEW s \in Seq(X), NEW n \in Nat \ {0}
    PROVE  /\ LastOf(s, n) \in Seq(X)
           /\ Len(LastOf(s, n)) <= n /\ Len(LastOf(s, n)) <= Len(s)
<1> DEFINE from == Max({1, Len(s) - n + 1})
<1>1. Len(s) \in Nat /\ \A i \in 1..Len(s) : s[i] \in X
  BY LenProperties, ElementOfSeq
<1>2. from \in Int /\ from >= 1 /\ from >= Len(s) - n + 1
  <2> DEFINE B == {1, Len(s) - n + 1}
  <2>1. \E x \in B : \A y \in B : x >= y
    <3>1. CASE 1 >= Len(s) - n + 1
      BY <1>1, <3>1
    <3>2. CASE Len(s) - n + 1 >= 1
      BY <1>1, <3>2
    <3> QED BY <1>1, <3>1, <3>2
  <2>2. from \in B /\ \A y \in B : from >= y
    BY <2>1 DEF Max
  <2> HIDE DEF from
  <2> QED BY <1>1, <2>2
<1> HIDE DEF from
<1>3. \A i \in from..Len(s) : s[i] \in X
  BY <1>1, <1>2
<1>4. /\ SubSeq(s, from, Len(s)) \in Seq(X)
      /\ Len(SubSeq(s, from, Len(s))) = IF from <= Len(s) THEN Len(s) - from + 1 ELSE 0
  BY <1>1, <1>2, <1>3, SubSeqProperties
<1>5. LastOf(s, n) = SubSeq(s, from, Len(s))
  BY DEF LastOf, from
<1> QED BY <1>1, <1>2, <1>4, <1>5

\* What is read of a log.
LEMMA ReadType ==
    ASSUME NEW s \in Seq(Lines)
    PROVE  /\ TailLines(s) \in Seq(Lines) /\ Len(TailLines(s)) <= Limit
           /\ Matching(s) \in Seq(Lines)
           /\ Len(Matching(s)) <= MaxMatches /\ Len(Matching(s)) <= Len(s)
           /\ \A f : Records(f, s) \in Seq(Lines) /\ Len(Records(f, s)) <= Len(s)
<1>1. TailLines(s) \in Seq(Lines) /\ Len(TailLines(s)) <= Limit
  BY LimitAssumption, LastOfType DEF TailLines
<1>2. /\ Filtered(s, Critical) \in Seq(Lines) /\ Len(Filtered(s, Critical)) <= Len(s)
      /\ Filtered(s, Parsed) \in Seq(Lines) /\ Len(Filtered(s, Parsed)) <= Len(s)
  BY FilteredType
<1>3. /\ Matching(s) \in Seq(Lines) /\ Len(Matching(s)) <= MaxMatches
      /\ Len(Matching(s)) <= Len(Filtered(s, Critical))
  BY <1>2, LimitAssumption, LastOfType DEF Matching
<1>4. Len(s) \in Nat /\ Len(Matching(s)) \in Nat /\ Len(Filtered(s, Critical)) \in Nat
  BY <1>2, <1>3, LenProperties
<1>5. \A f : Records(f, s) \in Seq(Lines) /\ Len(Records(f, s)) <= Len(s)
  BY <1>2, <1>4 DEF Records
<1> QED BY <1>1, <1>2, <1>3, <1>4, <1>5

\* What would be found are lines.
LEMMA FoundType ==
    ASSUME NEW g \in [Files -> Seq(Lines)], NEW f \in Files \cup {"alert"}
    PROVE  Found(g, f) \subseteq Lines
<1>1. ASSUME NEW s \in Seq(Lines) PROVE ToSet(s) \subseteq Lines
  BY <1>1, LenProperties DEF ToSet
<1>2. CASE f = "alert"
  <2>1. g["error"] \in Seq(Lines)
    BY DEF Files
  <2>2. Matching(LastOf(g["error"], Limit)) \in Seq(Lines)
    BY <2>1, ReadType DEF TailLines
  <2> QED BY <1>1, <1>2, <2>2 DEF Found
<1>3. CASE f # "alert"
  <2>1. g[f] \in Seq(Lines)
    BY <1>3
  <2>2. Records(f, LastOf(g[f], Limit)) \in Seq(Lines)
    BY <2>1, ReadType DEF TailLines
  <2> QED BY <1>1, <1>3, <2>2 DEF Found
<1> QED BY <1>2, <1>3

-----------------------------------------------------------------------------
(* Types. *)

PcStates == {"idle", "resolve", "loop", "tail", "save", "alert", "done"}
Outcomes == {"none", "success", "failed", "warning"}

\* What the pieces that the steps share do to the types.
LEMMA AfterFileShape ==
    ASSUME Shape, NEW w \in Workers, NEW found, AfterFile(w, found)
    PROVE  /\ UNCHANGED items /\ file' = [file EXCEPT ![w] = "error"]
           /\ file' \in [Workers -> Files] /\ item' \in [Workers -> Items]
           /\ \/ pc' = [pc EXCEPT ![w] = "tail"] \/ pc' = [pc EXCEPT ![w] = "done"]
              \/ pc' = [pc EXCEPT ![w] = "alert"] \/ pc' = [pc EXCEPT ![w] = "loop"]
<1> USE NamesAssumption DEF Items, Files
<1>1. file' = [file EXCEPT ![w] = "error"] /\ file' \in [Workers -> Files]
  BY DEF AfterFile, Shape
<1>2. UNCHANGED items /\ (UNCHANGED item \/ item' = [item EXCEPT ![w] = Default])
  BY DEF AfterFile, Leave
<1>3. item' \in [Workers -> Items]
  BY <1>2 DEF Shape
<1>4. \/ pc' = [pc EXCEPT ![w] = "tail"] \/ pc' = [pc EXCEPT ![w] = "done"]
      \/ pc' = [pc EXCEPT ![w] = "alert"] \/ pc' = [pc EXCEPT ![w] = "loop"]
  BY DEF AfterFile, Leave, Goto, NextItem
<1> QED BY <1>1, <1>2, <1>3, <1>4

\* A sample keeps the types.
LEMMA SampleShape ==
    ASSUME Shape, NEW w \in Workers, NEW x \in Items, NEW status \in Outcomes,
           NEW f \in SUBSET Items, Sample(w, x, status, f)
    PROVE  /\ sample' \in [Workers -> [Items -> Outcomes]]
           /\ failed' \in [Workers -> SUBSET Items] /\ faults' \in Nat
<1>1. CASE /\ sample' = [sample EXCEPT ![w] = [@ EXCEPT ![x] = status]]
           /\ failed' = [failed EXCEPT ![w] = @ \cup f] /\ UNCHANGED faults
  <2>1. [sample[w] EXCEPT ![x] = status] \in [Items -> Outcomes]
    BY DEF Shape, Outcomes
  <2> QED BY <1>1, <2>1 DEF Shape, Outcomes
<1>2. CASE Fault /\ failed' = [failed EXCEPT ![w] = @ \cup {x}] /\ UNCHANGED sample
  BY <1>2 DEF Shape, Fault, Outcomes
<1> QED BY <1>1, <1>2 DEF Sample

\* The types hold after every step.
LEMMA ShapeNext ==
    ASSUME Shape, [Next]_vars
    PROVE  Shape'
<1> USE BoundsAssumption, NamesAssumption
    DEF Shape, Items, Files, Fault, Goto, Leave, Take, Start, NextItem, Usable,
        envVars, workVars, traceVars, PcStates, Outcomes
<1>1. ASSUME NEW w \in Workers, NEW i \in Instances, StartSync(w, i), "sync" \in Jobs PROVE Shape'
  BY <1>1 DEF StartSync
<1>2. ASSUME NEW w \in Workers, NEW j \in Jobs \cap {"scan", "collect"}, StartSweep(w, j) PROVE Shape'
  <2>1. PICK S \in SUBSET Instances : unresolved' = [unresolved EXCEPT ![w] = S]
    BY <1>2 DEF StartSweep
  <2> QED BY <1>2, <2>1 DEF StartSweep
<1>3. ASSUME NEW w \in Workers, StartHealth(w), "health" \in Jobs PROVE Shape'
  <2>1. pc' = [pc EXCEPT ![w] = "done"] \/ pc' = [pc EXCEPT ![w] = "loop"]
    BY <1>3 DEF StartHealth
  <2>2. pc' \in [Workers -> PcStates]
    BY <2>1
  <2>3. items' \in [Workers -> SUBSET Items]
    BY <1>3 DEF StartHealth
  <2> QED BY <1>3, <2>2, <2>3 DEF StartHealth
<1>4. ASSUME NEW w \in Workers, NEW i \in Instances, Resolve(w, i) PROVE Shape'
  <2>1. \E s \in PcStates : pc' = [pc EXCEPT ![w] = s]
    BY <1>4 DEF Resolve
  <2>2. pc' \in [Workers -> PcStates]
    BY <2>1
  <2>3. items' \in [Workers -> SUBSET Items] /\ unresolved' \in [Workers -> SUBSET Instances]
    <3>1. CASE Resolvable(i)
      <4>1. /\ items' = [items EXCEPT ![w] = @ \cup {i}]
            /\ unresolved' = [unresolved EXCEPT ![w] = @ \ {i}]
        BY <1>4, <3>1 DEF Resolve
      <4>2. items[w] \cup {i} \in SUBSET Items
        OBVIOUS
      <4> QED BY <4>1, <4>2
    <3>2. CASE ~Resolvable(i)
      BY <1>4, <3>2 DEF Resolve
    <3> QED BY <3>1, <3>2
  <2>4. aborted' \subseteq Workers
    BY <1>4 DEF Resolve
  <2> QED BY <1>4, <2>2, <2>3, <2>4 DEF Resolve
<1>5. ASSUME NEW w \in Workers, NEW i \in Instances, CollectOne(w, i) PROVE Shape'
  <2>1. PICK status \in Outcomes, f \in SUBSET Items : Sample(w, i, status, f)
    BY <1>5 DEF CollectOne
  <2>2. /\ sample' \in [Workers -> [Items -> Outcomes]]
        /\ failed' \in [Workers -> SUBSET Items] /\ faults' \in Nat
    <3>1. i \in Items
      OBVIOUS
    <3> HIDE DEF Shape, Items, Outcomes
    <3> QED BY <2>1, <3>1, SampleShape
  <2>3. pc' \in [Workers -> PcStates] /\ items' \in [Workers -> SUBSET Items]
    BY <1>5 DEF CollectOne
  <2> QED BY <1>5, <2>2, <2>3 DEF CollectOne
<1>6. ASSUME NEW w \in Workers, NEW i \in Instances, ScanOne(w, i) PROVE Shape'
  BY <1>6 DEF ScanOne
<1>7. ASSUME NEW w \in Workers, NEW u \in Upstreams, CheckOne(w, u) PROVE Shape'
  <2>1. /\ sample' \in [Workers -> [Items -> Outcomes]]
        /\ failed' \in [Workers -> SUBSET Items] /\ faults' \in Nat
    <3>0. u \in Items
      OBVIOUS
    <3>1. CASE failed' = [failed EXCEPT ![w] = @ \cup {u}] /\ UNCHANGED <<sample, faults>>
      <4>1. failed[w] \cup {u} \in SUBSET Items
        BY <3>0
      <4> QED BY <3>1, <4>1
    <3>2. CASE \E status \in Outcomes : Sample(w, u, status, {})
      <4> HIDE DEF Shape, Items, Outcomes
      <4> QED BY <3>0, <3>2, SampleShape
    <3> QED BY <1>7, <3>1, <3>2 DEF CheckOne
  <2>2. pc' \in [Workers -> PcStates] /\ items' \in [Workers -> SUBSET Items]
    BY <1>7 DEF CheckOne
  <2>3. notified' \in [Workers -> SUBSET Items]
    BY <1>7 DEF CheckOne
  <2> QED BY <1>7, <2>1, <2>2, <2>3 DEF CheckOne
<1>8. ASSUME NEW w \in Workers, ReadTail(w) PROVE Shape'
  <2>1. DOMAIN lines' = Workers /\ DOMAIN matches' = Workers
    BY <1>8 DEF ReadTail
  <2>2. /\ file' \in [Workers -> Files] /\ item' \in [Workers -> Items]
        /\ pc' \in [Workers -> PcStates] /\ items' \in [Workers -> SUBSET Items]
    <3>1. CASE AfterFile(w, <<>>)
      <4>1. PICK found : AfterFile(w, found)
        BY <3>1
      <4> HIDE DEF Shape, Items, Files, Goto, Leave, NextItem
      <4> QED BY <4>1, AfterFileShape DEF PcStates, Shape
    <3>2. CASE Goto(w, "save") /\ UNCHANGED <<file, items, item>>
      BY <3>2
    <3> QED BY <1>8, <3>1, <3>2 DEF ReadTail
  <2>3. UNCHANGED <<envVars, job, unresolved, traceVars, faults>>
    BY <1>8 DEF ReadTail
  <2> QED BY <2>1, <2>2, <2>3
<1>9. ASSUME NEW w \in Workers, TailFails(w) PROVE Shape'
  <2>1. /\ file' \in [Workers -> Files] /\ item' \in [Workers -> Items]
        /\ pc' \in [Workers -> PcStates] /\ items' \in [Workers -> SUBSET Items]
    <3>1. AfterFile(w, matches[w])
      BY <1>9 DEF TailFails
    <3>2. /\ UNCHANGED items /\ file' \in [Workers -> Files] /\ item' \in [Workers -> Items]
          /\ \/ pc' = [pc EXCEPT ![w] = "tail"] \/ pc' = [pc EXCEPT ![w] = "done"]
             \/ pc' = [pc EXCEPT ![w] = "alert"] \/ pc' = [pc EXCEPT ![w] = "loop"]
      BY <3>1, AfterFileShape
    <3> QED BY <3>2
  <2>2. failed' \in [Workers -> SUBSET Items] /\ faults' \in Nat
    BY <1>9 DEF TailFails
  <2>3. UNCHANGED <<envVars, job, unresolved, lines, matches, sample, alert, notified, aborted>>
    BY <1>9 DEF TailFails
  <2> QED BY <2>1, <2>2, <2>3
<1>10. ASSUME NEW w \in Workers, Save(w) PROVE Shape'
  <2>1. /\ file' \in [Workers -> Files] /\ item' \in [Workers -> Items]
        /\ pc' \in [Workers -> PcStates] /\ items' \in [Workers -> SUBSET Items]
    <3>1. CASE AfterFile(w, matches[w])
      BY <3>1, AfterFileShape
    <3>2. CASE UNCHANGED <<pc, file, items, item>>
      BY <3>2
    <3> QED BY <1>10, <3>1, <3>2 DEF Save
  <2>2. UNCHANGED <<envVars, job, unresolved, matches, traceVars, faults>> /\ DOMAIN lines' = Workers
    BY <1>10 DEF Save
  <2> QED BY <2>1, <2>2
<1>11. ASSUME NEW w \in Workers, SaveFails(w) PROVE Shape'
  <2>1. /\ file' \in [Workers -> Files] /\ item' \in [Workers -> Items]
        /\ pc' \in [Workers -> PcStates] /\ items' \in [Workers -> SUBSET Items]
    <3>1. AfterFile(w, matches[w])
      BY <1>11 DEF SaveFails
    <3>2. /\ UNCHANGED items /\ file' \in [Workers -> Files] /\ item' \in [Workers -> Items]
          /\ \/ pc' = [pc EXCEPT ![w] = "tail"] \/ pc' = [pc EXCEPT ![w] = "done"]
             \/ pc' = [pc EXCEPT ![w] = "alert"] \/ pc' = [pc EXCEPT ![w] = "loop"]
      BY <3>1, AfterFileShape
    <3> QED BY <3>2
  <2>2. failed' \in [Workers -> SUBSET Items] /\ faults' \in Nat
    BY <1>11 DEF SaveFails
  <2>3. /\ UNCHANGED <<envVars, job, unresolved, matches, sample, alert, notified, aborted>>
        /\ DOMAIN lines' = Workers
    BY <1>11 DEF SaveFails
  <2> QED BY <2>1, <2>2, <2>3
<1>12. ASSUME NEW w \in Workers, Alert(w) PROVE Shape'
  <2>1. /\ sample' \in [Workers -> [Items -> Outcomes]]
        /\ failed' \in [Workers -> SUBSET Items] /\ faults' \in Nat
    BY <1>12, SampleShape DEF Alert
  <2>2. DOMAIN alert' = Workers /\ \A v \in Workers : DOMAIN alert'[v] = Items
    BY <1>12 DEF Alert
  <2>3. notified' \in [Workers -> SUBSET Items] /\ DOMAIN matches' = Workers
    BY <1>12 DEF Alert
  <2>4. pc' \in [Workers -> PcStates] /\ item' \in [Workers -> Items] /\ items' = items
    BY <1>12 DEF Alert
  <2>5. UNCHANGED <<envVars, job, unresolved, file, lines, aborted>>
    BY <1>12 DEF Alert
  <2> QED BY <2>1, <2>2, <2>3, <2>4, <2>5
<1>13. ASSUME NEW i \in Instances, NEW f \in Files, NEW s, SetLog(i, f, s) PROVE Shape'
  BY <1>13 DEF SetLog
<1>14. ASSUME Edit PROVE Shape'
  BY <1>14 DEF Edit
<1>15. CASE UNCHANGED vars
  BY <1>15 DEF vars
<1> HIDE DEF Shape
<1> QED BY <1>1, <1>2, <1>3, <1>4, <1>5, <1>6, <1>7, <1>8, <1>9, <1>10, <1>11, <1>12, <1>13, <1>14, <1>15
        DEF Next, WorkerStep, EnvironmentStep, Rotate, Write

\* The types of the contents hold after every step.
LEMMA ContentsNext ==
    ASSUME Shape, Contents, \A v \in Workers : Course(v), [Next]_vars
    PROVE  Contents'
<1> DEFINE Data == <<log, state, stored, lines, matches, count, alert, kept, writes, edits>>
<1>1. ASSUME Fault \/ UNCHANGED faults PROVE faults' \in 0..MaxFaults
  <2>1. MaxFaults \in Nat /\ faults \in 0..MaxFaults
    BY BoundsAssumption DEF Contents
  <2> QED BY <1>1, <2>1 DEF Fault
<1>2. ASSUME UNCHANGED Data, Fault \/ UNCHANGED faults PROVE Contents'
  BY <1>1, <1>2 DEF Contents
<1>3. ASSUME NEW i \in Instances, NEW f \in Files, NEW s \in Seq(Lines), SetLog(i, f, s)
      PROVE  Contents'
  <2>1. log' \in [Instances -> [Files -> Seq(Lines)]]
    <3>1. [log[i] EXCEPT ![f] = s] \in [Files -> Seq(Lines)]
      BY DEF Contents
    <3> QED BY <1>3, <3>1 DEF SetLog, Contents
  <2>2. writes' \in 0..MaxWrites
    <3>1. MaxWrites \in Nat /\ writes \in 0..MaxWrites
      BY BoundsAssumption DEF Contents
    <3>2. writes < MaxWrites /\ writes' = writes + 1
      BY <1>3 DEF SetLog
    <3> QED BY <3>1, <3>2
  <2>3. kept' \in [Workers -> [Instances -> [Files \cup {"alert"} -> SUBSET Lines]]]
    <3> DEFINE cut(w) == [g \in Files \cup {"alert"} |-> kept[w][i][g] \cap Found(log'[i], g)]
    <3>1. ASSUME NEW w \in Workers PROVE cut(w) \in [Files \cup {"alert"} -> SUBSET Lines]
      <4>1. kept[w][i] \in [Files \cup {"alert"} -> SUBSET Lines]
        BY DEF Contents
      <4> QED BY <4>1
    <3>2. kept' = [w \in Workers |-> [kept[w] EXCEPT ![i] = cut(w)]]
      BY <1>3 DEF SetLog
    <3> HIDE DEF cut
    <3> QED BY <3>1, <3>2 DEF Contents
  <2>4. UNCHANGED <<state, stored, lines, matches, count, alert, edits, faults>>
    BY <1>3 DEF SetLog, workVars, traceVars
  <2> QED BY <2>1, <2>2, <2>3, <2>4 DEF Contents
<1>4. CASE Edit
  <2>1. state' \in [Instances -> {"absent", "enabled", "disabled", "cut off"}]
    BY <1>4 DEF Edit, Contents
  <2>2. edits' \in 0..MaxEdits
    <3>1. MaxEdits \in Nat /\ edits \in 0..MaxEdits
      BY BoundsAssumption DEF Contents
    <3>2. edits < MaxEdits /\ edits' = edits + 1
      BY <1>4 DEF Edit
    <3> QED BY <3>1, <3>2
  <2>3. UNCHANGED <<log, kept, writes, stored, lines, matches, count, alert, faults>>
    BY <1>4 DEF Edit, workVars, traceVars
  <2> QED BY <2>1, <2>2, <2>3 DEF Contents
<1>5. ASSUME NEW w \in Workers, NEW j, NEW looksAt, Start(w, j, looksAt)
      PROVE  Contents'
  <2> DEFINE seen == [i \in Instances |-> [f \in Files \cup {"alert"} |->
                          IF <<i, f>> \in looksAt THEN Found(log[i], f) ELSE {}]]
  <2>1. seen \in [Instances -> [Files \cup {"alert"} -> SUBSET Lines]]
    <3>1. \A i \in Instances, f \in Files \cup {"alert"} : Found(log[i], f) \subseteq Lines
      BY FoundType DEF Contents
    <3> QED BY <3>1
  <2>2. kept' = [kept EXCEPT ![w] = seen]
    BY <1>5 DEF Start
  <2>3. kept' \in [Workers -> [Instances -> [Files \cup {"alert"} -> SUBSET Lines]]]
    <3> HIDE DEF seen
    <3> QED BY <2>1, <2>2 DEF Contents
  <2>4. UNCHANGED <<log, state, writes, edits, stored, lines, matches, count, alert, faults>>
    BY <1>5 DEF Start
  <2> QED BY <2>3, <2>4 DEF Contents
<1>6. ASSUME NEW w \in Workers, NEW i \in Instances, Resolve(w, i) \/ ScanOne(w, i)
      PROVE  Contents'
  BY <1>2, <1>6 DEF Resolve, ScanOne, envVars, traceVars
<1>7. ASSUME NEW w \in Workers, NEW x, CollectOne(w, x) \/ CheckOne(w, x)
      PROVE  Contents'
  BY <1>2, <1>7 DEF CollectOne, CheckOne, Sample, envVars
<1>8. ASSUME NEW w \in Workers, ReadTail(w) PROVE Contents'
  <2> DEFINE read == TailLines(log[item[w]][file[w]])
  <2>1. /\ read \in Seq(Lines) /\ Len(read) <= Limit
        /\ Matching(read) \in Seq(Lines) /\ Len(Matching(read)) <= MaxMatches
        /\ Len(Matching(read)) <= Len(read)
        /\ \A f : Records(f, read) \in Seq(Lines) /\ Len(Records(f, read)) <= Len(read)
    <3>1. item[w] \in Instances /\ file[w] \in Files
      BY <1>8 DEF ReadTail, Course, Shape
    <3>2. log[item[w]][file[w]] \in Seq(Lines)
      BY <3>1 DEF Contents
    <3> QED BY <3>2, ReadType
  <2>2. Len(Matching(read)) <= Limit /\ \A f : Len(Records(f, read)) <= Limit
    <3>1. Len(read) \in Nat /\ Limit \in Nat /\ Len(Matching(read)) \in Nat
      BY <2>1, LimitAssumption, LenProperties
    <3>2. \A f : Len(Records(f, read)) \in Nat
      BY <2>1, LenProperties
    <3> QED BY <2>1, <3>1, <3>2
  <2>3. \E s \in Seq(Lines) : Len(s) <= Limit /\ lines' = [lines EXCEPT ![w] = s]
    BY <1>8, <2>1, <2>2 DEF ReadTail
  <2>4. \/ UNCHANGED matches
        \/ matches' = [matches EXCEPT ![w] = Matching(read)]
    BY <1>8 DEF ReadTail
  <2> HIDE DEF read
  <2>5. /\ lines' \in [Workers -> Seq(Lines)] /\ matches' \in [Workers -> Seq(Lines)]
        /\ \A v \in Workers : Len(lines'[v]) <= Limit /\ Len(matches'[v]) <= MaxMatches
    BY <2>1, <2>3, <2>4 DEF Contents
  <2>6. UNCHANGED <<log, state, stored, count, alert, kept, writes, edits, faults>>
    BY <1>8 DEF ReadTail, envVars, traceVars
  <2> QED BY <2>5, <2>6 DEF Contents
<1>9. ASSUME NEW w \in Workers, TailFails(w) PROVE Contents'
  BY <1>2, <1>9 DEF TailFails, envVars
<1>10. ASSUME NEW w \in Workers, Save(w) PROVE Contents'
  <2>1. lines[w] # <<>> /\ lines[w] \in Seq(Lines) /\ item[w] \in Instances /\ file[w] \in Files
    BY <1>10 DEF Save, Course, Shape, Contents
  <2>2. /\ Head(lines[w]) \in Lines /\ Tail(lines[w]) \in Seq(Lines)
        /\ Len(Tail(lines[w])) = Len(lines[w]) - 1
    BY <2>1, HeadTailProperties
  <2>3. /\ lines' \in [Workers -> Seq(Lines)]
        /\ \A v \in Workers : Len(lines'[v]) <= Limit
    <3>1. lines' = [lines EXCEPT ![w] = Tail(lines[w])]
      BY <1>10 DEF Save
    <3>2. Len(Tail(lines[w])) <= Limit
      <4>1. Len(lines[w]) \in Nat /\ Limit \in Nat /\ Len(lines[w]) <= Limit
        BY <2>1, LimitAssumption, LenProperties DEF Contents
      <4> QED BY <2>2, <4>1
    <3> QED BY <2>2, <3>1, <3>2 DEF Contents
  <2>4. stored' \in [Files -> SUBSET (Instances \X Lines)]
    <3>1. stored' = [stored EXCEPT ![file[w]] = @ \cup {<<item[w], Head(lines[w])>>}]
      BY <1>10 DEF Save
    <3>2. stored[file[w]] \cup {<<item[w], Head(lines[w])>>} \in SUBSET (Instances \X Lines)
      <4>1. stored[file[w]] \in SUBSET (Instances \X Lines)
        BY <2>1 DEF Contents
      <4> QED BY <2>1, <2>2, <4>1
    <3> QED BY <3>1, <3>2 DEF Contents
  <2>5. count' \in [Workers -> [Files -> Nat]]
    <3>1. CASE UNCHANGED count
      BY <3>1 DEF Contents
    <3>2. CASE count' = [count EXCEPT ![w][file[w]] = @ + 1]
      <4>1. [count[w] EXCEPT ![file[w]] = @ + 1] \in [Files -> Nat]
        <5>1. count[w] \in [Files -> Nat]
          BY DEF Contents
        <5>2. count[w][file[w]] \in Nat
          BY <2>1, <5>1
        <5>3. count[w][file[w]] + 1 \in Nat
          BY <5>2
        <5> QED BY <5>1, <5>3
      <4> QED BY <3>2, <4>1 DEF Contents
    <3> QED BY <1>10, <3>1, <3>2 DEF Save
  <2>6. UNCHANGED <<log, state, matches, alert, kept, writes, edits, faults>>
    BY <1>10 DEF Save, envVars, traceVars
  <2> QED BY <2>3, <2>4, <2>5, <2>6 DEF Contents
<1>11. ASSUME NEW w \in Workers, SaveFails(w) PROVE Contents'
  <2>1. lines' = [lines EXCEPT ![w] = <<>>] /\ Fault
    BY <1>11 DEF SaveFails
  <2>2. <<>> \in Seq(Lines) /\ Len(<<>>) <= Limit
    BY LimitAssumption
  <2>3. /\ lines' \in [Workers -> Seq(Lines)]
        /\ \A v \in Workers : Len(lines'[v]) <= Limit
    BY <2>1, <2>2 DEF Contents
  <2>4. UNCHANGED <<log, state, stored, matches, count, alert, kept, writes, edits>>
    BY <1>11 DEF SaveFails, envVars
  <2> QED BY <1>1, <2>1, <2>3, <2>4 DEF Contents
<1>12. ASSUME NEW w \in Workers, Alert(w) PROVE Contents'
  <2>1. /\ alert' = [alert EXCEPT ![w] = [@ EXCEPT ![item[w]] = ToSet(matches[w])]]
        /\ matches' = [matches EXCEPT ![w] = <<>>]
        /\ Fault \/ UNCHANGED faults
    BY <1>12 DEF Alert, Sample
  <2>2. matches[w] \in Seq(Lines)
    BY DEF Contents
  <2>3. ToSet(matches[w]) \subseteq Lines
    BY <2>2, LenProperties DEF ToSet
  <2>4. alert' \in [Workers -> [Items -> SUBSET Lines]]
    <3>1. [alert[w] EXCEPT ![item[w]] = ToSet(matches[w])] \in [Items -> SUBSET Lines]
      BY <2>3 DEF Contents
    <3> QED BY <2>1, <3>1 DEF Contents
  <2>5. <<>> \in Seq(Lines) /\ Len(<<>>) <= MaxMatches
    BY LimitAssumption
  <2>6. /\ matches' \in [Workers -> Seq(Lines)]
        /\ \A v \in Workers : Len(matches'[v]) <= MaxMatches
    BY <2>1, <2>5 DEF Contents
  <2>7. UNCHANGED <<log, state, stored, lines, count, kept, writes, edits>>
    BY <1>12 DEF Alert, envVars
  <2> QED BY <1>1, <2>1, <2>4, <2>6, <2>7 DEF Contents
<1>13. CASE UNCHANGED vars
  BY <1>2, <1>13 DEF vars, envVars, workVars, traceVars
<1>14. ASSUME NEW i \in Instances, NEW f \in Files, Rotate(i, f) \/ \E l \in Lines : Write(i, f, l)
       PROVE  \E s \in Seq(Lines) : SetLog(i, f, s)
  <2>1. log[i][f] \in Seq(Lines)
    BY DEF Contents
  <2>2. <<>> \in Seq(Lines) /\ \A l \in Lines : Append(log[i][f], l) \in Seq(Lines)
    BY <2>1
  <2> QED BY <1>14, <2>2 DEF Rotate, Write
<1>15. ASSUME EnvironmentStep PROVE Contents'
  BY <1>3, <1>4, <1>14, <1>15 DEF EnvironmentStep
<1>16. ASSUME NEW w \in Workers, WorkerStep(w) PROVE Contents'
  BY <1>5, <1>6, <1>7, <1>8, <1>9, <1>10, <1>11, <1>12, <1>16
     DEF WorkerStep, StartSync, StartSweep, StartHealth
<1> QED BY <1>13, <1>15, <1>16 DEF Next

\* A row is counted by the worker whose step stores it.
LEMMA CountedNext ==
    ASSUME Shape, Contents, Counted, \A v \in Workers : Course(v), [Next]_vars
    PROVE  Counted'
<1> DEFINE by(c, f) == [v \in Workers |-> c[v][f]]
<1>0. ASSUME NEW f \in Files
      PROVE  /\ Inserted(f) = SumFunction(by(count, f))
             /\ Inserted(f)' = SumFunction(by(count', f))
  BY DEF Inserted
<1> HIDE DEF by
<1>1. ASSUME UNCHANGED <<count, stored>> PROVE Counted'
  BY <1>0, <1>1 DEF Counted
<1>2. ASSUME NEW w \in Workers, Save(w) PROVE Counted'
  <2> DEFINE row == <<item[w], Head(lines[w])>>
  <2>1. /\ file[w] \in Files /\ row \in Instances \X Lines
        /\ stored' = [stored EXCEPT ![file[w]] = @ \cup {row}]
        /\ count' = IF row \in stored[file[w]] THEN count
                    ELSE [count EXCEPT ![w][file[w]] = @ + 1]
    <3>1. lines[w] # <<>> /\ lines[w] \in Seq(Lines) /\ item[w] \in Instances /\ file[w] \in Files
      BY <1>2 DEF Save, Course, Shape, Contents
    <3>2. Head(lines[w]) \in Lines
      BY <3>1, HeadTailProperties
    <3> QED BY <1>2, <3>1, <3>2 DEF Save
  <2> HIDE DEF row
  <2>2. \A f \in Files : by(count, f) \in [Workers -> Nat]
    BY DEF Contents, by
  <2>3. ASSUME NEW f \in Files
        PROVE  IsFiniteSet(stored'[f]) /\ Inserted(f)' = Cardinality(stored'[f])
    <3>1. CASE f = file[w] /\ row \notin stored[f]
      <4>1. stored'[f] = stored[f] \cup {row}
        BY <2>1, <3>1 DEF Contents
      <4>2. IsFiniteSet(stored'[f]) /\ Cardinality(stored'[f]) = Cardinality(stored[f]) + 1
        <5>1. IsFiniteSet(stored[f])
          BY DEF Counted
        <5>2. /\ IsFiniteSet(stored[f] \cup {row})
              /\ Cardinality(stored[f] \cup {row}) = Cardinality(stored[f]) + 1
          BY <3>1, <5>1, FS_AddElement
        <5> QED BY <4>1, <5>2
      <4>3. by(count', f) = [by(count, f) EXCEPT ![w] = @ + 1]
        <5>1. \A v \in Workers : count'[v][f] = IF v = w THEN count[v][f] + 1 ELSE count[v][f]
          BY <2>1, <3>1 DEF Contents
        <5> QED BY <5>1 DEF by
      <4>4. SumFunction(by(count', f)) = SumFunction(by(count, f)) + 1
        <5> DEFINE h == by(count, f)
        <5>1. h \in [Workers -> Nat]
          BY <2>2
        <5> HIDE DEF h
        <5>2. SumFunction([h EXCEPT ![w] = @ + 1]) = SumFunction(h) + 1
          BY <5>1, SumOneMore, WorkersAssumption
        <5> QED BY <4>3, <5>2 DEF h
      <4> QED BY <1>0, <4>2, <4>4 DEF Counted
    <3>2. CASE f # file[w] \/ row \in stored[f]
      <4>1. stored'[f] = stored[f]
        BY <2>1, <3>2 DEF Contents
      <4>2. by(count', f) = by(count, f)
        <5>1. \A v \in Workers : count'[v][f] = count[v][f]
          BY <2>1, <3>2 DEF Contents
        <5> QED BY <5>1 DEF by
      <4> QED BY <1>0, <4>1, <4>2 DEF Counted
    <3> QED BY <3>1, <3>2
  <2> QED BY <2>3 DEF Counted
<1>3. ASSUME NEW w \in Workers, WorkerStep(w), ~Save(w) PROVE UNCHANGED <<count, stored>>
  BY <1>3 DEF WorkerStep, StartSync, StartSweep, StartHealth, Start, Resolve, CollectOne,
              ScanOne, CheckOne, ReadTail, TailFails, SaveFails, Alert
<1>4. ASSUME EnvironmentStep \/ UNCHANGED vars PROVE UNCHANGED <<count, stored>>
  BY <1>4 DEF EnvironmentStep, Rotate, Write, SetLog, Edit, vars, workVars
<1> QED BY <1>1, <1>2, <1>3, <1>4 DEF Next

-----------------------------------------------------------------------------
(* The steps of the others. *)

\* A worker keeps its course if nothing of its own changes.
LEMMA Kept ==
    ASSUME Shape, NEW v \in Workers, Course(v), Holds(v), Covers(v), Syncs(v), UNCHANGED Own(v),
           faults' \in Nat, faults' >= faults, stable'[v] \subseteq stable[v],
           \A i \in Instances, f \in Files \cup {"alert"} : kept'[v][i][f] \subseteq kept[v][i][f],
           \A f \in Files : stored[f] \subseteq stored'[f]
    PROVE  Course(v)' /\ Holds(v)' /\ Covers(v)' /\ Syncs(v)'
<1>1. Course(v)'
  BY DEF Own, Course
<1>2. Holds(v)'
  BY DEF Own, Holds, Course
<1>3. Covers(v)'
  <2>1. ASSUME NEW i \in Instances, Collected(v, i) PROVE Collected(v, i)'
    BY <2>1 DEF Own, Collected, Shape
  <2>2. ASSUME NEW i \in Instances, Scanned(v, i) PROVE Scanned(v, i)'
    BY <2>2 DEF Own, Scanned
  <2>3. ASSUME NEW i \in Instances, Scanning(v, i) PROVE Scanning(v, i)'
    BY <2>3 DEF Own, Scanning
  <2>4. ASSUME NEW x, Checked(v, x) PROVE Checked(v, x)'
    BY <2>4 DEF Own, Checked
  <2>5. ASSUME NEW x, ToCome(v, x) PROVE ToCome(v, x)'
    BY <2>5 DEF Own, ToCome
  <2> QED BY <2>1, <2>2, <2>3, <2>4, <2>5 DEF Covers, Own
<1>4. Syncs(v)'
  <2>1. job[v] = "sync" /\ v \notin aborted => item[v] \in Instances
    BY DEF Course
  <2>2. \A f \in Files : Unread(v, f) => Unread(v, f)'
    BY DEF Own, Unread
  <2> QED BY <2>1, <2>2 DEF Own, Syncs
<1> QED BY <1>1, <1>2, <1>3, <1>4

\* What a step of w means for another worker.
LEMMA OthersStay ==
    ASSUME Shape, NEW w \in Workers, WorkerStep(w), NEW v \in Workers, v # w
    PROVE  UNCHANGED <<Own(v), stable[v], kept[v]>>
<1> USE DEF Own, Shape, Goto, Leave, Take, Start, NextItem, envVars, workVars, traceVars
<1>1. ASSUME NEW i \in Instances, StartSync(w, i) PROVE UNCHANGED <<Own(v), stable[v], kept[v]>>
  BY <1>1 DEF StartSync
<1>2. ASSUME NEW j \in Jobs, StartSweep(w, j) PROVE UNCHANGED <<Own(v), stable[v], kept[v]>>
  BY <1>2 DEF StartSweep
<1>3. CASE StartHealth(w)
  BY <1>3 DEF StartHealth
<1>4. ASSUME NEW i \in Instances, Resolve(w, i) PROVE UNCHANGED <<Own(v), stable[v], kept[v]>>
  BY <1>4 DEF Resolve
<1>5. ASSUME NEW i \in Instances, CollectOne(w, i) PROVE UNCHANGED <<Own(v), stable[v], kept[v]>>
  BY <1>5 DEF CollectOne, Sample
<1>6. ASSUME NEW i \in Instances, ScanOne(w, i) PROVE UNCHANGED <<Own(v), stable[v], kept[v]>>
  BY <1>6 DEF ScanOne
<1>7. ASSUME NEW u \in Upstreams, CheckOne(w, u) PROVE UNCHANGED <<Own(v), stable[v], kept[v]>>
  BY <1>7 DEF CheckOne, Sample
<1>8. CASE ReadTail(w)
  BY <1>8 DEF ReadTail, AfterFile
<1>9. CASE TailFails(w)
  BY <1>9 DEF TailFails, AfterFile
<1>10. CASE Save(w)
  BY <1>10 DEF Save, AfterFile
<1>11. CASE SaveFails(w)
  BY <1>11 DEF SaveFails, AfterFile
<1>12. CASE Alert(w)
  BY <1>12 DEF Alert, Sample
<1> HIDE DEF Shape, Own
<1> QED BY <1>1, <1>2, <1>3, <1>4, <1>5, <1>6, <1>7, <1>8, <1>9, <1>10, <1>11, <1>12
        DEF WorkerStep

\* A row that is stored stays.
LEMMA StoredGrows ==
    ASSUME Contents, NEW w \in Workers, WorkerStep(w)
    PROVE  \A f \in Files : stored[f] \subseteq stored'[f]
<1>1. CASE Save(w)
  BY <1>1 DEF Save, Contents
<1>2. ASSUME WorkerStep(w), ~Save(w) PROVE UNCHANGED stored
  BY <1>2 DEF WorkerStep, StartSync, StartSweep, StartHealth, Start, Resolve, CollectOne,
              ScanOne, CheckOne, ReadTail, TailFails, SaveFails, Alert
<1> QED BY <1>1, <1>2

\* What is in sight leaves it when it is gone from the log (SetLog).
LEMMA InSightNext ==
    ASSUME Shape, \A v \in Workers : InSight(v), [Next]_vars
    PROVE  \A v \in Workers : InSight(v)'
<1> USE DEF InSight, Shape
<1>1. ASSUME NEW i \in Instances, NEW f \in Files, NEW s, SetLog(i, f, s)
      PROVE  \A v \in Workers : InSight(v)'
  <2> SUFFICES ASSUME NEW v \in Workers, NEW j \in Instances, NEW g \in Files \cup {"alert"}
               PROVE  kept'[v][j][g] \subseteq Found(log'[j], g)
    OBVIOUS
  <2>1. CASE j = i
    BY <1>1, <2>1 DEF SetLog
  <2>2. CASE j # i
    <3>1. kept'[v][j] = kept[v][j] /\ log'[j] = log[j]
      BY <1>1, <2>2 DEF SetLog
    <3> QED BY <3>1
  <2> QED BY <2>1, <2>2
<1>2. ASSUME NEW w \in Workers, NEW j, NEW looksAt, Start(w, j, looksAt)
      PROVE  \A v \in Workers : InSight(v)'
  <2> SUFFICES ASSUME NEW v \in Workers, NEW i \in Instances, NEW g \in Files \cup {"alert"}
               PROVE  kept'[v][i][g] \subseteq Found(log'[i], g)
    OBVIOUS
  <2>1. log' = log
    BY <1>2 DEF Start
  <2>2. CASE v = w
    <3>1. kept'[v][i][g] = IF <<i, g>> \in looksAt THEN Found(log[i], g) ELSE {}
      BY <1>2, <2>2 DEF Start
    <3> QED BY <2>1, <3>1
  <2>3. CASE v # w
    <3>1. kept'[v][i] = kept[v][i]
      BY <1>2, <2>3 DEF Start
    <3> QED BY <2>1, <3>1
  <2> QED BY <2>2, <2>3
<1>3. CASE UNCHANGED <<log, kept>>
  BY <1>3
<1> HIDE DEF InSight, Shape
<1>4. ASSUME NEW w \in Workers, WorkerStep(w)
      PROVE  UNCHANGED <<log, kept>> \/ \E j, looksAt : Start(w, j, looksAt)
  BY <1>4 DEF WorkerStep, StartSync, StartSweep, StartHealth, Resolve, CollectOne, ScanOne,
              CheckOne, ReadTail, TailFails, Save, SaveFails, Alert, envVars
<1> QED BY <1>1, <1>2, <1>3, <1>4 DEF Next, EnvironmentStep, Rotate, Write, Edit, vars, envVars

-----------------------------------------------------------------------------
(* The steps of a worker. *)

\* A step of a worker follows its course.
LEMMA CourseNext ==
    ASSUME Shape, NEW w \in Workers, Course(w), WorkerStep(w)
    PROVE  Course(w)'
<1> USE NamesAssumption
    DEF Course, Shape, Goto, Leave, Take, Start, NextItem, envVars, workVars, traceVars
<1>1. ASSUME NEW i \in Instances, StartSync(w, i) PROVE Course(w)'
  BY <1>1 DEF StartSync
<1>2. ASSUME NEW j \in Jobs \cap {"scan", "collect"}, StartSweep(w, j) PROVE Course(w)'
  BY <1>2 DEF StartSweep
<1>3. CASE StartHealth(w)
  BY <1>3 DEF StartHealth
<1>4. ASSUME NEW i \in Instances, Resolve(w, i) PROVE Course(w)'
  BY <1>4 DEF Resolve
<1>5. ASSUME NEW i \in Instances, CollectOne(w, i) PROVE Course(w)'
  BY <1>5 DEF CollectOne
<1>6. ASSUME NEW i \in Instances, ScanOne(w, i) PROVE Course(w)'
  BY <1>6 DEF ScanOne, Items
<1>7. ASSUME NEW u \in Upstreams, CheckOne(w, u) PROVE Course(w)'
  BY <1>7 DEF CheckOne
<1>8. CASE ReadTail(w)
  BY <1>8 DEF ReadTail, AfterFile
<1>9. CASE TailFails(w)
  BY <1>9 DEF TailFails, AfterFile
<1>10. CASE Save(w)
  BY <1>10 DEF Save, AfterFile
<1>11. CASE SaveFails(w)
  BY <1>11 DEF SaveFails, AfterFile
<1>12. CASE Alert(w)
  BY <1>12 DEF Alert
<1> HIDE DEF Shape, Course
<1> QED BY <1>1, <1>2, <1>3, <1>4, <1>5, <1>6, <1>7, <1>8, <1>9, <1>10, <1>11, <1>12
        DEF WorkerStep

\* The end of a log in a Sync.
LEMMA SyncGoesOn ==
    ASSUME Shape, NEW w \in Workers, job[w] = "sync", NEW found, AfterFile(w, found)
    PROVE  /\ file'[w] = "error" /\ item'[w] = item[w]
           /\ pc'[w] = IF file[w] = "access" THEN "tail" ELSE "done"
  BY DEF AfterFile, Goto, Shape

\* A step of a Sync drops no line in sight.
LEMMA SyncsNext ==
    ASSUME Shape, Contents, NEW w \in Workers, Course(w), InSight(w), Syncs(w), WorkerStep(w)
    PROVE  Syncs(w)'
<1>1. ASSUME NEW i \in Instances, StartSync(w, i) PROVE Syncs(w)'
  BY <1>1 DEF StartSync, Start, Goto, Syncs, Unread, Shape, Files
<1>2. ASSUME job'[w] # "sync" PROVE Syncs(w)'
  BY <1>2 DEF Syncs
<1>3. ASSUME NEW j \in Jobs \cap {"scan", "collect"}, StartSweep(w, j) PROVE Syncs(w)'
  BY <1>2, <1>3 DEF StartSweep, Start, Shape
<1>4. CASE StartHealth(w)
  BY <1>2, <1>4 DEF StartHealth, Start, Shape
<1>5. ASSUME NEW x, Resolve(w, x) \/ CollectOne(w, x) \/ ScanOne(w, x) \/ CheckOne(w, x)
      PROVE  Syncs(w)'
  <2>1. job' = job /\ job[w] # "sync"
    BY <1>5 DEF Resolve, CollectOne, ScanOne, CheckOne, Take, Course
  <2> QED BY <1>2, <2>1
<1>6. CASE Alert(w)
  <2>1. job' = job /\ job[w] # "sync"
    BY <1>6 DEF Alert, Course
  <2> QED BY <1>2, <2>1
<1>7. CASE TailFails(w) \/ SaveFails(w)
  <2>1. job' = job /\ (job[w] = "sync" => failed'[w] # {})
    <3>1. CASE TailFails(w)
      <4>1. job' = job /\ failed'[w] = failed[w] \cup {item[w]}
        BY <3>1 DEF TailFails, Shape
      <4> QED BY <4>1
    <3>2. CASE SaveFails(w)
      <4>1. job' = job /\ (job[w] = "sync" => failed'[w] = failed[w] \cup {item[w]})
        BY <3>2 DEF SaveFails, Shape
      <4> QED BY <4>1
    <3> QED BY <1>7, <3>1, <3>2
  <2> QED BY <2>1 DEF Syncs
<1>8. ASSUME ReadTail(w), job[w] = "sync" PROVE Syncs(w)'
  <2>1. /\ pc[w] = "tail" /\ item[w] \in Instances /\ file[w] \in Files
        /\ UNCHANGED <<kept, stored, failed, aborted, job>>
    BY <1>8 DEF ReadTail, Course, Shape, envVars, traceVars
  <2>2. kept[w][item[w]][file[w]] \subseteq ToSet(lines'[w])
    <3>1. lines'[w] = Records(file[w], TailLines(log[item[w]][file[w]]))
      BY <1>8 DEF ReadTail, Contents
    <3>2. Found(log[item[w]], file[w]) = ToSet(lines'[w])
      BY <2>1, <3>1 DEF Found, TailLines, Files
    <3> QED BY <2>1, <3>2 DEF InSight
  <2>3. \A f \in Files : f # file[w] => \/ file[w] = "access" /\ f = "error"
                                        \/ file[w] = "error" /\ f = "access"
    BY <2>1 DEF Files
  <2>4. CASE pc'[w] = "save" /\ UNCHANGED <<file, item>>
    BY <2>1, <2>2, <2>3, <2>4 DEF Syncs, Unread
  <2>5. CASE lines'[w] = <<>> /\ AfterFile(w, <<>>)
    <3>1. /\ file'[w] = "error" /\ item'[w] = item[w]
          /\ pc'[w] = IF file[w] = "access" THEN "tail" ELSE "done"
      BY <1>8, <2>5, SyncGoesOn
    <3>2. kept[w][item[w]][file[w]] = {}
      BY <2>2, <2>5 DEF ToSet
    <3> QED BY <2>1, <2>3, <3>1, <3>2 DEF Syncs, Unread
  <2>6. \/ pc'[w] = "save" /\ UNCHANGED <<file, item>>
        \/ lines'[w] = <<>> /\ AfterFile(w, <<>>)
    BY <1>8 DEF ReadTail, Goto, Shape
  <2> QED BY <2>4, <2>5, <2>6
<1>9. ASSUME Save(w), job[w] = "sync" PROVE Syncs(w)'
  <2>1. /\ pc[w] = "save" /\ item[w] \in Instances /\ file[w] \in Files
        /\ UNCHANGED <<kept, failed, aborted, job>>
        /\ stored' = [stored EXCEPT ![file[w]] = @ \cup {<<item[w], Head(lines[w])>>}]
    BY <1>9 DEF Save, Course, Shape, envVars, traceVars
  <2>2. \A l \in ToSet(lines[w]) : l = Head(lines[w]) \/ l \in ToSet(lines'[w])
    <3>1. lines[w] \in Seq(Lines) /\ lines[w] # <<>> /\ lines'[w] = Tail(lines[w])
      BY <1>9, <2>1 DEF Save, Course, Contents
    <3>2. /\ Len(lines[w]) \in Nat \ {0}
          /\ Len(lines'[w]) = Len(lines[w]) - 1
          /\ \A k \in 1..Len(lines'[w]) : lines'[w][k] = lines[w][k + 1]
          /\ Head(lines[w]) = lines[w][1]
      BY <3>1, EmptySeq, HeadTailProperties
    <3>3. DOMAIN lines[w] = 1..Len(lines[w]) /\ DOMAIN lines'[w] = 1..Len(lines'[w])
      BY <3>1, HeadTailProperties, LenProperties
    <3>4. ASSUME NEW k \in 1..Len(lines[w])
          PROVE  lines[w][k] = Head(lines[w]) \/ lines[w][k] \in ToSet(lines'[w])
      <4>1. CASE k = 1
        BY <3>2, <4>1
      <4>2. CASE k # 1
        <5>1. k - 1 \in 1..Len(lines'[w]) /\ (k - 1) + 1 = k
          BY <3>2, <4>2
        <5>2. lines'[w][k - 1] = lines[w][k]
          BY <3>2, <5>1
        <5> QED BY <3>3, <5>1, <5>2 DEF ToSet
      <4> QED BY <4>1, <4>2
    <3> QED BY <3>3, <3>4 DEF ToSet
  <2>3. \A f \in Files : /\ stored[f] \subseteq stored'[f]
                         /\ f = file[w] => <<item[w], Head(lines[w])>> \in stored'[f]
    BY <2>1 DEF Contents
  <2>4. \A f \in Files : f # file[w] => \/ file[w] = "access" /\ f = "error"
                                        \/ file[w] = "error" /\ f = "access"
    BY <2>1 DEF Files
  <2>5. CASE UNCHANGED <<pc, file, items, item>>
    BY <2>1, <2>2, <2>3, <2>5 DEF Syncs, Unread
  <2>6. CASE lines'[w] = <<>> /\ AfterFile(w, matches[w])
    <3>1. /\ file'[w] = "error" /\ item'[w] = item[w]
          /\ pc'[w] = IF file[w] = "access" THEN "tail" ELSE "done"
      BY <1>9, <2>6, SyncGoesOn
    <3>2. ToSet(lines'[w]) = {}
      BY <2>6 DEF ToSet
    <3> QED BY <2>1, <2>2, <2>3, <2>4, <3>1, <3>2 DEF Syncs, Unread
  <2> QED BY <1>9, <2>5, <2>6 DEF Save
<1>10. ASSUME ReadTail(w) \/ Save(w), job[w] # "sync" PROVE Syncs(w)'
  <2>1. job' = job
    BY <1>10 DEF ReadTail, Save
  <2> QED BY <1>2, <1>10, <2>1
<1> QED BY <1>1, <1>3, <1>4, <1>5, <1>6, <1>7, <1>8, <1>9, <1>10 DEF WorkerStep

\* The end of a log in a scan: its item goes on to the alert, or had no lines.
LEMMA ScanGoesOn ==
    ASSUME Shape, NEW w \in Workers, Course(w), job[w] = "scan",
           AfterFile(w, matches'[w]), item[w] \in Instances,
           UNCHANGED <<job, unresolved, sample, alert, notified, aborted, envVars>>,
           failed[w] \subseteq failed'[w],
           item[w] \in failed'[w] \/ kept[w][item[w]]["alert"] \subseteq ToSet(matches'[w]),
           NEW S \in SUBSET Instances,
           \A i \in S : ToCome(w, i) \/ Scanning(w, i) \/ Scanned(w, i)
    PROVE  /\ Holds(w)'
           /\ \A i \in S : ToCome(w, i)' \/ Scanning(w, i)' \/ Scanned(w, i)'
<1> USE DEF envVars
<1>0. Holds(w)'
  <2>1. \/ pc'[w] # "save" /\ pc'[w] # "alert"
        \/ pc'[w] = "alert" /\ item'[w] = item[w]
    BY AfterFileShape DEF AfterFile, Goto, Leave, NextItem, Shape
  <2> QED BY <2>1 DEF Holds
<1> SUFFICES ASSUME NEW i \in S, ToCome(w, i) \/ Scanning(w, i) \/ Scanned(w, i)
             PROVE  ToCome(w, i)' \/ Scanning(w, i)' \/ Scanned(w, i)'
  BY <1>0
<1>1. items' = items
  BY AfterFileShape
<1>2. ASSUME ToCome(w, i) PROVE ToCome(w, i)'
  BY <1>1, <1>2 DEF ToCome
<1>3. ASSUME Scanned(w, i) PROVE Scanned(w, i)'
  BY <1>3 DEF Scanned
<1>4. ASSUME Scanning(w, i) PROVE Scanning(w, i)' \/ Scanned(w, i)'
  <2>1. item[w] = i
    BY <1>4 DEF Scanning
  <2>2. CASE i \in failed'[w]
    BY <2>2 DEF Scanned
  <2>3. CASE i \notin failed'[w] /\ matches'[w] # <<>>
    <3>1. pc'[w] = "alert" /\ item'[w] = item[w]
      BY <2>3 DEF AfterFile, Goto, Shape
    <3> QED BY <2>1, <2>3, <3>1 DEF Scanning
  <2>4. CASE i \notin failed'[w] /\ matches'[w] = <<>>
    <3>1. kept'[w][i]["alert"] \subseteq ToSet(<<>>)
      BY <2>1, <2>4
    <3>2. ToSet(<<>>) = {}
      BY DEF ToSet
    <3> QED BY <3>1, <3>2 DEF Scanned
  <2> QED BY <2>2, <2>3, <2>4
<1> QED BY <1>2, <1>3, <1>4

\* A step of a worker leaves no item behind.
LEMMA CoversNext ==
    ASSUME Shape, NEW w \in Workers, Course(w), InSight(w), Holds(w), Covers(w), WorkerStep(w)
    PROVE  Holds(w)' /\ Covers(w)'
<1> USE NamesAssumption DEF Shape, Goto, Leave, Take, Start, NextItem, envVars, workVars, traceVars
<1>1. ASSUME NEW i \in Instances, StartSync(w, i) PROVE Holds(w)' /\ Covers(w)'
  BY <1>1 DEF StartSync, Covers, Holds
<1>2. ASSUME NEW j \in Jobs \cap {"scan", "collect"}, StartSweep(w, j) PROVE Holds(w)' /\ Covers(w)'
  <2>1. job'[w] = j /\ stable'[w] = Usable /\ pc'[w] = "resolve"
    BY <1>2 DEF StartSweep
  <2>2. {i \in Instances : state[i] \in {"enabled", "cut off"}} \subseteq unresolved'[w]
    BY <1>2 DEF StartSweep
  <2>3. \A i \in stable'[w] \cap Instances : ToCome(w, i)'
    BY <2>1, <2>2 DEF ToCome, Usable
  <2> QED BY <2>1, <2>3 DEF Covers, Holds
<1>3. CASE StartHealth(w)
  <2>1. job'[w] = "health" /\ stable'[w] = Usable /\ items'[w] = upstreams
    BY <1>3 DEF StartHealth
  <2>2. \A u \in stable'[w] \cap Upstreams : ToCome(w, u)'
    BY <2>1 DEF ToCome, Usable
  <2> QED BY <2>1, <2>2 DEF Covers, Holds
<1>4. ASSUME NEW i \in Instances, Resolve(w, i) PROVE Holds(w)' /\ Covers(w)'
  <2>1. CASE ~Resolvable(i)
    BY <1>4, <2>1 DEF Resolve, Covers, Holds
  <2>2. CASE Resolvable(i)
    <3>1. /\ unresolved'[w] \cup items'[w] = unresolved[w] \cup items[w]
          /\ pc[w] = "resolve" /\ pc'[w] \in {"resolve", "loop"}
      BY <1>4, <2>2 DEF Resolve
    <3>2. UNCHANGED <<job, stable, kept, sample, alert, notified, failed, faults, aborted>>
      BY <1>4, <2>2 DEF Resolve
    <3>3. \A x : (ToCome(w, x) => ToCome(w, x)') /\ ~Scanning(w, x)
      BY <3>1 DEF ToCome, Scanning
    <3>4. \A x : /\ Collected(w, x) => Collected(w, x)'
                 /\ Scanned(w, x) => Scanned(w, x)'
                 /\ Checked(w, x) => Checked(w, x)'
      BY <3>2 DEF Collected, Scanned, Checked
    <3> HIDE DEF Shape
    <3> QED BY <3>1, <3>2, <3>3, <3>4 DEF Covers, Holds
  <2> QED BY <2>1, <2>2
<1>5. ASSUME NEW i \in Instances, CollectOne(w, i) PROVE Holds(w)' /\ Covers(w)'
  <2>1. /\ job[w] = "collect" /\ items'[w] = items[w] \ {i}
        /\ UNCHANGED <<job, stable, unresolved, aborted>>
    BY <1>5 DEF CollectOne
  <2>2. \A x \in Instances : x # i =>
          /\ sample'[w][x] = sample[w][x] /\ faults' >= faults
          /\ x \in failed[w] => x \in failed'[w]
    BY <1>5 DEF CollectOne, Sample, Fault, Items
  <2>3. Collected(w, i)'
    BY <1>5 DEF CollectOne, Sample, Fault, Collected, Items
  <2>4. \A x \in Instances : x # i => /\ ToCome(w, x) => ToCome(w, x)'
                                      /\ Collected(w, x) => Collected(w, x)'
    <3>1. faults \in Nat /\ faults' \in Nat
      BY <1>5 DEF CollectOne, Sample, Fault
    <3> HIDE DEF Shape
    <3> QED BY <2>1, <2>2, <3>1 DEF ToCome, Collected
  <2> HIDE DEF Shape
  <2> QED BY <2>1, <2>3, <2>4 DEF Covers, Holds
<1>6. ASSUME NEW i \in Instances, ScanOne(w, i) PROVE Holds(w)' /\ Covers(w)'
  <2>1. /\ job[w] = "scan" /\ items'[w] = items[w] \ {i} /\ pc[w] = "loop"
        /\ UNCHANGED <<job, stable, kept, unresolved, aborted, sample, alert, notified, failed>>
        /\ pc'[w] = "tail" /\ item'[w] = i
    BY <1>6 DEF ScanOne
  <2>2. \A x \in Instances : /\ x # i /\ ToCome(w, x) => ToCome(w, x)'
                             /\ ~Scanning(w, x)
                             /\ Scanned(w, x) => Scanned(w, x)'
    BY <2>1 DEF ToCome, Scanning, Scanned
  <2>3. Scanning(w, i)'
    BY <2>1 DEF Scanning
  <2> HIDE DEF Shape
  <2> QED BY <2>1, <2>2, <2>3 DEF Covers, Holds
<1>7. ASSUME NEW u \in Upstreams, CheckOne(w, u) PROVE Holds(w)' /\ Covers(w)'
  <2>1. /\ job[w] = "health" /\ items'[w] = items[w] \ {u}
        /\ UNCHANGED <<job, stable, unresolved, aborted>>
    BY <1>7 DEF CheckOne
  <2>2. \A x \in Upstreams : x # u =>
          /\ sample'[w][x] = sample[w][x]
          /\ x \in failed[w] => x \in failed'[w]
          /\ x \in notified[w] => x \in notified'[w]
    BY <1>7 DEF CheckOne, Sample, Items
  <2>3. Checked(w, u)'
    BY <1>7 DEF CheckOne, Sample, Checked, Items
  <2>4. \A x \in Upstreams : x # u => /\ ToCome(w, x) => ToCome(w, x)'
                                      /\ Checked(w, x) => Checked(w, x)'
    BY <2>1, <2>2 DEF ToCome, Checked
  <2> HIDE DEF Shape
  <2> QED BY <2>1, <2>3, <2>4 DEF Covers, Holds
<1>8. ASSUME pc[w] \in {"tail", "save", "alert"}, UNCHANGED <<job, aborted>>, job[w] # "scan"
      PROVE  Holds(w)' /\ Covers(w)'
  BY <1>8 DEF Covers, Course, Holds
<1>9. CASE ReadTail(w)
  <2>1. /\ pc[w] = "tail"
        /\ UNCHANGED <<job, aborted, stored, unresolved, sample, alert, notified, failed, envVars>>
    BY <1>9 DEF ReadTail
  <2>2. CASE job[w] = "scan"
    <3>1. item[w] \in Instances /\ file[w] = "error" /\ w \notin aborted
      BY <2>1, <2>2 DEF Course
    <3>2. matches'[w] = Matching(TailLines(log[item[w]][file[w]])) /\ lines'[w] = matches'[w]
      BY <1>9, <2>2 DEF ReadTail
    <3>3. kept[w][item[w]]["alert"] \subseteq ToSet(matches'[w])
      BY <3>1, <3>2 DEF InSight, Found, TailLines
    <3>4. \/ pc'[w] = "save" /\ UNCHANGED <<items, item>>
          \/ AfterFile(w, matches'[w])
      BY <1>9, <2>2 DEF ReadTail
    <3>5. CASE pc'[w] = "save" /\ UNCHANGED <<items, item>>
      <4>1. \A x \in Instances : /\ ToCome(w, x) => ToCome(w, x)'
                                 /\ Scanning(w, x) => Scanning(w, x)'
                                 /\ Scanned(w, x) => Scanned(w, x)'
        BY <2>1, <3>3, <3>5 DEF ToCome, Scanning, Scanned
      <4>2. Holds(w)'
        BY <2>1, <3>3, <3>5 DEF Holds
      <4> HIDE DEF Shape
      <4> QED BY <2>1, <2>2, <4>1, <4>2 DEF Covers
    <3>6. CASE AfterFile(w, matches'[w])
      <4> HIDE DEF Shape, Goto, Leave, NextItem
      <4>1. /\ Holds(w)'
            /\ \A x \in stable[w] \cap Instances :
                  ToCome(w, x)' \/ Scanning(w, x)' \/ Scanned(w, x)'
        BY <2>1, <2>2, <3>1, <3>3, <3>6, ScanGoesOn DEF Covers
      <4> QED BY <2>1, <2>2, <4>1 DEF Covers
    <3> QED BY <3>4, <3>5, <3>6
  <2> QED BY <1>8, <2>1, <2>2
<1>10. CASE TailFails(w)
  <2>1. /\ pc[w] = "tail"
        /\ UNCHANGED <<job, aborted, stored, unresolved, sample, alert, notified, matches, envVars>>
        /\ failed'[w] = failed[w] \cup {item[w]} /\ AfterFile(w, matches[w])
    BY <1>10 DEF TailFails
  <2>2. CASE job[w] = "scan"
    <3>1. item[w] \in Instances /\ w \notin aborted
      BY <2>1, <2>2 DEF Course
    <3> HIDE DEF Shape, Goto, Leave, NextItem
    <3>2. /\ Holds(w)'
          /\ \A x \in stable[w] \cap Instances :
                ToCome(w, x)' \/ Scanning(w, x)' \/ Scanned(w, x)'
      BY <2>1, <2>2, <3>1, ScanGoesOn DEF Covers
    <3> QED BY <2>1, <2>2, <3>2 DEF Covers
  <2> QED BY <1>8, <2>1, <2>2
<1>11. CASE Save(w) \/ SaveFails(w)
  <2>1. /\ pc[w] = "save"
        /\ UNCHANGED <<job, aborted, unresolved, sample, alert, notified, matches, envVars>>
        /\ failed[w] \subseteq failed'[w]
        /\ UNCHANGED <<pc, file, items, item>> \/ AfterFile(w, matches[w])
    BY <1>11 DEF Save, SaveFails
  <2>2. CASE job[w] = "scan"
    <3>1. item[w] \in Instances /\ w \notin aborted
      BY <2>1, <2>2 DEF Course
    <3>2. CASE UNCHANGED <<pc, file, items, item>>
      <4>1. \A x \in Instances : /\ ToCome(w, x) => ToCome(w, x)'
                                 /\ Scanning(w, x) => Scanning(w, x)'
                                 /\ Scanned(w, x) => Scanned(w, x)'
        BY <2>1, <3>2 DEF ToCome, Scanning, Scanned
      <4>2. Holds(w)'
        BY <2>1, <3>2 DEF Holds
      <4> HIDE DEF Shape
      <4> QED BY <2>1, <2>2, <4>1, <4>2 DEF Covers
    <3>3. CASE AfterFile(w, matches[w])
      <4> HIDE DEF Shape, Goto, Leave, NextItem
      <4>1. item[w] \in failed'[w] \/ kept[w][item[w]]["alert"] \subseteq ToSet(matches'[w])
        BY <2>1, <2>2 DEF Holds
      <4>2. /\ Holds(w)'
            /\ \A x \in stable[w] \cap Instances :
                  ToCome(w, x)' \/ Scanning(w, x)' \/ Scanned(w, x)'
        BY <2>1, <2>2, <3>1, <3>3, <4>1, ScanGoesOn DEF Covers
      <4> QED BY <2>1, <2>2, <4>2 DEF Covers
    <3> QED BY <2>1, <3>2, <3>3
  <2> QED BY <1>8, <2>1, <2>2
<1>12. CASE Alert(w)
  <2>1. /\ pc[w] = "alert" /\ UNCHANGED <<job, aborted, unresolved, items, envVars>>
        /\ Sample(w, item[w], "warning", {})
        /\ alert' = [alert EXCEPT ![w] = [@ EXCEPT ![item[w]] = ToSet(matches[w])]]
        /\ notified'[w] = notified[w] \cup {item[w]}
    BY <1>12 DEF Alert
  <2>2. CASE job[w] = "scan"
    <3>1. w \notin aborted
      BY <2>1, <2>2 DEF Course, Items
    <3> PICK i \in Instances : i = item[w] /\ i \in Items
      BY <2>1, <2>2 DEF Course, Items
    <3>2. ASSUME NEW x \in Instances, x # i
          PROVE  /\ ~Scanning(w, x)
                 /\ Scanned(w, x) => Scanned(w, x)'
      <4>1. /\ sample'[w][x] = sample[w][x] /\ alert'[w][x] = alert[w][x]
            /\ failed[w] \subseteq failed'[w]
        BY <2>1, <3>2 DEF Sample, Items
      <4> QED BY <2>1, <3>2, <4>1 DEF Scanning, Scanned
    <3>3. Scanned(w, i)'
      <4>1. (sample'[w][i] = "warning" \/ i \in failed'[w]) /\ failed[w] \subseteq failed'[w]
        BY <2>1 DEF Sample
      <4>2. alert'[w][i] = ToSet(matches[w])
        BY <2>1
      <4> QED BY <2>1, <2>2, <4>1, <4>2 DEF Holds, Scanned
    <3>4. Holds(w)'
      BY <1>12 DEF Alert, Holds
    <3>5. \A x \in Instances : ToCome(w, x) => ToCome(w, x)'
      BY <2>1 DEF ToCome
    <3> HIDE DEF Shape
    <3> QED BY <2>1, <2>2, <3>2, <3>3, <3>4, <3>5 DEF Covers
  <2> QED BY <1>8, <2>1, <2>2
<1> HIDE DEF Shape, Course
<1> QED BY <1>1, <1>2, <1>3, <1>4, <1>5, <1>6, <1>7, <1>9, <1>10, <1>11, <1>12
        DEF WorkerStep

-----------------------------------------------------------------------------
(* What follows for every behaviour. *)

\* The invariant holds at the start.
LEMMA InitIInv == Init => IInv
<1> SUFFICES ASSUME Init PROVE IInv
  OBVIOUS
<1> USE NamesAssumption DEF Init, Items, Files
<1>1. Shape
  BY DEF Shape
<1>2. ASSUME NEW w \in Workers PROVE Course(w) /\ InSight(w) /\ Holds(w) /\ Covers(w) /\ Syncs(w)
  BY JobsAssumption DEF Course, InSight, Holds, Covers, Syncs
<1>3. Contents
  <2>1. <<>> \in Seq(Lines) /\ Len(<<>>) <= Limit /\ Len(<<>>) <= MaxMatches
    BY LimitAssumption
  <2>2. \A l \in Lines : <<l>> \in Seq(Lines)
    OBVIOUS
  <2>3. log \in [Instances -> [Files -> Seq(Lines)]]
    BY <2>2
  <2>4. lines \in [Workers -> Seq(Lines)] /\ matches \in [Workers -> Seq(Lines)]
    BY <2>1
  <2>5. \A w \in Workers : Len(lines[w]) <= Limit /\ Len(matches[w]) <= MaxMatches
    BY <2>1
  <2>6. kept \in [Workers -> [Instances -> [Files \cup {"alert"} -> SUBSET Lines]]]
    OBVIOUS
  <2>7. writes \in 0..MaxWrites /\ edits \in 0..MaxEdits /\ faults \in 0..MaxFaults
    BY BoundsAssumption
  <2> QED BY <2>3, <2>4, <2>5, <2>6, <2>7 DEF Contents
<1>4. Counted
  <2> SUFFICES ASSUME NEW f \in Files PROVE IsFiniteSet(stored[f]) /\ Inserted(f) = Cardinality(stored[f])
    BY DEF Counted
  <2>1. stored[f] = {}
    OBVIOUS
  <2> DEFINE zero == [w \in Workers |-> 0]
  <2>2. Inserted(f) = SumFunction(zero)
    <3>1. [w \in Workers |-> count[w][f]] = zero
      OBVIOUS
    <3> QED BY <3>1 DEF Inserted
  <2>3. SumFunction(zero) = 0
    BY SumZero, WorkersAssumption
  <2> QED BY <2>1, <2>2, <2>3, FS_EmptySet
<1> QED BY <1>1, <1>2, <1>3, <1>4 DEF IInv

\* Every step keeps the invariant.
LEMMA NextIInv == IInv /\ [Next]_vars => IInv'
<1> SUFFICES ASSUME IInv, [Next]_vars PROVE IInv'
  OBVIOUS
<1>1. /\ Shape /\ Shape' /\ Contents /\ Contents' /\ Counted'
      /\ \A w \in Workers : InSight(w)'
  BY ShapeNext, InSightNext, ContentsNext, CountedNext DEF IInv
<1>2. faults' \in Nat /\ faults' >= faults
  <2>1. CASE EnvironmentStep \/ UNCHANGED vars
    <3>1. UNCHANGED faults
      BY <2>1 DEF EnvironmentStep, Rotate, Write, SetLog, Edit, vars
    <3>2. faults \in Nat
      BY <1>1 DEF Shape
    <3> QED BY <3>1, <3>2
  <2>2. ASSUME NEW w \in Workers, WorkerStep(w) PROVE UNCHANGED faults \/ Fault
    <3>1. ASSUME NEW x, NEW status, NEW f, Sample(w, x, status, f) PROVE UNCHANGED faults \/ Fault
      BY <3>1 DEF Sample
    <3> QED BY <2>2, <3>1 DEF WorkerStep, StartSync, StartSweep, StartHealth, Start, Resolve,
            CollectOne, ScanOne, CheckOne, ReadTail, TailFails, Save, SaveFails, Alert
  <2> QED BY <1>1, <2>1, <2>2 DEF Next, Fault, Shape
<1>3. ASSUME NEW w \in Workers, WorkerStep(w), NEW v \in Workers
      PROVE  Course(v)' /\ Holds(v)' /\ Covers(v)' /\ Syncs(v)'
  <2>1. CASE v = w
    BY <1>3, <2>1, CourseNext, CoversNext, SyncsNext DEF IInv
  <2>2. CASE v # w
    BY <1>1, <1>2, <1>3, <2>2, OthersStay, StoredGrows, Kept DEF IInv
  <2> QED BY <2>1, <2>2
<1>4. ASSUME UNCHANGED <<workVars, traceVars>>, NEW v \in Workers, stable'[v] \subseteq stable[v],
             \A i \in Instances, f \in Files \cup {"alert"} : kept'[v][i][f] \subseteq kept[v][i][f],
             UNCHANGED stored
      PROVE  Course(v)' /\ Holds(v)' /\ Covers(v)' /\ Syncs(v)'
  <2>1. UNCHANGED Own(v)
    BY <1>4 DEF Own, workVars, traceVars
  <2> QED BY <1>1, <1>2, <1>4, <2>1, Kept DEF IInv
<1>5. ASSUME EnvironmentStep, NEW v \in Workers
      PROVE  Course(v)' /\ Holds(v)' /\ Covers(v)' /\ Syncs(v)'
  <2>1. CASE Edit
    BY <1>1, <1>4, <2>1 DEF Edit, Shape
  <2>2. ASSUME NEW i \in Instances, NEW f \in Files, NEW s, SetLog(i, f, s)
        PROVE  Course(v)' /\ Holds(v)' /\ Covers(v)' /\ Syncs(v)'
    <3>1. UNCHANGED <<workVars, traceVars, stable, stored>>
      BY <2>2 DEF SetLog
    <3>2. ASSUME NEW j \in Instances, NEW g \in Files \cup {"alert"}
          PROVE  kept'[v][j][g] \subseteq kept[v][j][g]
      BY <1>1, <2>2 DEF SetLog, Shape
    <3> QED BY <1>4, <3>1, <3>2
  <2> QED BY <1>5, <2>1, <2>2 DEF EnvironmentStep, Rotate, Write
<1>6. ASSUME UNCHANGED vars, NEW v \in Workers
      PROVE  Course(v)' /\ Holds(v)' /\ Covers(v)' /\ Syncs(v)'
  BY <1>4, <1>6 DEF vars, envVars
<1> QED BY <1>1, <1>3, <1>5, <1>6 DEF IInv, Next

\* IInv holds of every state that sweeps, logs and registry can reach.
THEOREM MonitoringInvariance == Spec => []IInv
  BY InitIInv, NextIInv, PTL DEF Spec

\* A sweep of ScanErrors, Collect or CollectHealth that gets to its items covers
\* all that were usable throughout, whatever the other workers, nginx, logrotate
\* and the registry do.
THEOREM SweepsCover == Spec => []SweepCovers
<1>1. IInv => SweepCovers
  <2> SUFFICES ASSUME IInv, NEW w \in Workers, pc[w] = "done", w \notin aborted
               PROVE  /\ job[w] = "collect" => \A i \in stable[w] \cap Instances :
                            /\ sample[w][i] = "none" => i \in failed[w] /\ faults > 0
                            /\ sample[w][i] = "failed" => i \in failed[w]
                      /\ job[w] = "scan" => \A i \in (stable[w] \cap Instances) \ failed[w] :
                            kept[w][i]["alert"] # {} =>
                               /\ sample[w][i] = "warning" /\ i \in notified[w]
                               /\ kept[w][i]["alert"] \subseteq alert[w][i]
                      /\ job[w] = "health" => \A u \in (stable[w] \cap Upstreams) \ failed[w] :
                            \/ sample[w][u] = "success"
                            \/ sample[w][u] = "failed" /\ u \in notified[w]
    BY DEF SweepCovers, Finished
  <2>1. job[w] # "sync" => \A x : ~ToCome(w, x)
    BY DEF IInv, Course, ToCome
  <2>2. \A i : ~Scanning(w, i)
    BY DEF Scanning
  <2> QED BY <2>1, <2>2 DEF IInv, Covers, Collected, Scanned, Checked
<1> QED BY <1>1, MonitoringInvariance, PTL

\* The types of the lines that are read, kept and stored, and the limits of a tail
\* and an alert.
THEOREM MonitoringTypes == Spec => []TypeOK
<1>1. IInv => TypeOK
  BY DEF IInv, Shape, Contents, TypeOK
<1> QED BY <1>1, MonitoringInvariance, PTL

\* Every row is counted once, whoever inserts it, and a Sync that answers without
\* error has stored the lines that were in sight all the time.
THEOREM SyncsComplete == Spec => []SyncComplete
<1>1. IInv => SyncComplete
  <2> SUFFICES ASSUME IInv PROVE SyncComplete
    OBVIOUS
  <2>1. \A f \in Files : Inserted(f) = Cardinality(stored[f])
    BY DEF IInv, Counted
  <2>2. ASSUME NEW w \in Workers, Finished(w, "sync"), failed[w] = {},
               NEW f \in Files, NEW l \in kept[w][item[w]][f]
        PROVE  <<item[w], l>> \in stored[f]
    <3>1. pc[w] = "done" /\ lines[w] = <<>> /\ job[w] = "sync" /\ w \notin aborted
      BY <2>2 DEF IInv, Course, Finished
    <3>2. ~Unread(w, f) /\ ToSet(lines[w]) = {}
      BY <3>1 DEF Unread, ToSet
    <3> QED BY <2>2, <3>1, <3>2 DEF IInv, Syncs
  <2> QED BY <2>1, <2>2 DEF SyncComplete
<1> QED BY <1>1, MonitoringInvariance, PTL
=============================================================================
