------------------------ MODULE NotificationHubProofs ------------------------
(* Proofs about NotificationHub, for any clients, sources, capacity, window and *)
(* number of faults, and any finite set of events.                             *)
EXTENDS NotificationHub, FiniteSetTheorems, SequenceTheorems, TLAPS

-----------------------------------------------------------------------------
(* The inductive invariant. *)

\* The broker knows the channels of the handlers that have not left.
Handlers ==
    /\ clients = {c \in Clients : ws[c] \in {"loop", "write", "cancel"}}
    /\ closed = {c \in Clients : ws[c] = "over"}
    /\ \A c \in Clients : ws[c] \in {"idle", "loop"} => payload[c] = <<>>

\* A broadcast is under way for those who were there when it began; nobody of them
\* has left unnoticed.
Broadcasts ==
    \A e \in Events :
        /\ toSend[e] \subseteq audience[e] /\ audience[e] \subseteq clients
        /\ toSend[e] # {} => pc[e] = "send"
        /\ pc[e] \in {"idle", "check", "create", "lock"} => audience[e] = {}

\* A row is there from Create on, and before the broadcast.
Rows ==
    \A e \in Events :
        /\ pc[e] \in {"idle", "check", "create"} => row[e] = "none"
        /\ pc[e] \in {"lock", "send"} \/ audience[e] # {} => row[e] # "none"
        /\ \A d \in earlier[e] : pc[d] = "done"

\* Who has found no duplicate is out of the window of all earlier unread rows.
Lookups ==
    \A d, e \in Events :
        /\ d \in earlier[e] /\ source[d] = source[e] /\ source[e] # NoSource
        /\ row[d] = "unread" /\ e \notin blind
        /\ pc[e] = "create" \/ row[e] # "none"
        => eventTime[e] > eventTime[d] + Window

\* What has been sent to a subscriber is in its stream or was dropped.
Sent(c) == {e \in Events : c \in audience[e] /\ c \notin toSend[e]}
Streams ==
    \A c \in Clients :
        /\ Sent(c) = Range(Stream(c)) \cup dropped[c]
        /\ Range(Stream(c)) \cap dropped[c] = {}

\* Each message once, in the order of calls that followed each other.
Order(s) ==
    \A i, j \in DOMAIN s :
        /\ s[i] = s[j] => i = j
        /\ s[i] \in earlier[s[j]] => i < j
Ordered == \A c \in Clients : Order(Stream(c))

\* A message was dropped because the channel was full of others.
Drops == \A c \in Clients : dropped[c] # {} => Cardinality(Offered(c)) > Capacity

IInv ==
    /\ TypeOK /\ Handlers /\ Broadcasts /\ Rows /\ Lookups
    /\ Streams /\ Ordered /\ Drops

-----------------------------------------------------------------------------
(* One lemma per part of the invariant. *)

\* Types are kept, and no channel takes more than it holds.
LEMMA TypeNext ==
    ASSUME TypeOK, [Next]_vars
    PROVE  TypeOK'
<1> USE CapacityAssumption, BoundAssumption DEF TypeOK, callVars, brokerVars, handlerVars, Goto, Turn
<1>1. ASSUME NEW e \in Events, NEW s \in Sources \cup {NoSource}, NEW t \in now..MaxTime, Notify(e, s, t)
      PROVE  TypeOK'
  BY <1>1 DEF Notify
<1>2. ASSUME NEW e \in Events, Lookup(e)
      PROVE  TypeOK'
  BY <1>2 DEF Lookup
<1>3. ASSUME NEW e \in Events, LookupFails(e)
      PROVE  TypeOK'
  BY <1>3 DEF LookupFails, Fault
<1>4. ASSUME NEW e \in Events, Create(e)
      PROVE  TypeOK'
  BY <1>4 DEF Create
<1>5. ASSUME NEW e \in Events, CreateFails(e)
      PROVE  TypeOK'
  BY <1>5 DEF CreateFails, Fault
<1>6. ASSUME NEW e \in Events, BeginBroadcast(e)
      PROVE  TypeOK'
  BY <1>6 DEF BeginBroadcast
<1>7. ASSUME NEW e \in Events, EndBroadcast(e)
      PROVE  TypeOK'
  BY <1>7 DEF EndBroadcast
<1>8. ASSUME NEW e \in Events, NEW c \in Clients, Send(e, c)
      PROVE  TypeOK'
  <2>1. ASSUME Len(queue[c]) < Capacity
        PROVE  queue' \in [Clients -> Seq(Events)] /\ \A b \in Clients : Len(queue'[b]) <= Capacity
    <3>1. queue' = [queue EXCEPT ![c] = Append(queue[c], e)]
      BY <1>8, <2>1 DEF Send
    <3>2. Append(queue[c], e) \in Seq(Events) /\ Len(Append(queue[c], e)) = Len(queue[c]) + 1
          /\ Len(queue[c]) \in Nat
      OBVIOUS
    <3>3. Len(queue[c]) + 1 <= Capacity
      BY <2>1, <3>2
    <3>4. queue' \in [Clients -> Seq(Events)]
      BY <3>1, <3>2
    <3>5. ASSUME NEW b \in Clients
          PROVE  Len(queue'[b]) <= Capacity
      <4>1. CASE b = c
        BY <3>1, <3>2, <3>3, <4>1
      <4>2. CASE b # c
        BY <3>1, <4>2
      <4> QED BY <4>1, <4>2
    <3> QED BY <3>4, <3>5
  <2>2. ASSUME Len(queue[c]) = Capacity
        PROVE  queue' = queue
    BY <1>8, <2>2 DEF Send
  <2>3. Len(queue[c]) < Capacity \/ Len(queue[c]) = Capacity
    BY <1>8 DEF Send
  <2>4. dropped' \in [Clients -> SUBSET Events]
    <3>1. CASE dropped' = dropped
      BY <3>1
    <3>2. CASE dropped' = [dropped EXCEPT ![c] = @ \cup {e}]
      BY <3>2
    <3> QED BY <1>8, <3>1, <3>2 DEF Send
  <2>5. queue' \in [Clients -> Seq(Events)] /\ \A b \in Clients : Len(queue'[b]) <= Capacity
    BY <2>1, <2>2, <2>3
  <2> QED BY <1>8, <2>4, <2>5 DEF Send
<1>9. ASSUME NEW c \in Clients, Subscribe(c)
      PROVE  TypeOK'
  BY <1>9 DEF Subscribe
<1>10. ASSUME NEW c \in Clients, Receive(c)
      PROVE  TypeOK'
  BY <1>10 DEF Receive
<1>11. ASSUME NEW c \in Clients, WriteFrame(c)
      PROVE  TypeOK'
  BY <1>11 DEF WriteFrame
<1>12. ASSUME NEW c \in Clients, WriteFails(c)
      PROVE  TypeOK'
  BY <1>12 DEF WriteFails
<1>13. ASSUME NEW c \in Clients, ContextDone(c)
      PROVE  TypeOK'
  BY <1>13 DEF ContextDone
<1>14. ASSUME NEW c \in Clients, Cancel(c)
      PROVE  TypeOK'
  BY <1>14 DEF Cancel, Forget
<1>15. ASSUME NEW es \in SUBSET Events, MarkRead(es)
      PROVE  TypeOK'
  BY <1>15 DEF MarkRead
<1>16. ASSUME UNCHANGED vars
      PROVE  TypeOK'
  BY <1>16 DEF vars
<1> HIDE CapacityAssumption, BoundAssumption DEF TypeOK, callVars, brokerVars, handlerVars, Goto, Turn
<1> QED
  BY <1>1, <1>2, <1>3, <1>4, <1>5, <1>6, <1>7, <1>8, <1>9, <1>10, <1>11, <1>12, <1>13, <1>14, <1>15, <1>16
     DEF Next, CallStep, HandlerStep, MarkOne, MarkAll

\* A handler takes its channel in and out under the write lock.
LEMMA HandlersNext ==
    ASSUME TypeOK, Handlers, [Next]_vars
    PROVE  Handlers'
<1> USE CapacityAssumption, BoundAssumption DEF TypeOK, Handlers, callVars, brokerVars, handlerVars, Goto, Turn
<1>1. ASSUME NEW e \in Events, NEW s \in Sources \cup {NoSource}, NEW t \in now..MaxTime, Notify(e, s, t)
      PROVE  Handlers'
  BY <1>1 DEF Notify
<1>2. ASSUME NEW e \in Events, Lookup(e)
      PROVE  Handlers'
  BY <1>2 DEF Lookup
<1>3. ASSUME NEW e \in Events, LookupFails(e)
      PROVE  Handlers'
  BY <1>3 DEF LookupFails, Fault
<1>4. ASSUME NEW e \in Events, Create(e)
      PROVE  Handlers'
  BY <1>4 DEF Create
<1>5. ASSUME NEW e \in Events, CreateFails(e)
      PROVE  Handlers'
  BY <1>5 DEF CreateFails, Fault
<1>6. ASSUME NEW e \in Events, BeginBroadcast(e)
      PROVE  Handlers'
  BY <1>6 DEF BeginBroadcast
<1>7. ASSUME NEW e \in Events, EndBroadcast(e)
      PROVE  Handlers'
  BY <1>7 DEF EndBroadcast
<1>8. ASSUME NEW e \in Events, NEW c \in Clients, Send(e, c)
      PROVE  Handlers'
  BY <1>8 DEF Send
<1>9. ASSUME NEW c \in Clients, Subscribe(c)
      PROVE  Handlers'
  BY <1>9 DEF Subscribe
<1>10. ASSUME NEW c \in Clients, Receive(c)
      PROVE  Handlers'
  BY <1>10 DEF Receive
<1>11. ASSUME NEW c \in Clients, WriteFrame(c)
      PROVE  Handlers'
  BY <1>11 DEF WriteFrame
<1>12. ASSUME NEW c \in Clients, WriteFails(c)
      PROVE  Handlers'
  BY <1>12 DEF WriteFails
<1>13. ASSUME NEW c \in Clients, ContextDone(c)
      PROVE  Handlers'
  BY <1>13 DEF ContextDone
<1>14. ASSUME NEW c \in Clients, Cancel(c)
      PROVE  Handlers'
  BY <1>14 DEF Cancel, Forget
<1>15. ASSUME NEW es \in SUBSET Events, MarkRead(es)
      PROVE  Handlers'
  BY <1>15 DEF MarkRead
<1>16. ASSUME UNCHANGED vars
      PROVE  Handlers'
  BY <1>16 DEF vars
<1> HIDE CapacityAssumption, BoundAssumption DEF TypeOK, Handlers, callVars, brokerVars, handlerVars, Goto, Turn
<1> QED
  BY <1>1, <1>2, <1>3, <1>4, <1>5, <1>6, <1>7, <1>8, <1>9, <1>10, <1>11, <1>12, <1>13, <1>14, <1>15, <1>16
     DEF Next, CallStep, HandlerStep, MarkOne, MarkAll

\* Nobody leaves while a broadcast is under way.
LEMMA BroadcastsNext ==
    ASSUME TypeOK, Handlers, Broadcasts, [Next]_vars
    PROVE  Broadcasts'
<1> USE CapacityAssumption, BoundAssumption DEF TypeOK, Handlers, Broadcasts, NoReader, callVars, brokerVars, handlerVars, Goto, Turn
<1>1. ASSUME NEW e \in Events, NEW s \in Sources \cup {NoSource}, NEW t \in now..MaxTime, Notify(e, s, t)
      PROVE  Broadcasts'
  BY <1>1 DEF Notify
<1>2. ASSUME NEW e \in Events, Lookup(e)
      PROVE  Broadcasts'
  BY <1>2 DEF Lookup
<1>3. ASSUME NEW e \in Events, LookupFails(e)
      PROVE  Broadcasts'
  BY <1>3 DEF LookupFails, Fault
<1>4. ASSUME NEW e \in Events, Create(e)
      PROVE  Broadcasts'
  BY <1>4 DEF Create
<1>5. ASSUME NEW e \in Events, CreateFails(e)
      PROVE  Broadcasts'
  BY <1>5 DEF CreateFails, Fault
<1>6. ASSUME NEW e \in Events, BeginBroadcast(e)
      PROVE  Broadcasts'
  BY <1>6 DEF BeginBroadcast
<1>7. ASSUME NEW e \in Events, EndBroadcast(e)
      PROVE  Broadcasts'
  BY <1>7 DEF EndBroadcast
<1>8. ASSUME NEW e \in Events, NEW c \in Clients, Send(e, c)
      PROVE  Broadcasts'
  BY <1>8 DEF Send
<1>9. ASSUME NEW c \in Clients, Subscribe(c)
      PROVE  Broadcasts'
  BY <1>9 DEF Subscribe
<1>10. ASSUME NEW c \in Clients, Receive(c)
      PROVE  Broadcasts'
  BY <1>10 DEF Receive
<1>11. ASSUME NEW c \in Clients, WriteFrame(c)
      PROVE  Broadcasts'
  BY <1>11 DEF WriteFrame
<1>12. ASSUME NEW c \in Clients, WriteFails(c)
      PROVE  Broadcasts'
  BY <1>12 DEF WriteFails
<1>13. ASSUME NEW c \in Clients, ContextDone(c)
      PROVE  Broadcasts'
  BY <1>13 DEF ContextDone
<1>14. ASSUME NEW c \in Clients, Cancel(c)
      PROVE  Broadcasts'
  BY <1>14 DEF Cancel, Forget
<1>15. ASSUME NEW es \in SUBSET Events, MarkRead(es)
      PROVE  Broadcasts'
  BY <1>15 DEF MarkRead
<1>16. ASSUME UNCHANGED vars
      PROVE  Broadcasts'
  BY <1>16 DEF vars
<1> HIDE CapacityAssumption, BoundAssumption DEF TypeOK, Handlers, Broadcasts, NoReader, callVars, brokerVars, handlerVars, Goto, Turn
<1> QED
  BY <1>1, <1>2, <1>3, <1>4, <1>5, <1>6, <1>7, <1>8, <1>9, <1>10, <1>11, <1>12, <1>13, <1>14, <1>15, <1>16
     DEF Next, CallStep, HandlerStep, MarkOne, MarkAll

\* A row is created before it is broadcast, and an earlier call stays ended.
LEMMA RowsNext ==
    ASSUME TypeOK, Broadcasts, Rows, [Next]_vars
    PROVE  Rows'
<1> USE CapacityAssumption, BoundAssumption DEF TypeOK, Broadcasts, Rows, Ended, callVars, brokerVars, handlerVars, Goto, Turn
<1>1. ASSUME NEW e \in Events, NEW s \in Sources \cup {NoSource}, NEW t \in now..MaxTime, Notify(e, s, t)
      PROVE  Rows'
  BY <1>1 DEF Notify
<1>2. ASSUME NEW e \in Events, Lookup(e)
      PROVE  Rows'
  BY <1>2 DEF Lookup
<1>3. ASSUME NEW e \in Events, LookupFails(e)
      PROVE  Rows'
  BY <1>3 DEF LookupFails, Fault
<1>4. ASSUME NEW e \in Events, Create(e)
      PROVE  Rows'
  BY <1>4 DEF Create
<1>5. ASSUME NEW e \in Events, CreateFails(e)
      PROVE  Rows'
  BY <1>5 DEF CreateFails, Fault
<1>6. ASSUME NEW e \in Events, BeginBroadcast(e)
      PROVE  Rows'
  BY <1>6 DEF BeginBroadcast
<1>7. ASSUME NEW e \in Events, EndBroadcast(e)
      PROVE  Rows'
  BY <1>7 DEF EndBroadcast
<1>8. ASSUME NEW e \in Events, NEW c \in Clients, Send(e, c)
      PROVE  Rows'
  BY <1>8 DEF Send
<1>9. ASSUME NEW c \in Clients, Subscribe(c)
      PROVE  Rows'
  BY <1>9 DEF Subscribe
<1>10. ASSUME NEW c \in Clients, Receive(c)
      PROVE  Rows'
  BY <1>10 DEF Receive
<1>11. ASSUME NEW c \in Clients, WriteFrame(c)
      PROVE  Rows'
  BY <1>11 DEF WriteFrame
<1>12. ASSUME NEW c \in Clients, WriteFails(c)
      PROVE  Rows'
  BY <1>12 DEF WriteFails
<1>13. ASSUME NEW c \in Clients, ContextDone(c)
      PROVE  Rows'
  BY <1>13 DEF ContextDone
<1>14. ASSUME NEW c \in Clients, Cancel(c)
      PROVE  Rows'
  BY <1>14 DEF Cancel, Forget
<1>15. ASSUME NEW es \in SUBSET Events, MarkRead(es)
      PROVE  Rows'
  BY <1>15 DEF MarkRead
<1>16. ASSUME UNCHANGED vars
      PROVE  Rows'
  BY <1>16 DEF vars
<1> HIDE CapacityAssumption, BoundAssumption DEF TypeOK, Broadcasts, Rows, Ended, callVars, brokerVars, handlerVars, Goto, Turn
<1> QED
  BY <1>1, <1>2, <1>3, <1>4, <1>5, <1>6, <1>7, <1>8, <1>9, <1>10, <1>11, <1>12, <1>13, <1>14, <1>15, <1>16
     DEF Next, CallStep, HandlerStep, MarkOne, MarkAll

\* An earlier row does not become unread again.
LEMMA LookupsNext ==
    ASSUME TypeOK, Rows, Lookups, [Next]_vars
    PROVE  Lookups'
<1> USE CapacityAssumption, BoundAssumption DEF TypeOK, Rows, Lookups, Ended, RecentDuplicate, callVars, brokerVars, handlerVars, Goto, Turn
<1>1. ASSUME NEW e \in Events, NEW s \in Sources \cup {NoSource}, NEW t \in now..MaxTime, Notify(e, s, t)
      PROVE  Lookups'
  BY <1>1 DEF Notify
<1>2. ASSUME NEW e \in Events, Lookup(e)
      PROVE  Lookups'
  BY <1>2 DEF Lookup
<1>3. ASSUME NEW e \in Events, LookupFails(e)
      PROVE  Lookups'
  BY <1>3 DEF LookupFails, Fault
<1>4. ASSUME NEW e \in Events, Create(e)
      PROVE  Lookups'
  BY <1>4 DEF Create
<1>5. ASSUME NEW e \in Events, CreateFails(e)
      PROVE  Lookups'
  BY <1>5 DEF CreateFails, Fault
<1>6. ASSUME NEW e \in Events, BeginBroadcast(e)
      PROVE  Lookups'
  BY <1>6 DEF BeginBroadcast
<1>7. ASSUME NEW e \in Events, EndBroadcast(e)
      PROVE  Lookups'
  BY <1>7 DEF EndBroadcast
<1>8. ASSUME NEW e \in Events, NEW c \in Clients, Send(e, c)
      PROVE  Lookups'
  BY <1>8 DEF Send
<1>9. ASSUME NEW c \in Clients, Subscribe(c)
      PROVE  Lookups'
  BY <1>9 DEF Subscribe
<1>10. ASSUME NEW c \in Clients, Receive(c)
      PROVE  Lookups'
  BY <1>10 DEF Receive
<1>11. ASSUME NEW c \in Clients, WriteFrame(c)
      PROVE  Lookups'
  BY <1>11 DEF WriteFrame
<1>12. ASSUME NEW c \in Clients, WriteFails(c)
      PROVE  Lookups'
  BY <1>12 DEF WriteFails
<1>13. ASSUME NEW c \in Clients, ContextDone(c)
      PROVE  Lookups'
  BY <1>13 DEF ContextDone
<1>14. ASSUME NEW c \in Clients, Cancel(c)
      PROVE  Lookups'
  BY <1>14 DEF Cancel, Forget
<1>15. ASSUME NEW es \in SUBSET Events, MarkRead(es)
      PROVE  Lookups'
  BY <1>15 DEF MarkRead
<1>16. ASSUME UNCHANGED vars
      PROVE  Lookups'
  BY <1>16 DEF vars
<1> HIDE CapacityAssumption, BoundAssumption DEF TypeOK, Rows, Lookups, Ended, RecentDuplicate, callVars, brokerVars, handlerVars, Goto, Turn
<1> QED
  BY <1>1, <1>2, <1>3, <1>4, <1>5, <1>6, <1>7, <1>8, <1>9, <1>10, <1>11, <1>12, <1>13, <1>14, <1>15, <1>16
     DEF Next, CallStep, HandlerStep, MarkOne, MarkAll

-----------------------------------------------------------------------------
(* The stream of a subscriber. *)

\* The stream of a subscriber is a sequence of messages.
LEMMA StreamType ==
    ASSUME TypeOK, NEW c \in Clients
    PROVE  Stream(c) \in Seq(Events)
BY DEF TypeOK, Stream

\* Concatenation may be regrouped.
LEMMA Associative ==
    ASSUME NEW s \in Seq(Events), NEW t \in Seq(Events), NEW u \in Seq(Events)
    PROVE  (s \o t) \o u = s \o (t \o u)
OBVIOUS

\* What is in the channel is at the end of the stream.
LEMMA QueueInStream ==
    ASSUME TypeOK, NEW c \in Clients, NEW i \in 1..Len(queue[c])
    PROVE  /\ Len(written[c] \o payload[c]) \in Nat
           /\ Len(written[c] \o payload[c]) + i \in DOMAIN Stream(c)
           /\ Stream(c)[Len(written[c] \o payload[c]) + i] = queue[c][i]
<1> DEFINE u == written[c] \o payload[c]
<1>1. u \in Seq(Events) /\ queue[c] \in Seq(Events)
  BY DEF TypeOK
<1>2. Len(u) \in Nat /\ Len(queue[c]) \in Nat
  BY <1>1, LenProperties
<1>3. /\ u \o queue[c] \in Seq(Events)
      /\ Len(u \o queue[c]) = Len(u) + Len(queue[c])
      /\ \A k \in 1..Len(u) + Len(queue[c]) :
            (u \o queue[c])[k] = IF k <= Len(u) THEN u[k] ELSE queue[c][k - Len(u)]
  BY <1>1, ConcatProperties
<1>4. Stream(c) = u \o queue[c]
  BY DEF Stream
<1> HIDE DEF u
<1>5. DOMAIN Stream(c) = 1..(Len(u) + Len(queue[c]))
  BY <1>3, <1>4, LenProperties
<1>6. Len(u) + i \in 1..(Len(u) + Len(queue[c])) /\ ~(Len(u) + i <= Len(u)) /\ (Len(u) + i) - Len(u) = i
  BY <1>2
<1> QED BY <1>2, <1>3, <1>4, <1>5, <1>6 DEF u

\* A handler moves messages along its stream.
LEMMA StreamMoves ==
    ASSUME TypeOK, Handlers, NEW c \in Clients, Receive(c) \/ WriteFrame(c), NEW b \in Clients
    PROVE  Stream(b)' = Stream(b)
<1>1. CASE Receive(c)
  <2>1. b # c => /\ queue'[b] = queue[b] /\ payload'[b] = payload[b]
                 /\ written'[b] = written[b]
    BY <1>1 DEF Receive, TypeOK
  <2>2. /\ queue[c] \in Seq(Events) /\ queue[c] # <<>> /\ written[c] \in Seq(Events)
        /\ queue'[c] = Tail(queue[c]) /\ payload'[c] = <<Head(queue[c])>>
        /\ payload[c] = <<>> /\ written'[c] = written[c]
    BY <1>1 DEF Receive, TypeOK, Handlers
  <2>3. /\ Head(queue[c]) \in Events /\ Tail(queue[c]) \in Seq(Events)
    BY <2>2, HeadTailProperties
  <2>4. <<Head(queue[c])>> \in Seq(Events)
    BY <2>3
  <2>5. <<Head(queue[c])>> \o Tail(queue[c]) = queue[c]
    <3>1. /\ Len(queue[c]) \in Nat \ {0}
          /\ Tail(queue[c]) = SubSeq(queue[c], 2, Len(queue[c]))
          /\ SubSeq(queue[c], 1, Len(queue[c])) = queue[c]
      BY <2>2, EmptySeq, TailIsSubSeq, SubSeqFull
    <3>2. SubSeq(queue[c], 1, Len(queue[c]))
            = <<queue[c][1]>> \o SubSeq(queue[c], 1 + 1, Len(queue[c]))
      BY <2>2, <3>1, SubSeqRecursiveFirst
    <3>3. Head(queue[c]) = queue[c][1]
      BY <2>2
    <3> QED BY <3>1, <3>2, <3>3
  <2>6. (written[c] \o <<Head(queue[c])>>) \o Tail(queue[c])
          = written[c] \o (<<Head(queue[c])>> \o Tail(queue[c]))
    BY <2>2, <2>3, <2>4, Associative, Zenon
  <2>7. written[c] \o <<>> = written[c]
    BY <2>2, ConcatEmptySeq
  <2> QED BY <2>1, <2>2, <2>5, <2>6, <2>7 DEF Stream
<1>2. CASE WriteFrame(c)
  <2>1. b # c => /\ queue'[b] = queue[b] /\ payload'[b] = payload[b]
                 /\ written'[b] = written[b]
    BY <1>2 DEF WriteFrame, TypeOK, brokerVars
  <2>2. /\ queue'[c] = queue[c] /\ payload'[c] = <<>>
        /\ written'[c] = written[c] \o payload[c]
    BY <1>2 DEF WriteFrame, TypeOK, brokerVars
  <2>3. (written[c] \o payload[c]) \o <<>> = written[c] \o payload[c]
    BY ConcatEmptySeq DEF TypeOK
  <2> QED BY <2>1, <2>2, <2>3 DEF Stream
<1> QED BY <1>1, <1>2

\* A message that finds a place is at the end of the stream.
LEMMA StreamGrows ==
    ASSUME TypeOK, NEW e \in Events, NEW c \in Clients, Send(e, c), NEW b \in Clients
    PROVE  \/ Stream(b)' = Stream(b)
              /\ (b = c => e \in dropped'[b] /\ Len(queue[b]) = Capacity)
           \/ b = c /\ Stream(b)' = Append(Stream(b), e) /\ dropped' = dropped
<1>1. CASE Len(queue[c]) < Capacity /\ b = c
  <2>1. /\ queue' = [queue EXCEPT ![c] = Append(@, e)] /\ dropped' = dropped
        /\ written' = written /\ payload' = payload
    BY <1>1, CapacityAssumption DEF Send, handlerVars
  <2>2. queue'[c] = Append(queue[c], e)
    BY <2>1 DEF TypeOK
  <2>3. /\ written[c] \o payload[c] \in Seq(Events)
        /\ queue[c] \in Seq(Events) /\ <<e>> \in Seq(Events)
    BY DEF TypeOK
  <2>4. ((written[c] \o payload[c]) \o queue[c]) \o <<e>>
          = (written[c] \o payload[c]) \o (queue[c] \o <<e>>)
    BY <2>3, Associative, Zenon
  <2>5. Append(queue[c], e) = queue[c] \o <<e>>
    BY <2>3, AppendIsConcat
  <2>6. Append(Stream(c), e) = Stream(c) \o <<e>>
    BY StreamType, AppendIsConcat
  <2> QED BY <1>1, <2>1, <2>2, <2>4, <2>5, <2>6 DEF Stream
<1>2. CASE ~(Len(queue[c]) < Capacity) /\ b = c
  <2>1. Len(queue[c]) = Capacity /\ queue' = queue /\ e \in dropped'[c]
    BY <1>2 DEF Send, TypeOK
  <2> QED BY <1>2, <2>1 DEF Send, Stream, handlerVars
<1>3. CASE b # c
  BY <1>3 DEF Send, Stream, handlerVars, TypeOK
<1> QED BY <1>1, <1>2, <1>3

\* A message at the end of a stream is added to it.
LEMMA RangeOfAppend ==
    ASSUME NEW s \in Seq(Events), NEW e \in Events
    PROVE  Range(Append(s, e)) = Range(s) \cup {e}
<1>1. /\ Len(s) \in Nat /\ DOMAIN s = 1..Len(s)
      /\ DOMAIN Append(s, e) = 1..(Len(s) + 1)
      /\ \A i \in 1..Len(s) : Append(s, e)[i] = s[i]
      /\ Append(s, e)[Len(s) + 1] = e
  OBVIOUS
<1>2. 1..(Len(s) + 1) = (1..Len(s)) \cup {Len(s) + 1}
  BY <1>1
<1> QED BY <1>1, <1>2 DEF Range

-----------------------------------------------------------------------------
(* What a step means to a subscriber. *)

Undisturbed(c) ==
    /\ Stream(c)' = Stream(c)
    /\ dropped'[c] = dropped[c]
    /\ Sent(c)' = Sent(c)
    /\ Offered(c) \subseteq Offered(c)'

Offer(c, e) ==
    /\ pc[e] = "send" /\ c \in toSend[e] /\ e \notin Sent(c)
    /\ Sent(c)' = Sent(c) \cup {e}
    /\ Offered(c)' = Offered(c) /\ e \in Offered(c)

Took(c, e) ==
    /\ Offer(c, e)
    /\ Stream(c)' = Append(Stream(c), e)
    /\ dropped'[c] = dropped[c]

Lost(c, e) ==
    /\ Offer(c, e)
    /\ Stream(c)' = Stream(c)
    /\ dropped'[c] = dropped[c] \cup {e} /\ Len(queue[c]) = Capacity

Forgotten(c) ==
    /\ Stream(c)' = <<>>
    /\ dropped'[c] = {}
    /\ Sent(c)' = {}

\* A step changes nothing for a subscriber, offers it one message, or ends it.
LEMMA SubscriberStep ==
    ASSUME TypeOK, Handlers, Broadcasts, [Next]_vars, NEW c \in Clients
    PROVE  \/ Undisturbed(c) \/ Forgotten(c)
           \/ \E e \in Events : Took(c, e) \/ Lost(c, e)
<1> DEFINE Goal == \/ Undisturbed(c) \/ Forgotten(c)
                   \/ \E e \in Events : Took(c, e) \/ Lost(c, e)
<1>1. ASSUME NEW e \in Events, NEW s \in Sources \cup {NoSource}, NEW t \in now..MaxTime, Notify(e, s, t)
      PROVE  Goal
  BY <1>1 DEF Notify, Undisturbed, Sent, Offered, Stream, callVars, brokerVars,
     handlerVars
<1>2. ASSUME NEW e \in Events, Lookup(e)
      PROVE  Goal
  BY <1>2 DEF Lookup, Undisturbed, Sent, Offered, Stream, callVars, brokerVars,
     handlerVars
<1>3. ASSUME NEW e \in Events, LookupFails(e)
      PROVE  Goal
  BY <1>3 DEF LookupFails, Fault, Undisturbed, Sent, Offered, Stream, callVars, brokerVars,
     handlerVars
<1>4. ASSUME NEW e \in Events, Create(e)
      PROVE  Goal
  BY <1>4 DEF Create, Undisturbed, Sent, Offered, Stream, callVars, brokerVars,
     handlerVars
<1>5. ASSUME NEW e \in Events, CreateFails(e)
      PROVE  Goal
  BY <1>5 DEF CreateFails, Fault, Undisturbed, Sent, Offered, Stream, callVars, brokerVars,
     handlerVars
<1>6. ASSUME NEW e \in Events, BeginBroadcast(e)
      PROVE  Goal
  BY <1>6 DEF BeginBroadcast, Undisturbed, Sent, Offered, Stream, callVars, brokerVars,
     handlerVars, TypeOK, Broadcasts
<1>7. ASSUME NEW e \in Events, EndBroadcast(e)
      PROVE  Goal
  BY <1>7 DEF EndBroadcast, Undisturbed, Sent, Offered, Stream, callVars, brokerVars,
     handlerVars
<1>8. ASSUME NEW e \in Events, NEW b \in Clients, Send(e, b)
      PROVE  Goal
  <2>1. audience' = audience /\ toSend' = [toSend EXCEPT ![e] = @ \ {b}]
    BY <1>8 DEF Send
  <2>2. pc[e] = "send" /\ b \in toSend[e] /\ b \in audience[e]
    BY <1>8 DEF Send, Broadcasts
  <2>3. Offered(c)' = Offered(c)
    BY <2>1 DEF Offered
  <2>4. CASE b # c
    <3>1. Sent(c)' = Sent(c)
      BY <2>1, <2>4 DEF Sent, TypeOK
    <3>2. dropped'[c] = dropped[c]
      BY <1>8, <2>4 DEF Send, TypeOK
    <3>3. Stream(c)' = Stream(c)
      BY <1>8, <2>4, StreamGrows
    <3> QED BY <2>3, <3>1, <3>2, <3>3 DEF Undisturbed
  <2>5. CASE b = c
    <3>1. Offer(c, e)
      BY <2>1, <2>2, <2>3, <2>5 DEF Offer, Sent, Offered, TypeOK
    <3>2. dropped'[c] \in {dropped[c], dropped[c] \cup {e}}
      <4>1. CASE dropped' = dropped
        BY <4>1
      <4>2. CASE dropped' = [dropped EXCEPT ![b] = @ \cup {e}]
        BY <2>5, <4>2 DEF TypeOK
      <4> QED BY <1>8, <4>1, <4>2 DEF Send
    <3>3. \/ Stream(c)' = Stream(c) /\ e \in dropped'[c] /\ Len(queue[c]) = Capacity
          \/ Stream(c)' = Append(Stream(c), e) /\ dropped' = dropped
      BY <1>8, <2>5, StreamGrows
    <3>4. e \in dropped'[c] => dropped'[c] = dropped[c] \cup {e}
      BY <3>2
    <3> QED BY <3>1, <3>3, <3>4 DEF Took, Lost
  <2> QED BY <2>4, <2>5
<1>9. ASSUME NEW b \in Clients, Subscribe(b)
      PROVE  Goal
  BY <1>9 DEF Subscribe, Undisturbed, Sent, Offered, Stream, callVars, brokerVars,
     handlerVars
<1>10. ASSUME NEW b \in Clients, Receive(b)
      PROVE  Goal
  <2>1. Stream(c)' = Stream(c)
    BY <1>10, StreamMoves
  <2> QED BY <1>10, <2>1 DEF Receive, Undisturbed, Sent, Offered, callVars, brokerVars
<1>11. ASSUME NEW b \in Clients, WriteFrame(b)
      PROVE  Goal
  <2>1. Stream(c)' = Stream(c)
    BY <1>11, StreamMoves
  <2> QED BY <1>11, <2>1 DEF WriteFrame, Undisturbed, Sent, Offered, callVars, brokerVars
<1>12. ASSUME NEW b \in Clients, WriteFails(b)
      PROVE  Goal
  BY <1>12 DEF WriteFails, Undisturbed, Sent, Offered, Stream, callVars, brokerVars,
     handlerVars
<1>13. ASSUME NEW b \in Clients, ContextDone(b)
      PROVE  Goal
  BY <1>13 DEF ContextDone, Undisturbed, Sent, Offered, Stream, callVars, brokerVars,
     handlerVars
<1>14. ASSUME NEW b \in Clients, Cancel(b)
      PROVE  Goal
  <2>1. CASE b = c
    BY <1>14, <2>1, ConcatEmptySeq DEF Cancel, Forget, Forgotten, Sent, Stream, TypeOK
  <2>2. CASE b # c
    BY <1>14, <2>2 DEF Cancel, Forget, Undisturbed, Sent, Offered, Stream, TypeOK
  <2> QED BY <2>1, <2>2
<1>15. ASSUME NEW es \in SUBSET Events, MarkRead(es)
      PROVE  Goal
  BY <1>15 DEF MarkRead, Undisturbed, Sent, Offered, Stream, callVars, brokerVars,
     handlerVars
<1>16. ASSUME UNCHANGED vars
      PROVE  Goal
  BY <1>16 DEF vars, Undisturbed, Sent, Offered, Stream, callVars, brokerVars,
     handlerVars
<1> HIDE DEF Goal
<1>17. Goal
  BY <1>1, <1>2, <1>3, <1>4, <1>5, <1>6, <1>7, <1>8, <1>9, <1>10, <1>11, <1>12, <1>13, <1>14, <1>15, <1>16
     DEF Next, CallStep, HandlerStep, MarkOne, MarkAll
<1> QED BY <1>17 DEF Goal

\* What has been sent stays in the stream or among the dropped.
LEMMA StreamsNext ==
    ASSUME TypeOK, Handlers, Broadcasts, Streams, [Next]_vars
    PROVE  Streams'
<1> SUFFICES ASSUME NEW c \in Clients
             PROVE  /\ Sent(c)' = Range(Stream(c)') \cup dropped'[c]
                    /\ Range(Stream(c)') \cap dropped'[c] = {}
  BY DEF Streams, Range
<1>1. /\ Sent(c) = Range(Stream(c)) \cup dropped[c]
      /\ Range(Stream(c)) \cap dropped[c] = {}
  BY DEF Streams
<1>2. CASE Undisturbed(c)
  BY <1>1, <1>2 DEF Undisturbed
<1>3. CASE Forgotten(c)
  <2>1. Range(<<>>) = {}
    BY DEF Range
  <2> QED BY <1>3, <2>1 DEF Forgotten
<1>4. ASSUME NEW e \in Events, Took(c, e)
      PROVE  /\ Sent(c)' = Range(Stream(c)') \cup dropped'[c]
             /\ Range(Stream(c)') \cap dropped'[c] = {}
  <2>1. Range(Append(Stream(c), e)) = Range(Stream(c)) \cup {e}
    BY StreamType, RangeOfAppend
  <2> QED BY <1>1, <1>4, <2>1 DEF Took, Offer
<1>5. ASSUME NEW e \in Events, Lost(c, e)
      PROVE  /\ Sent(c)' = Range(Stream(c)') \cup dropped'[c]
             /\ Range(Stream(c)') \cap dropped'[c] = {}
  BY <1>1, <1>5 DEF Lost, Offer
<1> QED BY <1>2, <1>3, <1>4, <1>5, SubscriberStep

\* A stream stays in order, without repetitions.
LEMMA OrderedNext ==
    ASSUME TypeOK, Handlers, Broadcasts, Rows, Streams, Ordered, [Next]_vars
    PROVE  Ordered'
<1>1. \A e \in Events : pc[e] # "idle" => earlier'[e] = earlier[e]
  BY DEF Next, vars, callVars, CallStep, HandlerStep, Notify, Lookup, LookupFails,
     Create, CreateFails, BeginBroadcast, Send, EndBroadcast, Subscribe, Receive,
     WriteFrame, WriteFails, ContextDone, Cancel, Forget, MarkOne, MarkAll, MarkRead,
     TypeOK
<1> SUFFICES ASSUME NEW c \in Clients
             PROVE  Order(Stream(c))'
  BY DEF Ordered
<1>2. PICK s : s = Stream(c)
  OBVIOUS
<1>3. /\ s \in Seq(Events) /\ Len(s) \in Nat /\ DOMAIN s = 1..Len(s)
      /\ \A i \in DOMAIN s : s[i] \in Events /\ s[i] \in Sent(c)
  BY <1>2, StreamType DEF Streams, Range
<1>4. \A i \in DOMAIN s : pc[s[i]] # "idle" /\ earlier'[s[i]] = earlier[s[i]]
  BY <1>1, <1>3 DEF Sent, Broadcasts
<1>5. \A i, j \in DOMAIN s : /\ s[i] = s[j] => i = j
                             /\ s[i] \in earlier[s[j]] => i < j
  BY <1>2 DEF Ordered, Order
<1>6. \A i, j \in DOMAIN s : /\ s[i] = s[j] => i = j
                             /\ s[i] \in earlier'[s[j]] => i < j
  <2> SUFFICES ASSUME NEW i \in DOMAIN s, NEW j \in DOMAIN s
               PROVE  /\ s[i] = s[j] => i = j
                      /\ s[i] \in earlier'[s[j]] => i < j
    OBVIOUS
  <2>1. earlier'[s[j]] = earlier[s[j]]
    BY <1>4
  <2> QED BY <1>5, <2>1
<1>7. CASE Stream(c)' = s
  BY <1>7, <1>6 DEF Order
<1>8. CASE Stream(c)' = <<>>
  BY <1>8 DEF Order
<1>9. ASSUME NEW e \in Events, Took(c, e)
      PROVE  Order(Stream(c))'
  <2> DEFINE n == Len(s)
             z == Append(s, e)
  <2>1. /\ DOMAIN z = 1..(n + 1) /\ z[n + 1] = e
        /\ \A i \in 1..n : z[i] = s[i]
    BY <1>3
  <2>2. \A i \in 1..n : s[i] # e /\ e \notin earlier[s[i]]
    BY <1>3, <1>9 DEF Took, Offer, Rows
  <2>3. Stream(c)' = z
    BY <1>2, <1>9 DEF Took
  <2>4. e \notin earlier'[e]
    BY <1>1, <1>9 DEF Took, Offer, Rows
  <2> HIDE DEF z
  <2>5. ASSUME NEW i \in 1..(n + 1), NEW j \in 1..(n + 1)
        PROVE  /\ z[i] = z[j] => i = j
               /\ z[i] \in earlier'[z[j]] => i < j
    <3>1. n \in Nat
      BY <1>3
    <3>2. CASE i \in 1..n /\ j \in 1..n
      BY <1>3, <1>6, <2>1, <3>2
    <3>3. CASE i \in 1..n /\ j = n + 1
      BY <2>1, <2>2, <3>1, <3>3
    <3>4. CASE i = n + 1 /\ j \in 1..n
      BY <1>3, <1>4, <2>1, <2>2, <3>4
    <3>5. CASE i = n + 1 /\ j = n + 1
      BY <2>1, <2>4, <3>5
    <3> QED BY <3>1, <3>2, <3>3, <3>4, <3>5
  <2> QED BY <2>1, <2>3, <2>5 DEF Order
<1>10. Stream(c)' = s \/ Stream(c)' = <<>> \/ \E e \in Events : Took(c, e)
  BY <1>2, SubscriberStep DEF Undisturbed, Forgotten, Lost
<1> QED BY <1>7, <1>8, <1>9, <1>10

\* A full channel holds as many different messages as it has places.
LEMMA FullChannel ==
    ASSUME TypeOK, Streams, Ordered, NEW c \in Clients, NEW e \in Events,
           Lost(c, e)
    PROVE  Cardinality(Offered(c)) > Capacity
<1> DEFINE others == Offered(c) \ {e}
           q == [i \in 1..Capacity |-> queue[c][i]]
           k == Len(written[c] \o payload[c])
<1>1. Len(queue[c]) = Capacity /\ e \in Offered(c) /\ e \notin Sent(c)
  BY DEF Lost, Offer
<1>2. \A i \in 1..Capacity : /\ k \in Nat /\ k + i \in DOMAIN Stream(c)
                             /\ queue[c][i] = Stream(c)[k + i]
  BY <1>1, QueueInStream
<1> HIDE DEF k
<1>3. \A i \in 1..Capacity : queue[c][i] \in others
  <2>1. \A i \in 1..Capacity : queue[c][i] \in Sent(c)
    BY <1>2 DEF Streams, Range
  <2> QED BY <1>1, <2>1 DEF Sent, Offered
<1>4. \A i, j \in 1..Capacity : queue[c][i] = queue[c][j] => i = j
  <2> SUFFICES ASSUME NEW i \in 1..Capacity, NEW j \in 1..Capacity,
                      queue[c][i] = queue[c][j]
               PROVE  i = j
    OBVIOUS
  <2>1. k + i = k + j
    BY <1>2 DEF Ordered, Order
  <2> QED BY <1>2, <2>1
<1>5. q \in Injection(1..Capacity, others)
  BY <1>3, <1>4 DEF Injection, IsInjective
<1>6. IsFiniteSet(Offered(c)) /\ IsFiniteSet(others)
  BY EventsAssumption, FS_Subset DEF Offered
<1>7. Cardinality(1..Capacity) <= Cardinality(others)
  BY <1>5, <1>6, FS_Injection
<1>8. Cardinality(1..Capacity) = Capacity
  BY CapacityAssumption, FS_Interval
<1>9. Cardinality(others) = Cardinality(Offered(c)) - 1
  BY <1>1, <1>6, FS_RemoveElement
<1>10. Cardinality(Offered(c)) \in Nat
  BY <1>6, FS_CardinalityType
<1> QED BY <1>7, <1>8, <1>9, <1>10, CapacityAssumption

\* A message is dropped only if more were offered than the channel holds.
LEMMA DropsNext ==
    ASSUME TypeOK, Handlers, Broadcasts, Streams, Ordered, Drops, [Next]_vars
    PROVE  Drops'
<1> SUFFICES ASSUME NEW c \in Clients, dropped'[c] # {}
             PROVE  Cardinality(Offered(c))' > Capacity
  BY DEF Drops
<1>1. IsFiniteSet(Offered(c)) /\ IsFiniteSet(Offered(c)')
  BY EventsAssumption, FS_Subset DEF Offered
<1>2. CASE Undisturbed(c)
  <2>1. Cardinality(Offered(c)) > Capacity /\ Offered(c) \subseteq Offered(c)'
    BY <1>2 DEF Undisturbed, Drops
  <2>2. Cardinality(Offered(c)) <= Cardinality(Offered(c)')
    BY <1>1, <2>1, FS_Subset
  <2>3. Cardinality(Offered(c)) \in Nat /\ Cardinality(Offered(c)') \in Nat
    BY <1>1, FS_CardinalityType
  <2> QED BY <2>1, <2>2, <2>3, CapacityAssumption
<1>3. CASE Forgotten(c)
  BY <1>3 DEF Forgotten
<1>4. ASSUME NEW e \in Events, Took(c, e)
      PROVE  Cardinality(Offered(c)') > Capacity
  BY <1>4 DEF Took, Offer, Drops
<1>5. ASSUME NEW e \in Events, Lost(c, e)
      PROVE  Cardinality(Offered(c)') > Capacity
  <2>1. Offered(c)' = Offered(c)
    BY <1>5 DEF Lost, Offer
  <2> QED BY <1>5, <2>1, FullChannel
<1> QED BY <1>2, <1>3, <1>4, <1>5, SubscriberStep

-----------------------------------------------------------------------------
(* The theorems. *)

\* The invariant holds at the start.
LEMMA InitIInv ==
    ASSUME Init
    PROVE  IInv
<1> USE CapacityAssumption, BoundAssumption DEF Init
<1>1. TypeOK
  BY DEF TypeOK
<1>2. Handlers /\ Broadcasts /\ Rows /\ Lookups
  BY DEF Handlers, Broadcasts, Rows, Lookups
<1>3. ASSUME NEW c \in Clients
      PROVE  Stream(c) = <<>> /\ dropped[c] = {} /\ Sent(c) = {}
  BY <1>1, ConcatEmptySeq DEF Stream, Sent
<1>4. Streams /\ Ordered /\ Drops
  BY <1>3 DEF Streams, Ordered, Order, Drops, Range
<1> QED BY <1>1, <1>2, <1>4 DEF IInv

\* The inductive invariant holds in every reachable state.
THEOREM HubInvariance == Spec => []IInv
<1>1. Init => IInv
  BY InitIInv
<1>2. IInv /\ [Next]_vars => IInv'
  BY TypeNext, HandlersNext, BroadcastsNext, RowsNext, LookupsNext, StreamsNext,
     OrderedNext, DropsNext DEF IInv
<1> QED BY <1>1, <1>2, PTL DEF Spec

\* No channel ever takes more messages than it has places, and all else keeps its
\* type.
THEOREM HubTyping == Spec => []TypeOK
<1>1. IInv => TypeOK
  BY DEF IInv
<1> QED BY <1>1, HubInvariance, PTL

\* A broadcast never sends on a closed channel, which would stop the center.
THEOREM SendsToOpenChannels == Spec => []NoSendOnClosed
<1>1. IInv => NoSendOnClosed
  BY DEF IInv, TypeOK, Handlers, Broadcasts, NoSendOnClosed
<1> QED BY <1>1, HubInvariance, PTL

\* Each subscriber gets what was broadcast while it was subscribed, once and in
\* order, unless more was broadcast than its channel holds.
THEOREM HubDelivers == Spec => []Delivery
<1>1. IInv => Delivery
  <2> SUFFICES ASSUME IInv, NEW c \in Clients
               PROVE  NothingMissed(c) /\ InOrder(c)
    BY DEF Delivery
  <2>1. /\ Sent(c) = Range(Stream(c)) \cup dropped[c]
        /\ Range(Stream(c)) \cap dropped[c] = {}
    BY DEF IInv, Streams
  <2>2. \A e \in Offered(c) : Ended(e) => e \in Sent(c)
    BY DEF IInv, Broadcasts, Offered, Ended, Sent
  <2>3. Cardinality(Offered(c)) <= Capacity => dropped[c] = {}
    <3>1. Cardinality(Offered(c)) \in Nat
      BY EventsAssumption, FS_Subset, FS_CardinalityType DEF Offered
    <3> QED BY <3>1, CapacityAssumption DEF IInv, Drops
  <2>4. \A e \in Sent(c) : e \in Offered(c) /\ row[e] # "none"
    BY DEF IInv, Rows, Sent, Offered
  <2>5. Order(Stream(c))
    BY DEF IInv, Ordered
  <2>6. NothingMissed(c)
    BY <2>1, <2>2, <2>3 DEF NothingMissed
  <2>7. InOrder(c)
    BY <2>1, <2>4, <2>5 DEF InOrder, Order
  <2> QED BY <2>6, <2>7
<1> QED BY <1>1, HubInvariance, PTL

\* Unread repetitions within the window come from overlapping calls.
THEOREM RepetitionsOverlap == Spec => []DuplicatesOverlapped
<1>1. IInv => DuplicatesOverlapped
  BY DEF IInv, Lookups, DuplicatesOverlapped
<1> QED BY <1>1, HubInvariance, PTL
=============================================================================
