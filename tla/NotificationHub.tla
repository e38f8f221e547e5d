--------------------------- MODULE NotificationHub ---------------------------
(***************************************************************************)
(* Notifications and their delivery to the open websockets.                *)
(*                                                                         *)
(* A service that has something to report looks for a recent unread        *)
(* notification of the same source, stores a new one if there is none, and *)
(* broadcasts it: under the read lock of the broker it offers the message  *)
(* to the channel of each subscriber in turn and drops it where the        *)
(* channel is full.  Each websocket has a handler that subscribes (under   *)
(* the write lock), moves messages from its channel to its connection, and *)
(* on its way out removes and closes the channel (under the write lock).   *)
(*                                                                         *)
(* The body of a section under the write lock is one step; it waits for    *)
(* the broadcasts in progress.  That a waiting writer holds off new        *)
(* readers is left out: it only removes behaviours.                        *)
(*                                                                         *)
(* services/event_notification_service.go, apis/event_api.go               *)
(***************************************************************************)
EXTENDS Naturals, FiniteSets, Sequences, Functions

CONSTANTS
    Events,     \* calls of CreateNotification; a row has its event's name
    Clients,    \* websocket connections
    Sources,    \* source and title of an event
    NoSource,   \* an event without a source guid
    Capacity,   \* places of a subscriber's channel
    Window,     \* how long an unread notification stands for its repetitions
    MaxTime,    \* bound on the clock
    MaxFaults   \* bound on failing statements

ASSUME EventsAssumption == IsFiniteSet(Events)
ASSUME SourceAssumption == NoSource \notin Sources
ASSUME CapacityAssumption == Capacity \in Nat \ {0}
ASSUME BoundAssumption == Window \in Nat /\ MaxTime \in Nat /\ MaxFaults \in Nat

VARIABLES
    now,
    \* the calls
    pc, source, eventTime, toSend,
    \* nginx_event_notifications: the column is_read of the row
    row,
    \* the broker: its set of channels, their contents, the closed ones
    clients, queue, closed,
    \* the websocket handlers, the message in hand
    ws, payload,
    \* history
    earlier,    \* the calls that had ended when this one began
    blind,      \* its lookup failed
    audience,   \* the subscribers when its broadcast began
    written,    \* the messages a handler has written
    dropped,    \* those that found its channel full
    faults

callVars    == <<pc, source, eventTime, toSend, earlier, blind, audience>>
brokerVars  == <<clients, queue, closed, dropped>>
handlerVars == <<ws, payload, written>>
vars == <<now, callVars, row, brokerVars, handlerVars, faults>>

\* The types; no channel holds more messages than it has places.
TypeOK ==
    /\ now \in 0..MaxTime
    /\ pc \in [Events -> {"idle", "check", "create", "lock", "send", "done"}]
    /\ source \in [Events -> Sources \cup {NoSource}]
    /\ eventTime \in [Events -> 0..MaxTime]
    /\ toSend \in [Events -> SUBSET Clients]
    /\ row \in [Events -> {"none", "unread", "read"}]
    /\ clients \in SUBSET Clients
    /\ queue \in [Clients -> Seq(Events)]
    /\ \A c \in Clients : Len(queue[c]) <= Capacity
    /\ closed \in SUBSET Clients
    /\ ws \in [Clients -> {"idle", "loop", "write", "cancel", "over"}]
    /\ payload \in [Clients -> Seq(Events)]
    /\ \A c \in Clients : Len(payload[c]) <= 1
    /\ earlier \in [Events -> SUBSET Events]
    /\ blind \in SUBSET Events
    /\ audience \in [Events -> SUBSET Clients]
    /\ written \in [Clients -> Seq(Events)]
    /\ dropped \in [Clients -> SUBSET Events]
    /\ faults \in 0..MaxFaults

Init ==
    /\ now = 0
    /\ pc = [e \in Events |-> "idle"]
    /\ source = [e \in Events |-> NoSource]
    /\ eventTime = [e \in Events |-> 0]
    /\ toSend = [e \in Events |-> {}]
    /\ row = [e \in Events |-> "none"]
    /\ clients = {}
    /\ queue = [c \in Clients |-> <<>>]
    /\ closed = {}
    /\ ws = [c \in Clients |-> "idle"]
    /\ payload = [c \in Clients |-> <<>>]
    /\ earlier = [e \in Events |-> {}]
    /\ blind = {}
    /\ audience = [e \in Events |-> {}]
    /\ written = [c \in Clients |-> <<>>]
    /\ dropped = [c \in Clients |-> {}]
    /\ faults = 0

Fault == faults < MaxFaults /\ faults' = faults + 1

Ended(e) == pc[e] = "done"
Goto(e, step) == pc' = [pc EXCEPT ![e] = step]
Turn(c, step) == ws' = [ws EXCEPT ![c] = step]

-----------------------------------------------------------------------------
(* CreateNotification. *)

\* The clock is only read here: it moves on to the time t of the call, which
\* nobody looks at if there is no source.
Notify(e, s, t) ==
    /\ pc[e] = "idle"
    /\ s = NoSource => t = now
    /\ Goto(e, "check")
    /\ now' = t
    /\ source' = [source EXCEPT ![e] = s]
    /\ eventTime' = [eventTime EXCEPT ![e] = IF s = NoSource THEN 0 ELSE t]
    /\ earlier' = [earlier EXCEPT ![e] = {d \in Events : Ended(d)}]
    /\ UNCHANGED <<toSend, blind, audience, row, brokerVars, handlerVars, faults>>

\* Mutant: the window is open at its old end.
OpenWindow(e) ==
    \E d \in Events :
        /\ source[e] # NoSource /\ source[d] = source[e]
        /\ row[d] = "unread"
        /\ eventTime[d] + Window > eventTime[e]

\* An unread notification of the same source that is young enough.
RecentDuplicate(e) ==
    \E d \in Events :
        /\ source[e] # NoSource /\ source[d] = source[e]
        /\ row[d] = "unread"
        /\ eventTime[d] + Window >= eventTime[e]

Lookup(e) ==
    /\ pc[e] = "check"
    /\ Goto(e, IF RecentDuplicate(e) THEN "done" ELSE "create")
    /\ UNCHANGED <<now, source, eventTime, toSend, earlier, blind, audience, row,
                   brokerVars, handlerVars, faults>>

\* An error of the query counts as no duplicate.
LookupFails(e) ==
    /\ pc[e] = "check" /\ source[e] # NoSource
    /\ Fault
    /\ Goto(e, "create")
    /\ blind' = blind \cup {e}
    /\ UNCHANGED <<now, source, eventTime, toSend, earlier, audience, row,
                   brokerVars, handlerVars>>

Create(e) ==
    /\ pc[e] = "create"
    /\ row' = [row EXCEPT ![e] = "unread"]
    /\ Goto(e, "lock")
    /\ UNCHANGED <<now, source, eventTime, toSend, earlier, blind, audience,
                   brokerVars, handlerVars, faults>>

\* The error is logged, and nothing is broadcast.
CreateFails(e) ==
    /\ pc[e] = "create"
    /\ Fault
    /\ Goto(e, "done")
    /\ UNCHANGED <<now, source, eventTime, toSend, earlier, blind, audience, row,
                   brokerVars, handlerVars>>

-----------------------------------------------------------------------------
(* Broadcast: the read lock, one channel after the other, the unlock. *)

BeginBroadcast(e) ==
    /\ pc[e] = "lock"
    /\ Goto(e, "send")
    /\ toSend' = [toSend EXCEPT ![e] = clients]
    /\ audience' = [audience EXCEPT ![e] = clients]
    /\ UNCHANGED <<now, source, eventTime, earlier, blind, row, brokerVars,
                   handlerVars, faults>>

\* Mutant: a full channel ends the loop instead of losing one message.
SendUntilFull(e, c) ==
    /\ pc[e] = "send" /\ c \in toSend[e]
    /\ IF Len(queue[c]) < Capacity
       THEN /\ queue' = [queue EXCEPT ![c] = Append(@, e)]
            /\ toSend' = [toSend EXCEPT ![e] = @ \ {c}]
            /\ UNCHANGED dropped
       ELSE /\ dropped' = [dropped EXCEPT ![c] = @ \cup {e}]
            /\ toSend' = [toSend EXCEPT ![e] = {}]
            /\ UNCHANGED queue
    /\ UNCHANGED <<now, pc, source, eventTime, earlier, blind, audience, row,
                   clients, closed, handlerVars, faults>>

\* Mutant: the send waits for a place.
SendBlocking(e, c) ==
    /\ pc[e] = "send" /\ c \in toSend[e]
    /\ Len(queue[c]) < Capacity
    /\ queue' = [queue EXCEPT ![c] = Append(@, e)]
    /\ toSend' = [toSend EXCEPT ![e] = @ \ {c}]
    /\ UNCHANGED <<now, pc, source, eventTime, earlier, blind, audience, row,
                   clients, closed, dropped, handlerVars, faults>>

\* Mutant: a channel takes one message more than it has places.
SendOneMore(e, c) ==
    /\ pc[e] = "send" /\ c \in toSend[e]
    /\ \/ /\ Len(queue[c]) <= Capacity
          /\ queue' = [queue EXCEPT ![c] = Append(@, e)]
          /\ UNCHANGED dropped
       \/ /\ Len(queue[c]) > Capacity
          /\ dropped' = [dropped EXCEPT ![c] = @ \cup {e}]
          /\ UNCHANGED queue
    /\ toSend' = [toSend EXCEPT ![e] = @ \ {c}]
    /\ UNCHANGED <<now, pc, source, eventTime, earlier, blind, audience, row,
                   clients, closed, handlerVars, faults>>

\* The send never waits: a message that finds the channel full is dropped.
Send(e, c) ==
    /\ pc[e] = "send" /\ c \in toSend[e]
    /\ \/ /\ Len(queue[c]) < Capacity
          /\ queue' = [queue EXCEPT ![c] = Append(@, e)]
          /\ UNCHANGED dropped
       \/ /\ Len(queue[c]) = Capacity
          /\ dropped' = [dropped EXCEPT ![c] = @ \cup {e}]
          /\ UNCHANGED queue
    /\ toSend' = [toSend EXCEPT ![e] = @ \ {c}]
    /\ UNCHANGED <<now, pc, source, eventTime, earlier, blind, audience, row,
                   clients, closed, handlerVars, faults>>

EndBroadcast(e) ==
    /\ pc[e] = "send" /\ toSend[e] = {}
    /\ Goto(e, "done")
    /\ UNCHANGED <<now, source, eventTime, toSend, earlier, blind, audience, row,
                   brokerVars, handlerVars, faults>>

-----------------------------------------------------------------------------
(* The websocket handlers. *)

\* The write lock is free of readers.
NoReader == \A e \in Events : pc[e] # "send"

\* The request is upgraded to a websocket and subscribes.
Subscribe(c) ==
    /\ ws[c] = "idle"
    /\ NoReader
    /\ clients' = clients \cup {c}
    /\ Turn(c, "loop")
    /\ UNCHANGED <<now, callVars, row, queue, closed, dropped, payload, written, faults>>

Receive(c) ==
    /\ ws[c] = "loop" /\ queue[c] # <<>>
    /\ payload' = [payload EXCEPT ![c] = <<Head(queue[c])>>]
    /\ queue' = [queue EXCEPT ![c] = Tail(@)]
    /\ Turn(c, "write")
    /\ UNCHANGED <<now, callVars, row, clients, closed, dropped, written, faults>>

\* The client may be gone: then this write may still succeed or fail.  A write to
\* a client that does not read may never return.
WriteFrame(c) ==
    /\ ws[c] = "write"
    /\ written' = [written EXCEPT ![c] = @ \o payload[c]]
    /\ payload' = [payload EXCEPT ![c] = <<>>]
    /\ Turn(c, "loop")
    /\ UNCHANGED <<now, callVars, row, brokerVars, faults>>

WriteFails(c) ==
    /\ ws[c] = "write"
    /\ Turn(c, "cancel")
    /\ UNCHANGED <<now, callVars, row, brokerVars, payload, written, faults>>

\* The client left; the context of a hijacked connection need not notice.
ContextDone(c) ==
    /\ ws[c] = "loop"
    /\ Turn(c, "cancel")
    /\ UNCHANGED <<now, callVars, row, brokerVars, payload, written, faults>>

\* The channel and the history of a handler that is over are of no use any more.
Forget(c) ==
    /\ queue' = [queue EXCEPT ![c] = <<>>]
    /\ payload' = [payload EXCEPT ![c] = <<>>]
    /\ written' = [written EXCEPT ![c] = <<>>]
    /\ dropped' = [dropped EXCEPT ![c] = {}]
    /\ audience' = [e \in Events |-> audience[e] \ {c}]

\* Mutant: the channel is closed without the lock.
CloseUnlocked(c) ==
    /\ ws[c] = "cancel"
    /\ clients' = clients \ {c}
    /\ closed' = closed \cup {c}
    /\ Turn(c, "over")
    /\ Forget(c)
    /\ UNCHANGED <<now, pc, source, eventTime, toSend, earlier, blind, row, faults>>

\* The deferred cancel.
Cancel(c) ==
    /\ ws[c] = "cancel"
    /\ NoReader
    /\ clients' = clients \ {c}
    /\ closed' = closed \cup {c}
    /\ Turn(c, "over")
    /\ Forget(c)
    /\ UNCHANGED <<now, pc, source, eventTime, toSend, earlier, blind, row, faults>>

-----------------------------------------------------------------------------
(* Readers of the list. *)

\* MarkRead by its guid, or MarkAllRead.
MarkRead(es) ==
    /\ \A e \in es : row[e] # "none"
    /\ row' = [e \in Events |-> IF e \in es THEN "read" ELSE row[e]]
    /\ UNCHANGED <<now, callVars, brokerVars, handlerVars, faults>>

MarkOne == \E e \in Events : row[e] # "none" /\ MarkRead({e})
MarkAll == MarkRead({e \in Events : row[e] = "unread"})

CallStep(e) ==
    \/ Lookup(e) \/ LookupFails(e) \/ Create(e) \/ CreateFails(e)
    \/ BeginBroadcast(e) \/ EndBroadcast(e)
    \/ \E c \in Clients : Send(e, c)

HandlerStep(c) ==
    \/ Subscribe(c) \/ Receive(c) \/ WriteFrame(c) \/ WriteFails(c)
    \/ ContextDone(c) \/ Cancel(c)

Next ==
    \/ \E e \in Events : CallStep(e)
    \/ \E e \in Events, s \in Sources \cup {NoSource}, t \in now..MaxTime : Notify(e, s, t)
    \/ \E c \in Clients : HandlerStep(c)
    \/ MarkOne \/ MarkAll

\* The goroutine of a call goes on, and so does a handler on its way out.
Fairness ==
    /\ \A e \in Events : WF_vars(CallStep(e))
    /\ \A c \in Clients : WF_vars(Cancel(c))

Spec == Init /\ [][Next]_vars /\ Fairness

-----------------------------------------------------------------------------
(* Properties. *)

\* While a broadcast walks over the channels, no handler closes one it has not
\* come to yet: a send on a closed channel would stop the center.
NoSendOnClosed == \A e \in Events : pc[e] = "send" => toSend[e] \cap closed = {}

\* What has reached a subscriber, in its order: written, in hand, waiting.
Stream(c) == written[c] \o payload[c] \o queue[c]

Offered(c) == {e \in Events : c \in audience[e]}

\* A subscriber gets each message that was broadcast while it was subscribed, or
\* its channel was full; that needs more messages than the channel has places.
NothingMissed(c) ==
    /\ \A e \in Offered(c) : Ended(e) => e \in Range(Stream(c)) \cup dropped[c]
    /\ Cardinality(Offered(c)) <= Capacity => dropped[c] = {}

\* It gets nothing else, nothing twice, and of two calls that followed each other
\* the messages in that order.
InOrder(c) ==
    /\ Range(Stream(c)) \subseteq {e \in Offered(c) : row[e] # "none"} \ dropped[c]
    /\ \A i, j \in DOMAIN Stream(c) :
          /\ Stream(c)[i] = Stream(c)[j] => i = j
          /\ Stream(c)[i] \in earlier[Stream(c)[j]] => i < j

\* Broadcast, the channels and the websocket loop together deliver to each
\* subscriber what it is promised, whatever the others do.
Delivery == \A c \in Clients : NothingMissed(c) /\ InOrder(c)

\* Two unread notifications of one source within the window come from calls that
\* overlapped, or from one whose lookup failed: recentDuplicate and Create are two
\* statements.
DuplicatesOverlapped ==
    \A d, e \in Events :
        /\ source[d] = source[e] /\ source[e] # NoSource
        /\ row[d] = "unread" /\ row[e] = "unread"
        /\ d \in earlier[e] /\ e \notin blind
        => eventTime[e] > eventTime[d] + Window

\* A call of a business service ends, and a handler gets out, even if no client
\* reads its connection any more.
HubNeverBlocks ==
    <>[](/\ \A e \in Events : pc[e] \in {"idle", "done"}
         /\ \A c \in Clients : ws[c] # "cancel")
=============================================================================
