------------------------------- MODULE AgentBus -------------------------------
(***************************************************************************)
(* MessageBus of the Agent Communication Bus (agent_comm_bus/bus.py) over  *)
(* NATS JetStream: publish, request, subscribe and close as calls that     *)
(* overlap, and the callback of a subscription, which the NATS client runs *)
(* for one message after another.                                          *)
(*                                                                         *)
(* All subscriptions are to the subjects the stream takes, ARCHITECT.*.    *)
(* The stream takes a request to such a subject too, and answers it itself *)
(* when no agent is quicker; its answer is no AgentMessage.                *)
(*                                                                         *)
(*   connection  down -> up -> closing -> down                             *)
(*   call        idle -> publishing | asking -> idle                       *)
(*   listener    none -> subscribing -> idle -> [handling -> acking ->]    *)
(*               idle                                                      *)
(***************************************************************************)
EXTENDS Integers, Sequences, SequencesExt, FiniteSets

CONSTANTS
    BusCalls,        \* concurrent calls of publish and request
    Listeners,       \* concurrent calls of subscribe, with the subscription each yields
    QueueGroup,      \* those of them that name a queue_group, all the same
    MessageTypes,
    MaxAckPending,   \* JetStream sends nothing new to a consumer with so many unacknowledged
    MaxBusMessages,  \* bound: messages in the stream
    MaxBusFaults,    \* bound: lost answers, failed handlers, late redeliveries
    MaxAsked,        \* bound: requests answered
    MaxConnects      \* bound: calls of connect

ASSUME GroupAssumption == QueueGroup \subseteq Listeners

VARIABLES
    connection,     \* down, up or closing
    stream,         \* JetStream: messages stored, [type, valid]
    busStats,       \* _stats_data
    subscriptions,  \* _subscriptions
    busCall,        \* call -> [at, type]
    listener,       \* listener -> [at, queue, message]
    sent,           \* JetStream: consumer -> messages sent to it at least once
    acks,           \* JetStream: consumer -> messages it has acknowledged
    returned,       \* history: consumer -> messages a handler of it returned from
    unsure,         \* history: messages stored whose sender got no answer
    rpcs,           \* history: messages stored that are requests
    replied,        \* history: requests that were answered and are not in the stream
    busFaults, connects

callerState == <<busCall, unsure, rpcs, replied>>
consumerState == <<sent, acks, returned>>
listenerState == <<listener, consumerState>>
busVars == <<connection, stream, busStats, subscriptions, callerState, listenerState, busFaults, connects>>

Silent == [at |-> "none", queue |-> <<>>, message |-> 0]
NoCall == [at |-> "idle"]

\* _nc is open and _js is set.
BusOpen == connection = "up"

\* The consumer of a subscription, as the set of the subscriptions that share it.
Consumer(l) == IF l \in QueueGroup THEN QueueGroup ELSE {l}
Consumers == {Consumer(l) : l \in Listeners}

-----------------------------------------------------------------------------
\* By the time anybody connects again, the calls of the old connection have raised.
Connect ==
    /\ connection = "down" /\ connects < MaxConnects
    /\ \A c \in BusCalls : busCall[c].at = "idle"
    /\ connection' = "up"
    /\ connects' = connects + 1
    /\ UNCHANGED <<stream, busStats, subscriptions, callerState, listenerState, busFaults>>

\* A client cannot publish or ask before connect; that call is not modelled further.
BeginPublish(c, type) ==
    /\ connection # "down" /\ busCall[c].at = "idle"
    /\ busCall' = [busCall EXCEPT ![c] = [at |-> "publishing", type |-> type]]
    /\ UNCHANGED <<connection, stream, busStats, subscriptions, unsure, rpcs, replied, listenerState, busFaults, connects>>

\* JetStream stores a message; other programs publish to the subject too, not always an
\* AgentMessage.
Stored(type, valid) == stream' = Append(stream, [type |-> type, valid |-> valid])

StrangerPublishes ==
    /\ Len(stream) < MaxBusMessages
    /\ \E type \in MessageTypes : Stored(type, FALSE)
    /\ UNCHANGED <<connection, busStats, subscriptions, callerState, listenerState, busFaults, connects>>

\* Fault: the message is counted although no answer came.
CountedAlways(type, answered) ==
    busStats' = [busStats EXCEPT !.published = @ + 1, !.byType[type] = @ + 1]
\* The counters change after the await, so only for a message that was acknowledged.
Counted(type, answered) ==
    busStats' = IF answered THEN [busStats EXCEPT !.published = @ + 1, !.byType[type] = @ + 1] ELSE busStats

\* js.publish returns or raises; raising, it may have stored the message all the same.
PublishReturns(c, stored, answered) ==
    /\ busCall[c].at = "publishing"
    /\ answered => stored /\ connection # "down"
    /\ stored => Len(stream) < MaxBusMessages
    /\ ~answered /\ BusOpen => busFaults < MaxBusFaults
    /\ busFaults' = IF ~answered /\ BusOpen THEN busFaults + 1 ELSE busFaults
    /\ IF stored THEN Stored(busCall[c].type, TRUE) ELSE UNCHANGED stream
    /\ Counted(busCall[c].type, answered)
    /\ unsure' = IF stored /\ ~answered THEN unsure \cup {Len(stream) + 1} ELSE unsure
    /\ busCall' = [busCall EXCEPT ![c] = NoCall]
    /\ UNCHANGED <<connection, subscriptions, rpcs, replied, listenerState, connects>>

BeginRequest(c, type) ==
    /\ connection # "down" /\ busCall[c].at = "idle" /\ replied + Cardinality(rpcs) < MaxAsked
    /\ busCall' = [busCall EXCEPT ![c] = [at |-> "asking", type |-> type]]
    /\ UNCHANGED <<connection, stream, busStats, subscriptions, unsure, rpcs, replied, listenerState, busFaults, connects>>

\* Fault: a request is counted under its type as a publication is.
AnswerCountedByType(type, reply) ==
    busStats' = IF reply = "timeout" THEN busStats
                ELSE [busStats EXCEPT !.published = @ + 1, !.byType[type] = @ + 1,
                                      !.received = IF reply = "valid" THEN @ + 1 ELSE @]
\* A reply that is no AgentMessage raises after the request was counted and before the reply
\* is; a timeout raises MessageTimeoutError before either.
AnswerCounted(type, reply) ==
    busStats' = IF reply = "timeout" THEN busStats
                ELSE [busStats EXCEPT !.published = @ + 1, !.received = IF reply = "valid" THEN @ + 1 ELSE @]

\* nc.request returns or raises; the message is in the stream if its subject is one of the
\* stream's and the server had it.
RequestReturns(c, stored, reply) ==
    LET answered == reply # "timeout" IN
    /\ busCall[c].at = "asking"
    /\ answered => connection # "down"
    /\ stored => Len(stream) < MaxBusMessages
    /\ IF stored THEN Stored(busCall[c].type, TRUE) ELSE UNCHANGED stream
    /\ AnswerCounted(busCall[c].type, reply)
    /\ rpcs' = IF stored THEN rpcs \cup {Len(stream) + 1} ELSE rpcs
    /\ unsure' = IF stored /\ ~answered THEN unsure \cup {Len(stream) + 1} ELSE unsure
    /\ replied' = IF answered /\ ~stored THEN replied + 1 ELSE replied
    /\ busCall' = [busCall EXCEPT ![c] = NoCall]
    /\ UNCHANGED <<connection, subscriptions, listenerState, busFaults, connects>>

-----------------------------------------------------------------------------
BeginSubscribe(l) ==
    /\ connection # "down" /\ listener[l].at = "none" /\ l \notin subscriptions
    /\ listener' = [listener EXCEPT ![l] = [Silent EXCEPT !.at = "subscribing"]]
    /\ UNCHANGED <<connection, stream, busStats, subscriptions, callerState, consumerState, busFaults, connects>>

\* js.subscribe returns: a new consumer, which starts with the first message, or for a queue
\* group its durable consumer, which goes on where it is.  While the bus closes this may come too
\* late for the loop that unsubscribes.
SubscribeReturns(l) ==
    LET fresh(old) == IF l \in QueueGroup THEN old ELSE [old EXCEPT ![Consumer(l)] = {}] IN
    /\ listener[l].at = "subscribing" /\ connection # "down"
    /\ listener' = [listener EXCEPT ![l].at = "idle"]
    /\ subscriptions' = subscriptions \cup {l}
    /\ busStats' = [busStats EXCEPT !.active = Cardinality(subscriptions')]
    /\ sent' = fresh(sent) /\ acks' = fresh(acks) /\ returned' = fresh(returned)
    /\ UNCHANGED <<connection, stream, callerState, busFaults, connects>>

SubscribeFails(l) ==
    /\ listener[l].at = "subscribing" /\ connection = "closing"
    /\ listener' = [listener EXCEPT ![l] = Silent]
    /\ UNCHANGED <<connection, stream, busStats, subscriptions, callerState, consumerState, busFaults, connects>>

\* The client has a subscription whose messages go to the callback.
Listening(l) == BusOpen /\ listener[l].at \notin {"none", "subscribing"}

\* How many messages a consumer has that were sent and not acknowledged.
Outstanding(consumer) == Cardinality(sent[consumer] \ acks[consumer])

\* JetStream sends a message that is not acknowledged to one subscription of a consumer: the next
\* for the first time, if not too many are outstanding, or any again when the time to acknowledge
\* it is over, be it at work with a callback or not.
JetStreamSends(l, i) ==
    LET consumer == Consumer(l)
        working == \E m \in consumer : listener[m].message = i
    IN
    /\ Listening(l)
    /\ i \in DOMAIN stream /\ i \notin acks[consumer]
    /\ \A m \in consumer : i \notin Range(listener[m].queue)
    /\ i \in sent[consumer] \/ (1 .. (i - 1) \subseteq sent[consumer] /\ Outstanding(consumer) < MaxAckPending)
    /\ working => busFaults < MaxBusFaults
    /\ busFaults' = IF working THEN busFaults + 1 ELSE busFaults
    /\ sent' = [sent EXCEPT ![consumer] = @ \cup {i}]
    /\ listener' = [listener EXCEPT ![l].queue = Append(@, i)]
    /\ UNCHANGED <<connection, stream, busStats, subscriptions, callerState, acks, returned, connects>>

\* Fault: a message that cannot be read is tried again before any other.
AfterUnreadableAtOnce(queue) == queue
\* The exception of model_validate_json ends the callback: the message stays unacknowledged and
\* the client goes on with the next.
AfterUnreadable(queue) == Tail(queue)

Callback(l) ==
    LET i == Head(listener[l].queue) IN
    /\ listener[l].at = "idle" /\ listener[l].queue # <<>>
    /\ IF stream[i].valid
       THEN /\ busStats' = [busStats EXCEPT !.received = @ + 1]
            /\ listener' = [listener EXCEPT ![l] = [at |-> "handling", queue |-> Tail(@.queue), message |-> i]]
       ELSE /\ listener' = [listener EXCEPT ![l].queue = AfterUnreadable(@)]
            /\ UNCHANGED busStats
    /\ UNCHANGED <<connection, stream, subscriptions, callerState, consumerState, busFaults, connects>>

HandlerReturns(l) ==
    /\ listener[l].at = "handling"
    /\ listener' = [listener EXCEPT ![l].at = "acking"]
    /\ returned' = [returned EXCEPT ![Consumer(l)] = @ \cup {listener[l].message}]
    /\ UNCHANGED <<connection, stream, busStats, subscriptions, callerState, sent, acks, busFaults, connects>>

\* Fault: the message is acknowledged whatever becomes of it.
AcksAfterFailureToo(l) == acks' = [acks EXCEPT ![Consumer(l)] = @ \cup {listener[l].message}]
\* handler raises: the callback ends before the acknowledgement.
AcksAfterFailure(l) == UNCHANGED acks

HandlerRaises(l) ==
    /\ listener[l].at = "handling" /\ busFaults < MaxBusFaults
    /\ busFaults' = busFaults + 1
    /\ listener' = [listener EXCEPT ![l].at = "idle", ![l].message = 0]
    /\ AcksAfterFailure(l)
    /\ UNCHANGED <<connection, stream, busStats, subscriptions, callerState, sent, returned, connects>>

Acks(l) ==
    /\ listener[l].at = "acking"
    /\ listener' = [listener EXCEPT ![l].at = "idle", ![l].message = 0]
    /\ acks' = [acks EXCEPT ![Consumer(l)] = @ \cup {listener[l].message}]
    /\ UNCHANGED <<connection, stream, busStats, subscriptions, callerState, sent, returned, busFaults, connects>>

-----------------------------------------------------------------------------
\* Fault: the number of subscriptions is left as it was.
NoneActiveForgotten == busStats' = busStats
NoneActive == busStats' = [busStats EXCEPT !.active = 0]

\* close unsubscribes every subscription in the list, which cancels a callback under way.
BeginClose ==
    /\ BusOpen
    /\ connection' = "closing"
    /\ subscriptions' = {}
    /\ NoneActive
    /\ listener' = [l \in Listeners |-> IF l \in subscriptions THEN Silent ELSE listener[l]]
    /\ UNCHANGED <<stream, callerState, consumerState, busFaults, connects>>

\* The connection takes a subscription that came late with it, which stays in the list, and one
\* that is only replied for, which raises.
FinishClose ==
    /\ connection = "closing"
    /\ connection' = "down"
    /\ listener' = [l \in Listeners |-> Silent]
    /\ UNCHANGED <<stream, busStats, subscriptions, callerState, consumerState, busFaults, connects>>

-----------------------------------------------------------------------------
BusInit ==
    /\ connection = "down"
    /\ stream = <<>>
    /\ busStats = [published |-> 0, received |-> 0, active |-> 0, byType |-> [t \in MessageTypes |-> 0]]
    /\ subscriptions = {}
    /\ busCall = [c \in BusCalls |-> NoCall]
    /\ listener = [l \in Listeners |-> Silent]
    /\ sent = [c \in Consumers |-> {}] /\ acks = [c \in Consumers |-> {}] /\ returned = [c \in Consumers |-> {}]
    /\ unsure = {} /\ rpcs = {} /\ replied = 0 /\ busFaults = 0 /\ connects = 0

\* What the callback of a subscription does.
ListenerStep(l) == Callback(l) \/ HandlerReturns(l) \/ HandlerRaises(l) \/ Acks(l)

BusNext ==
    \/ Connect \/ BeginClose \/ FinishClose \/ StrangerPublishes
    \/ \E c \in BusCalls :
        \/ \E type \in MessageTypes : BeginPublish(c, type) \/ BeginRequest(c, type)
        \/ \E stored, answered \in BOOLEAN : PublishReturns(c, stored, answered)
        \/ \E stored \in BOOLEAN, reply \in {"valid", "invalid", "timeout"} : RequestReturns(c, stored, reply)
    \/ \E l \in Listeners :
        \/ BeginSubscribe(l) \/ SubscribeReturns(l) \/ SubscribeFails(l)
        \/ \E i \in 1 .. MaxBusMessages : JetStreamSends(l, i)
        \/ ListenerStep(l)

BusSpec == BusInit /\ [][BusNext]_busVars

-----------------------------------------------------------------------------
\* The statistics count the subscriptions in the list, a callback is at a message that exists.
BusTypeOK ==
    /\ connection \in {"down", "up", "closing"}
    /\ busStats.active = Cardinality(subscriptions) /\ subscriptions \subseteq Listeners
    /\ \A c \in BusCalls : busCall[c].at \in {"idle", "publishing", "asking"}
    /\ \A l \in Listeners :
        /\ listener[l].at \in {"none", "subscribing", "idle", "handling", "acking"}
        /\ listener[l].message \in 0 .. Len(stream)
    /\ \A c \in Consumers : acks[c] \cup sent[c] \subseteq DOMAIN stream

\* A message is acknowledged only once a handler of that consumer returned from it, however often
\* it was delivered and to whom of a queue group, and never if it could not be read (_callback).
AckedIsHandled ==
    \A c \in Consumers : acks[c] \subseteq returned[c] /\ \A i \in acks[c] : stream[i].valid

\* The statistics of a bus and the stream tell one story: by_type counts the messages in the
\* stream that publish got an answer for, and no request; total_published counts those, the
\* requests in the stream that were answered, and the answered ones to subjects outside it.
StatsMatchTheStream ==
    LET settled == {i \in DOMAIN stream : stream[i].valid /\ i \notin unsure} IN
    /\ \A type \in MessageTypes :
        busStats.byType[type] = Cardinality({i \in settled \ rpcs : stream[i].type = type})
    /\ busStats.published = replied + Cardinality(settled)

\* A message that can be read reaches a handler of every consumer that lasts, if fewer messages
\* cannot be read than JetStream leaves unacknowledged: those come again and again and are never
\* acknowledged (_callback), so that with more of them nothing new is sent.
MessagesReachHandlers ==
    []<>(\A l \in Listeners :
            Listening(l) /\ Cardinality({i \in DOMAIN stream : ~stream[i].valid}) < MaxAckPending =>
                \A i \in DOMAIN stream : stream[i].valid => i \in returned[Consumer(l)])

\* A message is acknowledged after its handler only, and what the bus counts is what the stream
\* holds and requests add, deliveries that repeat and answers that get lost included.
AcksAreEarned ==
    /\ BusTypeOK
    /\ AckedIsHandled
    /\ StatsMatchTheStream
=============================================================================
