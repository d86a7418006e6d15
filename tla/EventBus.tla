------------------------------- MODULE EventBus -------------------------------
(***************************************************************************)
(* One stream of the Redis event bus (architect-events): EventPublisher,   *)
(* the read loops of the EventSubscribers of one consumer group, the       *)
(* dead-letter stream and the operators who reprocess or purge it          *)
(* (DeadLetterProcessor).                                                  *)
(*                                                                         *)
(* A message is its position in the stream.  What XREADGROUP hands a       *)
(* consumer is a range of positions, cur[c] .. upto[c], processed in order:*)
(*                                                                         *)
(*   read -> message -> ack -> (next message, or read)                     *)
(*                   -> bury -> buryAck -> (next message, or read)         *)
(*                   -> (next message, or read), the message left pending  *)
(*                                                                         *)
(* Redis itself is external: the stream, the group's last delivered        *)
(* position and its pending entries list (PEL).  Who owns a pending entry  *)
(* is left out, since the code never reads entries by owner.               *)
(***************************************************************************)
EXTENDS Integers, Sequences, FiniteSets

CONSTANTS
    Consumers,    \* subscribers of the group, one read loop each
    Operators,    \* concurrent calls of DeadLetterProcessor.reprocess
    BatchSize,    \* count of XREADGROUP
    MaxLen,       \* maxlen of the publisher's XADD
    MaxRetries,   \* consumer -> max_retries
    MaxTracked,   \* _MAX_RETRY_TRACKING
    MaxMessages,  \* bound: messages in the stream
    MaxFaults     \* bound: crashes and failed Redis calls

ASSUME SizesAssumption ==
    /\ BatchSize \in Nat \ {0} /\ MaxLen \in Nat \ {0}
    /\ MaxRetries \in [Consumers -> Nat] /\ MaxTracked \in Nat
ASSUME BoundsAssumption == MaxMessages \in Nat /\ MaxFaults \in Nat

Ids == 1 .. MaxMessages

\* bad: deserialize_event raises; origin: the dead letter it repeats, or 0.
Messages == [bad : BOOLEAN, origin : 0 .. MaxMessages]

VARIABLES
    log,      \* the stream since its beginning
    trimmed,  \* positions up to this one are gone from the stream
    last,     \* the group's last delivered position
    pel,      \* positions delivered and not acknowledged
    dlq,      \* positions whose copy is in the dead-letter stream
    pc,       \* consumer -> where its read loop is
    cur,      \* consumer -> the message it is at
    upto,     \* consumer -> the last message of its batch
    retries,  \* consumer -> _retry_counts, 0 for no entry
    todo,     \* operator -> dead letters it has still to republish
    opc,      \* operator -> the dead letter it has republished and not deleted, or 0
    handled,  \* history: messages all handlers returned from
    buried,   \* history: messages copied to the dead-letter stream
    purged,   \* history: dead letters an operator threw away
    faults

redis   == <<log, trimmed, last, pel, dlq>>
loops   == <<pc, cur, upto, retries>>
ops     == <<todo, opc>>
history == <<handled, buried, purged>>
vars == <<log, trimmed, last, pel, dlq, pc, cur, upto, retries, todo, opc, handled, buried, purged, faults>>

Pcs == {"read", "message", "ack", "bury", "buryAck", "down", "dead"}

Init ==
    /\ log = <<>> /\ trimmed = 0 /\ last = 0 /\ pel = {} /\ dlq = {}
    /\ pc = [c \in Consumers |-> "read"]
    /\ cur = [c \in Consumers |-> 1]
    /\ upto = [c \in Consumers |-> 0]
    /\ retries = [c \in Consumers |-> [n \in Ids |-> 0]]
    /\ todo = [o \in Operators |-> {}]
    /\ opc = [o \in Operators |-> 0]
    /\ handled = {} /\ buried = {} /\ purged = {}
    /\ faults = 0

Goto(c, step) == pc' = [pc EXCEPT ![c] = step]

\* On to the next message of the batch, or back to XREADGROUP.
Proceed(c) ==
    /\ cur' = [cur EXCEPT ![c] = @ + 1]
    /\ Goto(c, IF cur[c] < upto[c] THEN "message" ELSE "read")

\* The batch is forgotten and the loop is over.
Abandon(c, how) ==
    /\ cur' = [cur EXCEPT ![c] = upto[c] + 1]
    /\ Goto(c, how)

-----------------------------------------------------------------------------
(* Publisher. *)

\* publish: XADD with an approximate maxlen, which may keep more than maxlen.
Publish(bad) ==
    /\ Len(log) < MaxMessages
    /\ log' = Append(log, [bad |-> bad, origin |-> 0])
    /\ trimmed' \in {k \in 0 .. MaxMessages : k = trimmed \/ (trimmed < k /\ k <= Len(log) + 1 - MaxLen)}
    /\ UNCHANGED <<last, pel, dlq, loops, ops, history, faults>>

-----------------------------------------------------------------------------
(* Subscriber. *)

\* Where the next read begins: past what was delivered and what was trimmed.
FirstNew == (IF last < trimmed THEN trimmed ELSE last) + 1

LastNew == IF Len(log) < FirstNew + BatchSize - 1 THEN Len(log) ELSE FirstNew + BatchSize - 1

\* Fault: the position of the group is not moved.
XReadGroupOld(c) ==
    /\ pc[c] = "read" /\ FirstNew <= Len(log)
    /\ cur' = [cur EXCEPT ![c] = FirstNew]
    /\ upto' = [upto EXCEPT ![c] = LastNew]
    /\ pel' = pel \cup (FirstNew .. LastNew)
    /\ Goto(c, "message")
    /\ UNCHANGED <<log, trimmed, last, dlq, retries, ops, history, faults>>

\* XREADGROUP with ">": messages never delivered to the group, which become pending.
XReadGroup(c) ==
    /\ pc[c] = "read" /\ FirstNew <= Len(log)
    /\ cur' = [cur EXCEPT ![c] = FirstNew]
    /\ upto' = [upto EXCEPT ![c] = LastNew]
    /\ last' = LastNew
    /\ pel' = pel \cup (FirstNew .. LastNew)
    /\ Goto(c, "message")
    /\ UNCHANGED <<log, trimmed, dlq, retries, ops, history, faults>>

\* The message cannot be read: straight to the dead letters.
DeserializeFails(c) ==
    /\ pc[c] = "message" /\ log[cur[c]].bad
    /\ Goto(c, "bury")
    /\ UNCHANGED <<redis, cur, upto, retries, ops, history, faults>>

\* Every handler returns.
HandlersSucceed(c) ==
    /\ pc[c] = "message" /\ ~ log[cur[c]].bad
    /\ handled' = handled \cup {cur[c]}
    /\ Goto(c, "ack")
    /\ UNCHANGED <<redis, cur, upto, retries, ops, buried, purged, faults>>

\* The oldest half of the entries of retry tracking, once there are too many.
Pruned(counts) ==
    LET tracked == {n \in Ids : counts[n] > 0}
        oldest  == {n \in tracked : 2 * Cardinality({k \in tracked : k <= n}) <= Cardinality(tracked)}
    IN  IF Cardinality(tracked) > MaxTracked THEN oldest ELSE {}

\* Fault: the message is acknowledged although it may be retried.
HandlerFailsAcked(c) ==
    LET n == cur[c]
        count == retries[c][n] + 1
        counts == [retries[c] EXCEPT ![n] = count]
    IN
    /\ pc[c] = "message" /\ ~ log[n].bad
    /\ retries' = [retries EXCEPT ![c] = [k \in Ids |-> IF k \in Pruned(counts) THEN 0 ELSE counts[k]]]
    /\ IF count >= MaxRetries[c] THEN Goto(c, "bury") /\ UNCHANGED cur ELSE Proceed(c)
    /\ pel' = pel \ {n}
    /\ UNCHANGED <<log, trimmed, last, dlq, upto, ops, history, faults>>

\* A handler raises: counted, and left pending unless the count has reached
\* max_retries.
HandlerFails(c) ==
    LET n == cur[c]
        count == retries[c][n] + 1
        counts == [retries[c] EXCEPT ![n] = count]
    IN
    /\ pc[c] = "message" /\ ~ log[n].bad
    /\ retries' = [retries EXCEPT ![c] = [k \in Ids |-> IF k \in Pruned(counts) THEN 0 ELSE counts[k]]]
    /\ IF count >= MaxRetries[c] THEN Goto(c, "bury") /\ UNCHANGED cur ELSE Proceed(c)
    /\ UNCHANGED <<redis, upto, ops, history, faults>>

\* XACK after success.
Ack(c) ==
    /\ pc[c] = "ack"
    /\ pel' = pel \ {cur[c]}
    /\ retries' = [retries EXCEPT ![c][cur[c]] = 0]
    /\ Proceed(c)
    /\ UNCHANGED <<log, trimmed, last, dlq, upto, ops, history, faults>>

\* _move_to_dlq: the copy.
MoveToDlq(c) ==
    /\ pc[c] = "bury"
    /\ dlq' = dlq \cup {cur[c]}
    /\ buried' = buried \cup {cur[c]}
    /\ Goto(c, "buryAck")
    /\ UNCHANGED <<log, trimmed, last, pel, cur, upto, retries, ops, handled, purged, faults>>

\* _move_to_dlq: XACK of the original.
AckBuried(c) ==
    /\ pc[c] = "buryAck"
    /\ pel' = pel \ {cur[c]}
    /\ retries' = [retries EXCEPT ![c][cur[c]] = 0]
    /\ Proceed(c)
    /\ UNCHANGED <<log, trimmed, last, dlq, upto, ops, history, faults>>

\* XACK or XADD raises outside the try: the exception ends the read loop, while
\* the process stays up.
LoopDies(c) ==
    /\ faults < MaxFaults /\ faults' = faults + 1
    /\ pc[c] \in {"ack", "bury", "buryAck"}
    /\ Abandon(c, "dead")
    /\ UNCHANGED <<redis, upto, retries, ops, history>>

\* stop, or a crash: the loop is cancelled wherever it is.
Stop(c) ==
    /\ faults < MaxFaults /\ faults' = faults + 1
    /\ pc[c] # "down"
    /\ Abandon(c, "down")
    /\ retries' = [retries EXCEPT ![c] = [n \in Ids |-> 0]]
    /\ UNCHANGED <<redis, upto, ops, history>>

\* start: the group exists already and keeps its position.
Start(c) ==
    /\ pc[c] = "down"
    /\ Goto(c, "read")
    /\ UNCHANGED <<redis, cur, upto, retries, ops, history, faults>>

\* claim_stale_messages: XAUTOCLAIM changes owners, and drops pending entries
\* that are no longer in the stream.  What it returns is only counted.
ClaimStaleMessages ==
    /\ pel \cap (1 .. trimmed) # {}
    /\ pel' = pel \ (1 .. trimmed)
    /\ UNCHANGED <<log, trimmed, last, dlq, loops, ops, history, faults>>

-----------------------------------------------------------------------------
(* Dead letters. *)

\* reprocess: XRANGE.
Reprocess(o) ==
    /\ opc[o] = 0 /\ todo[o] = {} /\ dlq # {}
    /\ todo' = [todo EXCEPT ![o] = dlq]
    /\ UNCHANGED <<redis, loops, opc, history, faults>>

\* Fault: the dead letter is deleted before it is published again.
RepublishDeletesFirst(o) ==
    /\ opc[o] = 0 /\ Len(log) < MaxMessages
    /\ \E n \in todo[o] :
          /\ dlq' = dlq \ {n}
          /\ todo' = [todo EXCEPT ![o] = @ \ {n}]
          /\ opc' = [opc EXCEPT ![o] = n]
    /\ UNCHANGED <<log, trimmed, last, pel, loops, history, faults>>

\* XADD to the stream the letter came from, without a maxlen.
Republish(o) ==
    /\ opc[o] = 0 /\ Len(log) < MaxMessages
    /\ \E n \in todo[o] :
          /\ log' = Append(log, [bad |-> log[n].bad, origin |-> n])
          /\ todo' = [todo EXCEPT ![o] = @ \ {n}]
          /\ opc' = [opc EXCEPT ![o] = n]
    /\ UNCHANGED <<trimmed, last, pel, dlq, loops, history, faults>>

\* XDEL from the dead letters.
DeleteDead(o) ==
    /\ opc[o] # 0
    /\ dlq' = dlq \ {opc[o]}
    /\ opc' = [opc EXCEPT ![o] = 0]
    /\ UNCHANGED <<log, trimmed, last, pel, loops, todo, history, faults>>

\* The call ends early: a Redis call fails, or the process dies.
ReprocessAborts(o) ==
    /\ faults < MaxFaults /\ faults' = faults + 1
    /\ opc[o] # 0 \/ todo[o] # {}
    /\ opc' = [opc EXCEPT ![o] = 0]
    /\ todo' = [todo EXCEPT ![o] = {}]
    /\ UNCHANGED <<redis, loops, history>>

\* purge.
Purge ==
    /\ dlq # {}
    /\ purged' = purged \cup dlq
    /\ dlq' = {}
    /\ UNCHANGED <<log, trimmed, last, pel, loops, ops, handled, buried, faults>>

-----------------------------------------------------------------------------
\* One step of a read loop.
Consume(c) ==
    \/ XReadGroup(c) \/ DeserializeFails(c) \/ HandlersSucceed(c) \/ HandlerFails(c)
    \/ Ack(c) \/ MoveToDlq(c) \/ AckBuried(c)

Interrupt(c) == LoopDies(c) \/ Stop(c) \/ Start(c)

Operate(o) == Reprocess(o) \/ Republish(o) \/ DeleteDead(o) \/ ReprocessAborts(o)

Next ==
    \/ \E bad \in BOOLEAN : Publish(bad)
    \/ \E c \in Consumers : Consume(c) \/ Interrupt(c)
    \/ \E o \in Operators : Operate(o)
    \/ ClaimStaleMessages
    \/ Purge

Spec == Init /\ [][Next]_vars

\* The event loop runs the read loop whenever it can go on, and a process that
\* is down is started again.
FairSpec == Spec /\ \A c \in Consumers : WF_vars(Consume(c)) /\ WF_vars(Start(c))

-----------------------------------------------------------------------------
(* Properties. *)

\* Every variable has its type.
TypeOK ==
    /\ log \in Seq(Messages) /\ Len(log) <= MaxMessages
    /\ trimmed \in Nat /\ last \in Nat
    /\ trimmed <= Len(log) /\ last <= Len(log)
    /\ pel \subseteq 1 .. last /\ dlq \subseteq 1 .. last
    /\ pc \in [Consumers -> Pcs]
    /\ cur \in [Consumers -> 1 .. MaxMessages + 1]
    /\ upto \in [Consumers -> 0 .. MaxMessages]
    /\ retries \in [Consumers -> [Ids -> Nat]]
    /\ todo \in [Operators -> SUBSET (1 .. last)]
    /\ opc \in [Operators -> 0 .. last]
    /\ handled \subseteq 1 .. last /\ buried \subseteq 1 .. last /\ purged \subseteq 1 .. last
    /\ faults \in Nat

\* XACK comes last: a message the group no longer has to deal with was handled by
\* every handler or copied to the dead letters, unless maxlen newer messages
\* pushed it out of the stream, whatever crashed in between (_read_loop,
\* _move_to_dlq, publish).
NothingVanishes ==
    \A n \in 1 .. last :
        n \in pel \/ n \in handled \/ n \in buried \/ n <= Len(log) - MaxLen

\* What a read loop has still to do is its own: no two loops have the same
\* message, and none has one that was handled or buried before, across restarts
\* and although pending entries pile up (">" in _read_loop).
EachMessageHasOneConsumer ==
    /\ \A c, d \in Consumers : c # d => (cur[c] .. upto[c]) \cap (cur[d] .. upto[d]) = {}
    /\ \A c \in Consumers : \A n \in cur[c] .. upto[c] :
          (n = cur[c] /\ pc[c] \in {"ack", "buryAck"}) \/ n \notin handled \cup buried

\* A dead letter leaves the dead-letter stream only when it is back in the stream
\* it came from, or purged: reprocess publishes before it deletes.
DeadLettersAreKept ==
    \A n \in buried :
        n \in dlq \/ n \in purged \/ \E k \in 1 .. Len(log) : log[k].origin = n

\* Every message gets to a consumer, or is trimmed, unless no read loop is left:
\* a loop whose XACK or XADD raised never comes back.
MessagesAreDelivered ==
    []<>(\A n \in 1..Len(log) : n <= last \/ n <= trimmed \/ \A c \in Consumers : pc[c] = "dead")

\* EventSubscriber's description: failed messages are retried up to max_retries
\* times before being moved to a dead-letter queue.
FailedMessagesAreSettled ==
    \A c \in Consumers, n \in Ids :
        (retries[c][n] > 0) ~> (n \in handled \/ n \in buried)
=============================================================================
