---------------------------- MODULE EventBus_proofs ----------------------------
(***************************************************************************)
(* Proofs about EventBus for any consumers, operators, batch size, maxlen  *)
(* and retry limits.                                                       *)
(*                                                                         *)
(* None of the safety properties is inductive alone.  BInv adds how far    *)
(* trimming may have got, that every batch lies within what was delivered  *)
(* and is empty outside the processing steps, that a loop about to         *)
(* acknowledge has earned it, and that an operator about to delete a dead  *)
(* letter has published it.                                                *)
(***************************************************************************)
EXTENDS EventBus, TLAPS

\* Only what maxlen newer messages follow has been trimmed.
TrimBounded == trimmed = 0 \/ trimmed <= Len(log) - MaxLen

\* Batches were delivered, and are empty between two reads.
BatchesDelivered ==
    \A c \in Consumers :
        /\ upto[c] <= last /\ cur[c] <= upto[c] + 1
        /\ pc[c] \in {"read", "down", "dead"} => cur[c] = upto[c] + 1
        /\ pc[c] \in {"message", "ack", "bury", "buryAck"} => cur[c] <= upto[c]

\* Nobody acknowledges what is not settled.
AcksEarned ==
    \A c \in Consumers :
        /\ pc[c] = "ack" => cur[c] \in handled
        /\ pc[c] = "buryAck" => cur[c] \in buried

\* Nobody deletes a dead letter that is not published again.
DeletionsEarned ==
    \A o \in Operators : opc[o] # 0 => \E k \in 1 .. Len(log) : log[k].origin = opc[o]

BInv ==
    /\ TypeOK /\ TrimBounded /\ BatchesDelivered /\ AcksEarned /\ DeletionsEarned
    /\ NothingVanishes /\ EachMessageHasOneConsumer /\ DeadLettersAreKept

LEMMA InitBInv == Init => BInv
  BY SizesAssumption, BoundsAssumption
  DEF Init, BInv, TypeOK, TrimBounded, BatchesDelivered, AcksEarned, DeletionsEarned, NothingVanishes,
      EachMessageHasOneConsumer, DeadLettersAreKept, Pcs, Ids, Messages

\* What appending a message to the stream leaves as it was.
LEMMA AppendKeeps ==
  ASSUME NEW m \in Messages, log \in Seq(Messages), log' = Append(log, m)
  PROVE  /\ log' \in Seq(Messages) /\ Len(log') = Len(log) + 1
         /\ \A k \in 1 .. Len(log) : log'[k] = log[k]
         /\ log'[Len(log) + 1] = m
  OBVIOUS

\* The batch a read hands out is new to the group.
LEMMA NewBatch ==
  ASSUME TypeOK, FirstNew <= Len(log)
  PROVE  /\ FirstNew \in Nat /\ LastNew \in Nat
         /\ last < FirstNew /\ trimmed < FirstNew
         /\ FirstNew <= LastNew /\ LastNew <= Len(log)
         /\ FirstNew = last + 1 \/ FirstNew = trimmed + 1
  BY SizesAssumption DEF TypeOK, FirstNew, LastNew

-----------------------------------------------------------------------------
(* Type correctness. *)

LEMMA ProceedType ==
  ASSUME TypeOK, BatchesDelivered, NEW c \in Consumers, cur[c] <= upto[c], Proceed(c)
  PROVE  pc' \in [Consumers -> Pcs] /\ cur' \in [Consumers -> 1 .. MaxMessages + 1]
  BY BoundsAssumption DEF TypeOK, Proceed, Goto, Pcs

LEMMA NextType == BInv /\ [Next]_vars => TypeOK'
<1> SUFFICES ASSUME BInv, [Next]_vars PROVE TypeOK'
  OBVIOUS
<1> USE SizesAssumption, BoundsAssumption
    DEF BInv, TypeOK, redis, loops, ops, history, Goto, Pcs
<1>1. ASSUME NEW bad \in BOOLEAN, Publish(bad) PROVE TypeOK'
  <2>1. [bad |-> bad, origin |-> 0] \in Messages
    BY DEF Messages
  <2>2. log' \in Seq(Messages) /\ Len(log') = Len(log) + 1
    BY <1>1, <2>1, AppendKeeps DEF Publish
  <2>3. trimmed' \in Nat /\ trimmed' <= Len(log')
    BY <1>1, <2>2 DEF Publish
  <2> QED BY <1>1, <2>2, <2>3 DEF Publish
<1>2. ASSUME NEW c \in Consumers, XReadGroup(c) PROVE TypeOK'
  <2>1. FirstNew \in 1 .. MaxMessages /\ LastNew \in 1 .. MaxMessages /\ last <= LastNew /\ LastNew <= Len(log)
    BY <1>2, NewBatch DEF XReadGroup
  <2> QED BY <1>2, <2>1, SMTT(30) DEF XReadGroup
<1>3. ASSUME NEW c \in Consumers, DeserializeFails(c) PROVE TypeOK'
  BY <1>3 DEF DeserializeFails
<1>4. ASSUME NEW c \in Consumers, HandlersSucceed(c) PROVE TypeOK'
  <2>1. cur[c] \in 1 .. last
    BY <1>4 DEF HandlersSucceed, BatchesDelivered
  <2> QED BY <1>4, <2>1 DEF HandlersSucceed
<1>5. ASSUME NEW c \in Consumers, HandlerFails(c) PROVE TypeOK'
  <2>1. cur[c] \in Ids /\ cur[c] <= upto[c]
    BY <1>5 DEF HandlerFails, BatchesDelivered, Ids
  <2>2. retries' \in [Consumers -> [Ids -> Nat]]
    BY <1>5, <2>1 DEF HandlerFails
  <2>3. pc' \in [Consumers -> Pcs] /\ cur' \in [Consumers -> 1 .. MaxMessages + 1]
    BY <1>5, <2>1, ProceedType DEF HandlerFails
  <2> QED BY <1>5, <2>2, <2>3 DEF HandlerFails
<1>6. ASSUME NEW c \in Consumers, Ack(c) PROVE TypeOK'
  <2>1. cur[c] \in Ids /\ cur[c] <= upto[c]
    BY <1>6 DEF Ack, BatchesDelivered, Ids
  <2>2. retries' \in [Consumers -> [Ids -> Nat]]
    BY <1>6, <2>1 DEF Ack
  <2>3. pc' \in [Consumers -> Pcs] /\ cur' \in [Consumers -> 1 .. MaxMessages + 1]
    BY <1>6, <2>1, ProceedType DEF Ack
  <2> QED BY <1>6, <2>2, <2>3 DEF Ack
<1>7. ASSUME NEW c \in Consumers, AckBuried(c) PROVE TypeOK'
  <2>1. cur[c] \in Ids /\ cur[c] <= upto[c]
    BY <1>7 DEF AckBuried, BatchesDelivered, Ids
  <2>2. retries' \in [Consumers -> [Ids -> Nat]]
    BY <1>7, <2>1 DEF AckBuried
  <2>3. pc' \in [Consumers -> Pcs] /\ cur' \in [Consumers -> 1 .. MaxMessages + 1]
    BY <1>7, <2>1, ProceedType DEF AckBuried
  <2> QED BY <1>7, <2>2, <2>3 DEF AckBuried
<1>8. ASSUME NEW c \in Consumers, MoveToDlq(c) PROVE TypeOK'
  <2>1. cur[c] \in 1 .. last
    BY <1>8 DEF MoveToDlq, BatchesDelivered
  <2> QED BY <1>8, <2>1 DEF MoveToDlq
<1>9. ASSUME NEW c \in Consumers, LoopDies(c) PROVE TypeOK'
  BY <1>9 DEF LoopDies, Abandon
<1>10. ASSUME NEW c \in Consumers, Stop(c) PROVE TypeOK'
  BY <1>10 DEF Stop, Abandon
<1>11. ASSUME NEW c \in Consumers, Start(c) PROVE TypeOK'
  BY <1>11 DEF Start
<1>12. ASSUME ClaimStaleMessages \/ Purge PROVE TypeOK'
  BY <1>12 DEF ClaimStaleMessages, Purge
<1>13. ASSUME NEW o \in Operators, Reprocess(o) PROVE TypeOK'
  BY <1>13 DEF Reprocess
<1>14. ASSUME NEW o \in Operators, DeleteDead(o) PROVE TypeOK'
  <2>1. 0 \in 0 .. last
    OBVIOUS
  <2>2. opc' \in [Operators -> 0 .. last]
    BY <1>14, <2>1 DEF DeleteDead
  <2>3. dlq' \subseteq dlq /\ last' = last
    BY <1>14 DEF DeleteDead
  <2> QED BY <1>14, <2>2, <2>3 DEF DeleteDead
<1>15. ASSUME NEW o \in Operators, ReprocessAborts(o) PROVE TypeOK'
  BY <1>15 DEF ReprocessAborts
<1>16. ASSUME NEW o \in Operators, Republish(o) PROVE TypeOK'
  <2> PICK n \in todo[o] :
        /\ log' = Append(log, [bad |-> log[n].bad, origin |-> n])
        /\ todo' = [todo EXCEPT ![o] = @ \ {n}]
        /\ opc' = [opc EXCEPT ![o] = n]
    BY <1>16 DEF Republish
  <2>1. n \in 1 .. last /\ n \in 1 .. Len(log) /\ log[n] \in Messages
    OBVIOUS
  <2>2. [bad |-> log[n].bad, origin |-> n] \in Messages
    BY <2>1 DEF Messages
  <2>3. log' \in Seq(Messages) /\ Len(log') = Len(log) + 1
    BY <2>2, AppendKeeps
  <2> QED BY <1>16, <2>1, <2>3 DEF Republish
<1>17. CASE UNCHANGED vars
  BY <1>17 DEF vars
<1> HIDE DEF BInv, TypeOK
<1> QED BY <1>1, <1>2, <1>3, <1>4, <1>5, <1>6, <1>7, <1>8, <1>9, <1>10,
        <1>11, <1>12, <1>13, <1>14, <1>15, <1>16, <1>17, Zenon
        DEF Next, Consume, Interrupt, Operate

-----------------------------------------------------------------------------
(* The conjuncts of BInv, action by action. *)

\* Trimming and batches.
LEMMA NextBatches == BInv /\ [Next]_vars => (TrimBounded /\ BatchesDelivered)'
<1> SUFFICES ASSUME BInv, [Next]_vars PROVE (TrimBounded /\ BatchesDelivered)'
  OBVIOUS
<1> DEFINE Goal == (TrimBounded /\ BatchesDelivered)'
<1> SUFFICES Goal
  OBVIOUS
<1>0. TypeOK'
  BY NextType
<1> USE SizesAssumption, BoundsAssumption, <1>0
    DEF BInv, TypeOK, redis, loops, ops, history, Goto, TrimBounded, BatchesDelivered
<1>1. ASSUME NEW bad \in BOOLEAN, Publish(bad) PROVE Goal
  <2>1. [bad |-> bad, origin |-> 0] \in Messages
    BY DEF Messages
  <2>2. Len(log') = Len(log) + 1 /\ \A k \in 1 .. Len(log) : log'[k] = log[k]
    BY <1>1, <2>1, AppendKeeps DEF Publish
  <2> QED BY <1>1, <2>2 DEF Publish
<1>2. ASSUME NEW c \in Consumers, XReadGroup(c) PROVE Goal
  <2>1. /\ FirstNew \in Nat /\ LastNew \in Nat /\ last < FirstNew /\ trimmed < FirstNew
        /\ FirstNew <= LastNew /\ LastNew <= Len(log) /\ (FirstNew = last + 1 \/ FirstNew = trimmed + 1)
    BY <1>2, NewBatch DEF XReadGroup
  <2> QED BY <1>2, <2>1 DEF XReadGroup
<1>3. ASSUME NEW c \in Consumers, DeserializeFails(c) PROVE Goal
  BY <1>3 DEF DeserializeFails
<1>4. ASSUME NEW c \in Consumers, HandlersSucceed(c) PROVE Goal
  BY <1>4 DEF HandlersSucceed
<1>5. ASSUME NEW c \in Consumers, HandlerFails(c) PROVE Goal
  BY <1>5, SMTT(30) DEF HandlerFails, Proceed
<1>6. ASSUME NEW c \in Consumers, Ack(c) PROVE Goal
  BY <1>6, SMTT(30) DEF Ack, Proceed
<1>7. ASSUME NEW c \in Consumers, AckBuried(c) PROVE Goal
  BY <1>7, SMTT(30) DEF AckBuried, Proceed
<1>8. ASSUME NEW c \in Consumers, MoveToDlq(c) PROVE Goal
  BY <1>8 DEF MoveToDlq
<1>9. ASSUME NEW c \in Consumers, LoopDies(c) PROVE Goal
  BY <1>9 DEF LoopDies, Abandon
<1>10. ASSUME NEW c \in Consumers, Stop(c) PROVE Goal
  BY <1>10 DEF Stop, Abandon
<1>11. ASSUME NEW c \in Consumers, Start(c) PROVE Goal
  BY <1>11 DEF Start
<1>12. ASSUME ClaimStaleMessages PROVE Goal
  BY <1>12 DEF ClaimStaleMessages
<1>13. ASSUME Purge PROVE Goal
  BY <1>13 DEF Purge
<1>14. ASSUME NEW o \in Operators, Reprocess(o) PROVE Goal
  BY <1>14 DEF Reprocess
<1>15. ASSUME NEW o \in Operators, DeleteDead(o) PROVE Goal
  BY <1>15 DEF DeleteDead
<1>16. ASSUME NEW o \in Operators, ReprocessAborts(o) PROVE Goal
  BY <1>16 DEF ReprocessAborts
<1>17. ASSUME NEW o \in Operators, Republish(o) PROVE Goal
  <2> PICK n \in todo[o] :
        /\ log' = Append(log, [bad |-> log[n].bad, origin |-> n])
        /\ todo' = [todo EXCEPT ![o] = @ \ {n}]
        /\ opc' = [opc EXCEPT ![o] = n]
    BY <1>17 DEF Republish
  <2>1. [bad |-> log[n].bad, origin |-> n] \in Messages
    BY DEF Messages
  <2>2. /\ Len(log') = Len(log) + 1 /\ \A k \in 1 .. Len(log) : log'[k] = log[k]
        /\ log'[Len(log) + 1].origin = n
    BY <2>1, AppendKeeps
  <2> QED BY <1>17, <2>2 DEF Republish
<1>18. CASE UNCHANGED vars
  BY <1>18 DEF vars
<1> HIDE DEF BInv, TypeOK, Goal
<1> QED
  BY <1>1, <1>2, <1>3, <1>4, <1>5, <1>6, <1>7, <1>8, <1>9,
     <1>10, <1>11, <1>12, <1>13, <1>14, <1>15, <1>16, <1>17, <1>18, Zenon
  DEF Next, Consume, Interrupt, Operate

\* Nothing is acknowledged that is not settled.
LEMMA NextVanishes == BInv /\ [Next]_vars => (AcksEarned /\ NothingVanishes)'
<1> SUFFICES ASSUME BInv, [Next]_vars PROVE (AcksEarned /\ NothingVanishes)'
  OBVIOUS
<1> DEFINE Goal == (AcksEarned /\ NothingVanishes)'
<1> SUFFICES Goal
  OBVIOUS
<1>0. TypeOK'
  BY NextType
<1> USE SizesAssumption, BoundsAssumption, <1>0
    DEF BInv, TypeOK, redis, loops, ops, history, Goto, TrimBounded, BatchesDelivered, AcksEarned, NothingVanishes
<1>1. ASSUME NEW bad \in BOOLEAN, Publish(bad) PROVE Goal
  <2>1. [bad |-> bad, origin |-> 0] \in Messages
    BY DEF Messages
  <2>2. Len(log') = Len(log) + 1 /\ \A k \in 1 .. Len(log) : log'[k] = log[k]
    BY <1>1, <2>1, AppendKeeps DEF Publish
  <2>3. NothingVanishes'
    BY <1>1, <2>2 DEF Publish
  <2>4. AcksEarned'
    BY <1>1 DEF Publish
  <2> QED BY <2>3, <2>4
<1>2. ASSUME NEW c \in Consumers, XReadGroup(c) PROVE Goal
  <2>1. /\ FirstNew \in Nat /\ LastNew \in Nat /\ last < FirstNew /\ trimmed < FirstNew
        /\ FirstNew <= LastNew /\ LastNew <= Len(log) /\ (FirstNew = last + 1 \/ FirstNew = trimmed + 1)
    BY <1>2, NewBatch DEF XReadGroup
  <2> QED BY <1>2, <2>1 DEF XReadGroup
<1>3. ASSUME NEW c \in Consumers, DeserializeFails(c) PROVE Goal
  BY <1>3 DEF DeserializeFails
<1>4. ASSUME NEW c \in Consumers, HandlersSucceed(c) PROVE Goal
  BY <1>4 DEF HandlersSucceed
<1>5. ASSUME NEW c \in Consumers, HandlerFails(c) PROVE Goal
  BY <1>5, SMTT(30) DEF HandlerFails, Proceed
<1>6. ASSUME NEW c \in Consumers, Ack(c) PROVE Goal
  BY <1>6 DEF Ack, Proceed
<1>7. ASSUME NEW c \in Consumers, AckBuried(c) PROVE Goal
  BY <1>7 DEF AckBuried, Proceed
<1>8. ASSUME NEW c \in Consumers, MoveToDlq(c) PROVE Goal
  BY <1>8 DEF MoveToDlq
<1>9. ASSUME NEW c \in Consumers, LoopDies(c) PROVE Goal
  BY <1>9 DEF LoopDies, Abandon
<1>10. ASSUME NEW c \in Consumers, Stop(c) PROVE Goal
  BY <1>10 DEF Stop, Abandon
<1>11. ASSUME NEW c \in Consumers, Start(c) PROVE Goal
  BY <1>11 DEF Start
<1>12. ASSUME ClaimStaleMessages PROVE Goal
  BY <1>12 DEF ClaimStaleMessages
<1>13. ASSUME Purge PROVE Goal
  BY <1>13 DEF Purge
<1>14. ASSUME NEW o \in Operators, Reprocess(o) PROVE Goal
  BY <1>14 DEF Reprocess
<1>15. ASSUME NEW o \in Operators, DeleteDead(o) PROVE Goal
  BY <1>15 DEF DeleteDead
<1>16. ASSUME NEW o \in Operators, ReprocessAborts(o) PROVE Goal
  BY <1>16 DEF ReprocessAborts
<1>17. ASSUME NEW o \in Operators, Republish(o) PROVE Goal
  <2> PICK n \in todo[o] :
        /\ log' = Append(log, [bad |-> log[n].bad, origin |-> n])
        /\ todo' = [todo EXCEPT ![o] = @ \ {n}]
        /\ opc' = [opc EXCEPT ![o] = n]
    BY <1>17 DEF Republish
  <2>1. [bad |-> log[n].bad, origin |-> n] \in Messages
    BY DEF Messages
  <2>2. /\ Len(log') = Len(log) + 1 /\ \A k \in 1 .. Len(log) : log'[k] = log[k]
        /\ log'[Len(log) + 1].origin = n
    BY <2>1, AppendKeeps
  <2> QED BY <1>17, <2>2 DEF Republish
<1>18. CASE UNCHANGED vars
  BY <1>18 DEF vars
<1> HIDE DEF BInv, TypeOK, Goal
<1> QED
  BY <1>1, <1>2, <1>3, <1>4, <1>5, <1>6, <1>7, <1>8, <1>9,
     <1>10, <1>11, <1>12, <1>13, <1>14, <1>15, <1>16, <1>17, <1>18, Zenon
  DEF Next, Consume, Interrupt, Operate

\* A loop that drops the first messages of its batch keeps batches disjoint and
\* unsettled.
LEMMA ShrinkKeeps ==
  ASSUME TypeOK, TypeOK', EachMessageHasOneConsumer, NEW c \in Consumers, cur[c] < cur'[c],
         \A d \in Consumers : d # c => cur'[d] = cur[d] /\ pc'[d] = pc[d],
         UNCHANGED <<upto, handled, buried>>
  PROVE  EachMessageHasOneConsumer'
<1>1. \A d \in Consumers : \A n \in cur'[d] .. upto'[d] : n \in cur[d] .. upto[d] /\ (d = c => n # cur[c])
  BY DEF TypeOK
<1>2. \A d, e \in Consumers : d # e => (cur'[d] .. upto'[d]) \cap (cur'[e] .. upto'[e]) = {}
  BY <1>1 DEF EachMessageHasOneConsumer
<1>3. ASSUME NEW d \in Consumers, NEW n \in cur'[d] .. upto'[d]
      PROVE  (n = cur'[d] /\ pc'[d] \in {"ack", "buryAck"}) \/ n \notin handled' \cup buried'
  BY <1>1, <1>3 DEF EachMessageHasOneConsumer
<1> QED BY <1>2, <1>3 DEF EachMessageHasOneConsumer

\* Batches are disjoint and unsettled.
LEMMA NextOneConsumer == BInv /\ [Next]_vars => (EachMessageHasOneConsumer)'
<1> SUFFICES ASSUME BInv, [Next]_vars PROVE (EachMessageHasOneConsumer)'
  OBVIOUS
<1> DEFINE Goal == (EachMessageHasOneConsumer)'
<1> SUFFICES Goal
  OBVIOUS
<1>0. TypeOK'
  BY NextType
<1> USE SizesAssumption, BoundsAssumption, <1>0
    DEF BInv, TypeOK, redis, loops, ops, history, Goto, BatchesDelivered, EachMessageHasOneConsumer
<1>1. ASSUME NEW bad \in BOOLEAN, Publish(bad) PROVE Goal
  <2>1. [bad |-> bad, origin |-> 0] \in Messages
    BY DEF Messages
  <2>2. Len(log') = Len(log) + 1 /\ \A k \in 1 .. Len(log) : log'[k] = log[k]
    BY <1>1, <2>1, AppendKeeps DEF Publish
  <2> QED BY <1>1, <2>2 DEF Publish
<1>2. ASSUME NEW c \in Consumers, XReadGroup(c) PROVE Goal
  <2>1. FirstNew \in Nat /\ last < FirstNew
    BY <1>2, NewBatch DEF XReadGroup
  <2>2. \A n \in cur'[c] .. upto'[c] : last < n
    BY <1>2, <2>1 DEF XReadGroup
  <2>3. \A d \in Consumers : d # c => cur'[d] = cur[d] /\ upto'[d] = upto[d] /\ pc'[d] = pc[d]
    BY <1>2 DEF XReadGroup
  <2>4. \A d \in Consumers : \A n \in cur[d] .. upto[d] : n <= last
    BY SMTT(30)
  <2>5. \A d, e \in Consumers : d # e => (cur'[d] .. upto'[d]) \cap (cur'[e] .. upto'[e]) = {}
    <3> SUFFICES ASSUME NEW d \in Consumers, NEW e \in Consumers, d # e,
                        NEW n \in cur'[d] .. upto'[d], n \in cur'[e] .. upto'[e]
                 PROVE FALSE
      OBVIOUS
    <3>1. CASE d = c
      BY <2>2, <2>3, <2>4, <3>1
    <3>2. CASE e = c
      BY <2>2, <2>3, <2>4, <3>2
    <3>3. CASE d # c /\ e # c
      BY <2>3, <3>3
    <3> QED BY <3>1, <3>2, <3>3
  <2>6. ASSUME NEW d \in Consumers, NEW n \in cur'[d] .. upto'[d]
        PROVE  (n = cur'[d] /\ pc'[d] \in {"ack", "buryAck"}) \/ n \notin handled' \cup buried'
    BY <1>2, <2>2, <2>3, <2>6 DEF XReadGroup
  <2> QED BY <2>5, <2>6
<1>3. ASSUME NEW c \in Consumers, DeserializeFails(c) PROVE Goal
  BY <1>3 DEF DeserializeFails
<1>4. ASSUME NEW c \in Consumers, HandlersSucceed(c) PROVE Goal
  BY <1>4, SMTT(30) DEF HandlersSucceed
<1>5. ASSUME NEW c \in Consumers, HandlerFails(c) PROVE Goal
  <2>1. CASE Proceed(c)
    <3>1. /\ cur[c] < cur'[c] /\ UNCHANGED <<upto, handled, buried>>
          /\ \A d \in Consumers : d # c => cur'[d] = cur[d] /\ pc'[d] = pc[d]
      BY <1>5, <2>1 DEF HandlerFails, Proceed
    <3> QED BY <3>1, ShrinkKeeps
  <2>2. CASE Goto(c, "bury") /\ UNCHANGED cur
    BY <1>5, <2>2 DEF HandlerFails
  <2> QED BY <1>5, <2>1, <2>2 DEF HandlerFails
<1>6. ASSUME NEW c \in Consumers, Ack(c) PROVE Goal
  <2>1. /\ cur[c] < cur'[c] /\ UNCHANGED <<upto, handled, buried>>
        /\ \A d \in Consumers : d # c => cur'[d] = cur[d] /\ pc'[d] = pc[d]
    BY <1>6 DEF Ack, Proceed
  <2> QED BY <2>1, ShrinkKeeps
<1>7. ASSUME NEW c \in Consumers, AckBuried(c) PROVE Goal
  <2>1. /\ cur[c] < cur'[c] /\ UNCHANGED <<upto, handled, buried>>
        /\ \A d \in Consumers : d # c => cur'[d] = cur[d] /\ pc'[d] = pc[d]
    BY <1>7 DEF AckBuried, Proceed
  <2> QED BY <2>1, ShrinkKeeps
<1>8. ASSUME NEW c \in Consumers, MoveToDlq(c) PROVE Goal
  BY <1>8, SMTT(30) DEF MoveToDlq
<1>9. ASSUME NEW c \in Consumers, LoopDies(c) PROVE Goal
  <2>1. /\ cur[c] < cur'[c] /\ UNCHANGED <<upto, handled, buried>>
        /\ \A d \in Consumers : d # c => cur'[d] = cur[d] /\ pc'[d] = pc[d]
    BY <1>9 DEF LoopDies, Abandon
  <2> QED BY <2>1, ShrinkKeeps
<1>10. ASSUME NEW c \in Consumers, Stop(c) PROVE Goal
  <2>1. CASE cur[c] = upto[c] + 1
    <3>1. UNCHANGED <<cur, upto, handled, buried>>
      BY <1>10, <2>1 DEF Stop, Abandon
    <3>2. \A n \in Int : n \notin cur[c] .. upto[c]
      BY <2>1
    <3> QED BY <1>10, <3>1, <3>2, SMTT(30) DEF Stop, Abandon
  <2>2. CASE cur[c] # upto[c] + 1
    <3>1. /\ cur[c] < cur'[c] /\ UNCHANGED <<upto, handled, buried>>
          /\ \A d \in Consumers : d # c => cur'[d] = cur[d] /\ pc'[d] = pc[d]
      BY <1>10, <2>2 DEF Stop, Abandon
    <3> QED BY <3>1, ShrinkKeeps
  <2> QED BY <2>1, <2>2
<1>11. ASSUME NEW c \in Consumers, Start(c) PROVE Goal
  BY <1>11 DEF Start
<1>12. ASSUME ClaimStaleMessages PROVE Goal
  BY <1>12 DEF ClaimStaleMessages
<1>13. ASSUME Purge PROVE Goal
  BY <1>13 DEF Purge
<1>14. ASSUME NEW o \in Operators, Reprocess(o) PROVE Goal
  BY <1>14 DEF Reprocess
<1>15. ASSUME NEW o \in Operators, DeleteDead(o) PROVE Goal
  BY <1>15 DEF DeleteDead
<1>16. ASSUME NEW o \in Operators, ReprocessAborts(o) PROVE Goal
  BY <1>16 DEF ReprocessAborts
<1>17. ASSUME NEW o \in Operators, Republish(o) PROVE Goal
  <2> PICK n \in todo[o] :
        /\ log' = Append(log, [bad |-> log[n].bad, origin |-> n])
        /\ todo' = [todo EXCEPT ![o] = @ \ {n}]
        /\ opc' = [opc EXCEPT ![o] = n]
    BY <1>17 DEF Republish
  <2>1. [bad |-> log[n].bad, origin |-> n] \in Messages
    BY DEF Messages
  <2>2. /\ Len(log') = Len(log) + 1 /\ \A k \in 1 .. Len(log) : log'[k] = log[k]
        /\ log'[Len(log) + 1].origin = n
    BY <2>1, AppendKeeps
  <2> QED BY <1>17, <2>2 DEF Republish
<1>18. CASE UNCHANGED vars
  BY <1>18 DEF vars
<1> HIDE DEF BInv, TypeOK, Goal
<1> QED
  BY <1>1, <1>2, <1>3, <1>4, <1>5, <1>6, <1>7, <1>8, <1>9,
     <1>10, <1>11, <1>12, <1>13, <1>14, <1>15, <1>16, <1>17, <1>18, Zenon
  DEF Next, Consume, Interrupt, Operate

\* Dead letters are published before they are deleted.
LEMMA NextDeadLetters == BInv /\ [Next]_vars => (DeletionsEarned /\ DeadLettersAreKept)'
<1> SUFFICES ASSUME BInv, [Next]_vars PROVE (DeletionsEarned /\ DeadLettersAreKept)'
  OBVIOUS
<1> DEFINE Goal == (DeletionsEarned /\ DeadLettersAreKept)'
<1> SUFFICES Goal
  OBVIOUS
<1>0. TypeOK'
  BY NextType
<1> USE SizesAssumption, BoundsAssumption, <1>0
    DEF BInv, TypeOK, redis, loops, ops, history, Goto, DeletionsEarned, DeadLettersAreKept
<1>1. ASSUME NEW bad \in BOOLEAN, Publish(bad) PROVE Goal
  <2>1. [bad |-> bad, origin |-> 0] \in Messages
    BY DEF Messages
  <2>2. Len(log') = Len(log) + 1 /\ \A k \in 1 .. Len(log) : log'[k] = log[k]
    BY <1>1, <2>1, AppendKeeps DEF Publish
  <2> QED BY <1>1, <2>2 DEF Publish
<1>2. ASSUME NEW c \in Consumers, XReadGroup(c) PROVE Goal
  <2>1. /\ FirstNew \in Nat /\ LastNew \in Nat /\ last < FirstNew /\ trimmed < FirstNew
        /\ FirstNew <= LastNew /\ LastNew <= Len(log) /\ (FirstNew = last + 1 \/ FirstNew = trimmed + 1)
    BY <1>2, NewBatch DEF XReadGroup
  <2> QED BY <1>2, <2>1 DEF XReadGroup
<1>3. ASSUME NEW c \in Consumers, DeserializeFails(c) PROVE Goal
  BY <1>3 DEF DeserializeFails
<1>4. ASSUME NEW c \in Consumers, HandlersSucceed(c) PROVE Goal
  BY <1>4 DEF HandlersSucceed
<1>5. ASSUME NEW c \in Consumers, HandlerFails(c) PROVE Goal
  BY <1>5 DEF HandlerFails, Proceed
<1>6. ASSUME NEW c \in Consumers, Ack(c) PROVE Goal
  BY <1>6 DEF Ack, Proceed
<1>7. ASSUME NEW c \in Consumers, AckBuried(c) PROVE Goal
  BY <1>7 DEF AckBuried, Proceed
<1>8. ASSUME NEW c \in Consumers, MoveToDlq(c) PROVE Goal
  BY <1>8 DEF MoveToDlq
<1>9. ASSUME NEW c \in Consumers, LoopDies(c) PROVE Goal
  BY <1>9 DEF LoopDies, Abandon
<1>10. ASSUME NEW c \in Consumers, Stop(c) PROVE Goal
  BY <1>10 DEF Stop, Abandon
<1>11. ASSUME NEW c \in Consumers, Start(c) PROVE Goal
  BY <1>11 DEF Start
<1>12. ASSUME ClaimStaleMessages PROVE Goal
  BY <1>12 DEF ClaimStaleMessages
<1>13. ASSUME Purge PROVE Goal
  BY <1>13 DEF Purge
<1>14. ASSUME NEW o \in Operators, Reprocess(o) PROVE Goal
  BY <1>14 DEF Reprocess
<1>15. ASSUME NEW o \in Operators, DeleteDead(o) PROVE Goal
  BY <1>15 DEF DeleteDead
<1>16. ASSUME NEW o \in Operators, ReprocessAborts(o) PROVE Goal
  BY <1>16 DEF ReprocessAborts
<1>17. ASSUME NEW o \in Operators, Republish(o) PROVE Goal
  <2> PICK n \in todo[o] :
        /\ log' = Append(log, [bad |-> log[n].bad, origin |-> n])
        /\ todo' = [todo EXCEPT ![o] = @ \ {n}]
        /\ opc' = [opc EXCEPT ![o] = n]
    BY <1>17 DEF Republish
  <2>1. [bad |-> log[n].bad, origin |-> n] \in Messages
    BY DEF Messages
  <2>2. /\ Len(log') = Len(log) + 1 /\ \A k \in 1 .. Len(log) : log'[k] = log[k]
        /\ log'[Len(log) + 1].origin = n
    BY <2>1, AppendKeeps
  <2>3. \A k \in 1 .. Len(log) : k \in 1 .. Len(log') /\ log'[k].origin = log[k].origin
    BY <2>2
  <2>4. Len(log) + 1 \in 1 .. Len(log')
    BY <2>2
  <2>5. DeletionsEarned'
    <3> SUFFICES ASSUME NEW p \in Operators, opc'[p] # 0
                 PROVE  \E k \in 1 .. Len(log') : log'[k].origin = opc'[p]
      BY Zenon
    <3>1. CASE p = o
      BY <2>2, <2>4, <3>1
    <3>2. CASE p # o
      <4>1. opc'[p] = opc[p]
        BY <3>2
      <4> QED BY <2>3, <4>1, ZenonT(30)
    <3> QED BY <3>1, <3>2
  <2>6. DeadLettersAreKept'
    <3> SUFFICES ASSUME NEW d \in buried, d \notin dlq, d \notin purged
                 PROVE  \E k \in 1 .. Len(log') : log'[k].origin = d
      BY <1>17, Zenon DEF Republish
    <3> QED BY <2>3
  <2> QED BY <2>5, <2>6
<1>18. CASE UNCHANGED vars
  BY <1>18 DEF vars
<1> HIDE DEF BInv, TypeOK, Goal
<1> QED
  BY <1>1, <1>2, <1>3, <1>4, <1>5, <1>6, <1>7, <1>8, <1>9,
     <1>10, <1>11, <1>12, <1>13, <1>14, <1>15, <1>16, <1>17, <1>18, Zenon
  DEF Next, Consume, Interrupt, Operate

-----------------------------------------------------------------------------
LEMMA NextBInv == BInv /\ [Next]_vars => BInv'
  BY NextType, NextBatches, NextVanishes, NextOneConsumer, NextDeadLetters DEF BInv

\* BInv is an invariant of the bus.
THEOREM Invariance == Spec => []BInv
  BY InitBInv, NextBInv, PTL DEF Spec

\* Every variable keeps its type through crashes and failed Redis calls.
THEOREM TypeCorrect == Spec => []TypeOK
<1>1. BInv => TypeOK
  BY DEF BInv
<1> QED BY <1>1, Invariance, PTL

\* XACK comes last: what the group has dealt with was handled or dead-lettered,
\* unless maxlen newer messages pushed it out.
THEOREM AcknowledgedIsSettled == Spec => []NothingVanishes
<1>1. BInv => NothingVanishes
  BY DEF BInv
<1> QED BY <1>1, Invariance, PTL

\* No two read loops work on one message, and none on a settled one.
THEOREM OneConsumerPerMessage == Spec => []EachMessageHasOneConsumer
<1>1. BInv => EachMessageHasOneConsumer
  BY DEF BInv
<1> QED BY <1>1, Invariance, PTL

\* Reprocessing never loses a dead letter.
THEOREM ReprocessingKeepsLetters == Spec => []DeadLettersAreKept
<1>1. BInv => DeadLettersAreKept
  BY DEF BInv
<1> QED BY <1>1, Invariance, PTL
=============================================================================
