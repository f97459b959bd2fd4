------------------------ MODULE TicketPurchaseProofs ------------------------
(***************************************************************************)
(* Proofs about TicketPurchase for every number of users, types, requests, *)
(* consumers and partitions, every stock and every bound on the failures.  *)
(***************************************************************************)
EXTENDS TicketPurchase, FiniteSetTheorems, TLAPS

USE RequestAssumption, StockAssumption, BrokerAssumption, FaultAssumption

-----------------------------------------------------------------------------
(* Types.                                                                  *)

\* The steps of the API's handling of a request keep the types.
LEMMA ApiTypes ==
    ASSUME TypeOK, NEW r \in Requests, Api(r) PROVE TypeOK'
<1> USE DEF TypeOK, CallStates, Partition, NoFault, Fault,
            redisVars, brokerVars, consumerVars, dbVars
<1>1. CASE RefusePurchase(r)
  BY <1>1 DEF RefusePurchase, SeckillAnswer
<1>2. CASE ReserveTicket(r)
  BY <1>2 DEF ReserveTicket, SeckillTake
<1>3. CASE ReserveFails(r)
  BY <1>3 DEF ReserveFails, SeckillTake
<1>4. CASE PublishTicket(r)
  BY <1>4 DEF PublishTicket, AppendRecord
<1>5. CASE PublishFails(r)
  <2>1. CASE Fault("publish_error") /\ UNCHANGED brokerVars
    BY <1>5, <2>1 DEF PublishFails
  <2>2. CASE Fault("publish_timeout") /\ AppendRecord(r)
    BY <1>5, <2>2 DEF PublishFails, AppendRecord
  <2>3. QED
    BY <1>5, <2>1, <2>2 DEF PublishFails
<1>6. CASE RollbackReservation(r)
  BY <1>6 DEF RollbackReservation, SeckillRollback
<1>7. CASE ApiCrash(r)
  BY <1>7 DEF ApiCrash
<1>8. QED
  BY <1>1, <1>2, <1>3, <1>4, <1>5, <1>6, <1>7 DEF Api

\* The part of TypeOK about what the consumers hold and have done.
ConsumerTypes ==
    /\ pc \in [Consumers -> ConsumerSteps]
    /\ batch \in [Consumers -> SUBSET Requests]
    /\ cur \in [Consumers -> Requests \cup {NoRequest}]
    /\ attempt \in [Consumers -> Nat]
    /\ top \in [Consumers -> Int]
    /\ outcome \in [Requests -> SUBSET Outcomes]

\* Ending a record keeps the types of the consumers.
LEMMA RecordDoneTypes ==
    ASSUME TypeOK, NEW c \in Consumers, NEW res \in Outcomes, RecordDone(c, res)
    PROVE  ConsumerTypes'
<1>1. outcome' \in [Requests -> SUBSET Outcomes]
  <2>1. outcome \in [Requests -> SUBSET Outcomes]
    BY DEF TypeOK
  <2>2. \A r \in Requests : outcome[r] \cup {res} \in SUBSET Outcomes
    BY <2>1
  <2>3. outcome' = [outcome EXCEPT ![cur[c]] = outcome[cur[c]] \cup {res}]
    BY DEF RecordDone
  <2>4. QED
    BY <2>1, <2>2, <2>3
<1>2. QED
  BY <1>1 DEF TypeOK, ConsumerTypes, ConsumerSteps, RecordDone

\* So does an attempt that has failed.
LEMMA AttemptFailedTypes ==
    ASSUME TypeOK, NEW c \in Consumers, AttemptFailed(c),
           outcome' \in [Requests -> SUBSET Outcomes]
    PROVE  ConsumerTypes'
<1>1. attempt' \in [Consumers -> Nat]
  BY DEF TypeOK, AttemptFailed
<1>2. pc' \in [Consumers -> ConsumerSteps]
  BY DEF TypeOK, AttemptFailed, ConsumerSteps
<1>3. QED
  BY <1>1, <1>2 DEF TypeOK, ConsumerTypes, AttemptFailed

\* And going on within handleMessage.
LEMMA GoOnTypes ==
    ASSUME TypeOK, NEW c \in Consumers, NEW next \in ConsumerSteps, GoOn(c, next),
           UNCHANGED outcome, top' \in [Consumers -> Int]
    PROVE  ConsumerTypes'
BY DEF TypeOK, ConsumerTypes, ConsumerSteps, GoOn

\* The consume loop keeps the types.
LEMMA ConsumeTypes ==
    ASSUME TypeOK, NEW c \in Consumers, Consume(c) PROVE TypeOK'
<1> USE DEF TypeOK, NoFault, Fault, apiVars, redisVars, brokerVars, dbVars
<1>1. CASE Poll(c)
  BY <1>1 DEF Poll, ConsumerSteps
<1>2. CASE TakeRecord(c)
  BY <1>2 DEF TakeRecord, ConsumerSteps
<1>3. CASE CommitBatch(c)
  <2>1. committed' \in [Partitions -> Nat]
    BY <1>3 DEF CommitBatch
  <2>2. QED
    BY <1>3, <2>1 DEF CommitBatch, ConsumerSteps
<1>4. CASE DeadLetter(c)
  <2>1. ConsumerTypes'
    BY <1>4, RecordDoneTypes DEF DeadLetter, Outcomes
  <2>2. QED
    BY <1>4, <2>1 DEF DeadLetter, ConsumerTypes
<1>5. QED
  BY <1>1, <1>2, <1>3, <1>4 DEF Consume

\* A consumer in the middle of handleMessage has a record in hand.
InHand == \A c \in Consumers : pc[c] \notin {"poll", "next"} => cur[c] \in Requests

\* handleMessage keeps the types.
LEMMA HandleTypes ==
    ASSUME TypeOK, InHand, NEW c \in Consumers, Handle(c) PROVE TypeOK'
<1> USE DEF TypeOK, NoFault, Fault, apiVars, redisVars, brokerVars, dbVars
<1>1. CASE MarkProcessed(c)
  <2>1. ConsumerTypes'
    BY <1>1, GoOnTypes DEF MarkProcessed, ConsumerSteps
  <2>2. QED
    BY <1>1, <2>1 DEF MarkProcessed, ConsumerTypes
<1>2. CASE SkipDuplicate(c)
  <2>1. ConsumerTypes'
    BY <1>2, RecordDoneTypes DEF SkipDuplicate, Outcomes
  <2>2. QED
    BY <1>2, <2>1 DEF SkipDuplicate, ConsumerTypes
<1>3. CASE MarkFails(c)
  <2>1. ConsumerTypes'
    BY <1>3, AttemptFailedTypes DEF MarkFails
  <2>2. key' \in [Requests -> BOOLEAN]
    BY <1>3 DEF MarkFails
  <2>3. QED
    BY <1>3, <2>1, <2>2 DEF MarkFails, ConsumerTypes
<1>4. CASE FindTypeFails(c)
  <2>1. ConsumerTypes'
    BY <1>4, RecordDoneTypes DEF FindTypeFails, Outcomes
  <2>2. QED
    BY <1>4, <2>1 DEF FindTypeFails, ConsumerTypes
<1> DEFINE r == cur[c]
<1>r. CASE pc[c] \in {"deduct", "create", "undo", "rollback", "unmark"}
  <2>0. /\ r \in Requests /\ TypeOf[r] \in TicketTypes /\ QuantityOf[r] \in Nat
        /\ UserOf[r] \in Users
    BY <1>r DEF InHand
  <2>1. CASE DeductStock(c)
    <3>1. ConsumerTypes'
      BY <2>0, <2>1, GoOnTypes DEF DeductStock, ConsumerSteps
    <3>2. dbStock' \in [TicketTypes -> Int]
      BY <2>0, <2>1 DEF DeductStock, UpdateStock
    <3>3. QED
      BY <2>1, <3>1, <3>2 DEF DeductStock, ConsumerTypes
  <2>2. CASE DeductRefused(c)
    <3>1. ConsumerTypes'
      BY <2>0, <2>2, GoOnTypes DEF DeductRefused, ConsumerSteps
    <3>2. dbStock' \in [TicketTypes -> Int] /\ faults' \in Nat
      BY <2>0, <2>2 DEF DeductRefused, UpdateStock
    <3>3. QED
      BY <2>2, <3>1, <3>2 DEF DeductRefused, ConsumerTypes
  <2>3. CASE CreateTicket(c)
    <3>1. ConsumerTypes'
      BY <2>3, RecordDoneTypes DEF CreateTicket, Outcomes
    <3>2. tickets' \in SUBSET Ticket
      BY <2>0, <2>3 DEF CreateTicket, Ticket
    <3>3. QED
      BY <2>3, <3>1, <3>2 DEF CreateTicket, ConsumerTypes
  <2>4. CASE CreateFails(c)
    <3>1. ConsumerTypes'
      BY <2>4, GoOnTypes DEF CreateFails, ConsumerSteps
    <3>2. tickets' \in SUBSET Ticket /\ faults' \in Nat
      BY <2>0, <2>4 DEF CreateFails, Ticket
    <3>3. QED
      BY <2>4, <3>1, <3>2 DEF CreateFails, ConsumerTypes
  <2>5. CASE UndoDeduction(c)
    <3>1. ConsumerTypes'
      BY <2>5, GoOnTypes DEF UndoDeduction, ConsumerSteps
    <3>2. dbStock' \in [TicketTypes -> Int] /\ faults' \in Nat
      BY <2>0, <2>5 DEF UndoDeduction, UpdateStock
    <3>3. QED
      BY <2>5, <3>1, <3>2 DEF UndoDeduction, ConsumerTypes
  <2>6. CASE RollbackRedis(c)
    <3>1. ConsumerTypes'
      BY <2>6, GoOnTypes DEF RollbackRedis, ConsumerSteps
    <3>2. /\ redisStock' \in [TicketTypes -> Int] /\ bought' \in SUBSET Users
          /\ faults' \in Nat
      BY <2>0, <2>6 DEF RollbackRedis, SeckillRollback
    <3>3. QED
      BY <2>6, <3>1, <3>2 DEF RollbackRedis, ConsumerTypes
  <2>7. CASE Unmark(c)
    <3>1. ConsumerTypes'
      <4>1. CASE top[c] = 0
        BY <2>7, <4>1, RecordDoneTypes DEF Unmark, Outcomes
      <4>2. CASE top[c] # 0
        <5>1. outcome[r] \cup {"failed"} \in SUBSET Outcomes
          BY <2>0 DEF Outcomes
        <5>2. outcome' = [outcome EXCEPT ![r] = outcome[r] \cup {"failed"}]
          BY <2>7, <4>2 DEF Unmark
        <5>3. outcome' \in [Requests -> SUBSET Outcomes]
          BY <5>1, <5>2
        <5>4. QED
          BY <2>7, <4>2, <5>3, AttemptFailedTypes DEF Unmark
      <4>3. QED
        BY <4>1, <4>2
    <3>2. key' \in [Requests -> BOOLEAN] /\ faults' \in Nat
      <4>1. \/ key' = [key EXCEPT ![r] = FALSE] /\ NoFault
            \/ UNCHANGED key /\ Fault("redis_error")
        BY <2>7 DEF Unmark
      <4>2. key' \in [Requests -> BOOLEAN]
        BY <4>1, key \in [Requests -> BOOLEAN]
      <4>3. faults' \in Nat
        BY <4>1
      <4>4. QED
        BY <4>2, <4>3
    <3>3. QED
      BY <2>7, <3>1, <3>2 DEF Unmark, ConsumerTypes
  <2>8. QED
    BY <1>r, <2>1, <2>2, <2>3, <2>4, <2>5, <2>6, <2>7, <1>1, <1>2, <1>3, <1>4 DEF Handle
<1>5. QED
  BY <1>1, <1>2, <1>3, <1>4, <1>r DEF Handle, DeductStock, DeductRefused,
     CreateTicket, CreateFails, UndoDeduction, RollbackRedis, Unmark

\* The consumer group keeps the types.
LEMMA GroupTypes ==
    ASSUME TypeOK, Group PROVE TypeOK'
<1> USE DEF TypeOK, ConsumerSteps, Fault, apiVars, redisVars, consumerVars, dbVars
<1>1. ASSUME NEW p \in Partitions, NEW c \in Consumers, Rebalance(p, c) PROVE TypeOK'
  BY <1>1 DEF Rebalance, Assign
<1>2. ASSUME NEW c \in Consumers, ConsumerCrash(c) PROVE TypeOK'
  BY <1>2 DEF ConsumerCrash
<1>3. QED
  BY <1>1, <1>2 DEF Group

-----------------------------------------------------------------------------
(* The log: what the group has polled and committed.                       *)

\* A consumer has records in hand only between a poll and the commit.
HandsInv ==
    /\ InHand
    /\ \A c \in Consumers : pc[c] \in {"poll", "next"} => cur[c] = NoRequest
    /\ \A c \in Consumers : pc[c] = "poll" => batch[c] = {}

\* Committed offsets are below polled ones, and those below the log's end.
OffsetsInv ==
    \A p \in Partitions : committed[p] <= position[p] /\ position[p] <= end[p]

\* A polled record has been handled or is in the hands of its partition's owner.
PolledInv ==
    \A r \in Requests :
        Published(r) /\ offset[r] <= position[Partition(r)]
            => \/ outcome[r] # {}
               \/ r \in batch[owner[Partition(r)]]
               \/ cur[owner[Partition(r)]] = r

LogInv == HandsInv /\ OffsetsInv /\ PolledInv /\ CommittedWasHandled

\* What LogInv speaks of.
logVars == <<offset, end, owner, position, committed, pc, batch, cur, outcome>>

\* Nothing is published, polled or committed at the start.
LEMMA LogInvInit == Init => LogInv
BY DEF Init, LogInv, HandsInv, InHand, OffsetsInv, PolledInv, CommittedWasHandled,
       Published, Partition

\* A step that leaves the log, the group and the consumers' records alone.
LEMMA LogInvUnchanged == LogInv /\ UNCHANGED logVars => LogInv'
BY DEF logVars, LogInv, HandsInv, InHand, OffsetsInv, PolledInv, CommittedWasHandled,
       Published, Partition

\* A published record lies above all that was polled.
LEMMA LogInvApi ==
    ASSUME TypeOK, LogInv, NEW r \in Requests, Api(r) PROVE LogInv'
<1>1. CASE UNCHANGED brokerVars
  <2>1. UNCHANGED logVars
    BY <1>1 DEF Api, RefusePurchase, ReserveTicket, ReserveFails, PublishTicket,
       PublishFails, RollbackReservation, ApiCrash, consumerVars, brokerVars, logVars
  <2>2. QED
    BY <2>1, LogInvUnchanged
<1>2. CASE AppendRecord(r) /\ UNCHANGED <<consumerVars, outcome>>
  <2>1. UNCHANGED <<owner, position, committed, pc, batch, cur, outcome>>
    BY <1>2 DEF AppendRecord, consumerVars
  <2> DEFINE p == Partition(r)
  <2>2. p \in Partitions
    BY DEF Partition
  <2>3. /\ end' = [end EXCEPT ![p] = @ + 1]
        /\ offset' = [offset EXCEPT ![r] = end[p] + 1]
    BY <1>2 DEF AppendRecord
  <2>4. OffsetsInv'
    BY <2>1, <2>2, <2>3 DEF LogInv, OffsetsInv, TypeOK
  <2>5. offset'[r] > position[p] /\ offset'[r] > committed[p]
    BY <2>2, <2>3 DEF LogInv, OffsetsInv, TypeOK
  <2>6. \A s \in Requests : s # r => offset'[s] = offset[s]
    BY <2>3 DEF TypeOK
  <2>7. \A s \in Requests : Partition(s) \in Partitions
    BY DEF Partition
  <2>8. PolledInv'
    <3> SUFFICES ASSUME NEW s \in Requests, offset'[s] > 0, offset'[s] <= position[Partition(s)]
                 PROVE  \/ outcome[s] # {}
                        \/ s \in batch[owner[Partition(s)]]
                        \/ cur[owner[Partition(s)]] = s
      BY <2>1 DEF PolledInv, Published, Partition
    <3>1. s # r
      BY <2>5, <2>7, <2>2, <2>3 DEF TypeOK
    <3>2. QED
      BY <2>6, <3>1 DEF LogInv, PolledInv, Published
  <2>9. CommittedWasHandled'
    <3> SUFFICES ASSUME NEW s \in Requests, offset'[s] > 0, offset'[s] <= committed[Partition(s)]
                 PROVE  outcome[s] # {}
      BY <2>1 DEF CommittedWasHandled, Published, Partition
    <3>1. s # r
      BY <2>5, <2>7, <2>2, <2>3 DEF TypeOK
    <3>2. QED
      BY <2>6, <3>1 DEF LogInv, CommittedWasHandled, Published
  <2>10. QED
    BY <2>1, <2>4, <2>8, <2>9 DEF LogInv, HandsInv, InHand
<1>3. QED
  BY <1>1, <1>2 DEF Api, RefusePurchase, ReserveTicket, ReserveFails, PublishTicket,
     PublishFails, RollbackReservation, ApiCrash

\* c ends its record: the record has been handled.
LEMMA LogInvRecordDone ==
    ASSUME TypeOK, LogInv, NEW c \in Consumers, NEW res \in Outcomes, cur[c] \in Requests,
           pc[c] \notin {"poll", "next"}, RecordDone(c, res), UNCHANGED brokerVars
    PROVE  LogInv'
<1>1. /\ pc' = [pc EXCEPT ![c] = "next"]
      /\ cur' = [cur EXCEPT ![c] = NoRequest]
      /\ UNCHANGED <<offset, end, owner, position, committed, batch>>
      /\ \A r \in Requests : outcome'[r] = IF r = cur[c] THEN outcome[r] \cup {res}
                                                        ELSE outcome[r]
  BY DEF RecordDone, TypeOK, brokerVars
<1>2. HandsInv'
  BY <1>1 DEF LogInv, HandsInv, InHand, TypeOK
<1>3. PolledInv'
  BY <1>1 DEF LogInv, PolledInv, TypeOK, Published, Partition
<1>4. CommittedWasHandled'
  BY <1>1 DEF LogInv, CommittedWasHandled, TypeOK, Published, Partition
<1>5. QED
  BY <1>1, <1>2, <1>3, <1>4 DEF LogInv, OffsetsInv

\* c goes on with its record, whose outcome can only grow.
LEMMA LogInvSameRecord ==
    ASSUME TypeOK, LogInv, NEW c \in Consumers, pc[c] \notin {"poll", "next"},
           NEW next \in ConsumerSteps \ {"poll", "next"},
           pc' = [pc EXCEPT ![c] = next], UNCHANGED <<batch, cur, brokerVars>>,
           \A r \in Requests : outcome[r] \subseteq outcome'[r]
    PROVE  LogInv'
<1>1. UNCHANGED <<offset, end, owner, position, committed>>
  BY DEF brokerVars
<1>2. HandsInv'
  BY DEF LogInv, HandsInv, InHand, TypeOK
<1>3. PolledInv'
  BY <1>1 DEF LogInv, PolledInv, TypeOK, Published, Partition
<1>4. CommittedWasHandled'
  BY <1>1 DEF LogInv, CommittedWasHandled, TypeOK, Published, Partition
<1>5. QED
  BY <1>1, <1>2, <1>3, <1>4 DEF LogInv, OffsetsInv

\* The consume loop: a poll hands out the records between the position and the
\* new one, and a commit covers only records whose handling has ended.
LEMMA LogInvConsume ==
    ASSUME TypeOK, LogInv, NEW c \in Consumers, Consume(c) PROVE LogInv'
<1>0. \A r \in Requests : Partition(r) \in Partitions
  BY DEF Partition
<1>1. CASE Poll(c)
  <2>1. PICK upto \in [Partitions -> 0 .. Cardinality(Requests)] :
          /\ \A p \in Partitions :
               IF owner[p] = c THEN upto[p] \in position[p] .. end[p]
                               ELSE upto[p] = position[p]
          /\ position' = upto
          /\ batch' = [batch EXCEPT ![c] =
                 {r \in Requests : /\ position[Partition(r)] < offset[r]
                                   /\ offset[r] <= upto[Partition(r)]}]
    BY <1>1 DEF Poll
  <2>2. /\ pc[c] = "poll" /\ pc' = [pc EXCEPT ![c] = "next"]
        /\ UNCHANGED <<offset, end, owner, committed, cur, outcome>>
    BY <1>1 DEF Poll
  <2>3. HandsInv'
    BY <2>1, <2>2 DEF LogInv, HandsInv, InHand, TypeOK
  <2>4. OffsetsInv'
    BY <2>1, <2>2 DEF LogInv, OffsetsInv, TypeOK
  <2>5. PolledInv'
    <3> SUFFICES ASSUME NEW r \in Requests, Published(r), outcome[r] = {},
                        offset[r] <= upto[Partition(r)]
                 PROVE  r \in batch'[owner[Partition(r)]] \/ cur[owner[Partition(r)]] = r
      BY <2>1, <2>2 DEF PolledInv, Published, Partition
    <3> DEFINE d == owner[Partition(r)]
    <3>1. d \in Consumers
      BY <1>0 DEF TypeOK
    <3>2. CASE offset[r] <= position[Partition(r)]
      <4>1. r \in batch[d] \/ cur[d] = r
        BY <3>2 DEF LogInv, PolledInv
      <4>2. d # c
        BY <2>2, <4>1 DEF LogInv, HandsInv
      <4>3. QED
        BY <2>1, <3>1, <4>1, <4>2 DEF TypeOK
    <3>3. CASE ~ (offset[r] <= position[Partition(r)])
      <4>1. position[Partition(r)] < offset[r]
        BY <1>0, <3>3 DEF TypeOK
      <4>2. d = c
        BY <1>0, <2>1, <4>1 DEF TypeOK
      <4>3. QED
        BY <2>1, <4>1, <4>2 DEF TypeOK
    <3>4. QED
      BY <3>2, <3>3
  <2>6. CommittedWasHandled'
    BY <2>2 DEF LogInv, CommittedWasHandled, Published, Partition
  <2>7. QED
    BY <2>3, <2>4, <2>5, <2>6 DEF LogInv
<1>2. CASE TakeRecord(c)
  <2>1. PICK r \in batch[c] : /\ cur' = [cur EXCEPT ![c] = r]
                              /\ batch' = [batch EXCEPT ![c] = @ \ {r}]
    BY <1>2 DEF TakeRecord
  <2>2. /\ pc[c] = "next" /\ pc' = [pc EXCEPT ![c] = "setnx"]
        /\ UNCHANGED <<offset, end, owner, position, committed, outcome>>
    BY <1>2 DEF TakeRecord, brokerVars
  <2>3. r \in Requests
    BY <2>1 DEF TypeOK
  <2>4. HandsInv'
    BY <2>1, <2>2, <2>3 DEF LogInv, HandsInv, InHand, TypeOK
  <2>5. PolledInv'
    <3> SUFFICES ASSUME NEW s \in Requests, Published(s), outcome[s] = {},
                        offset[s] <= position[Partition(s)]
                 PROVE  s \in batch'[owner[Partition(s)]] \/ cur'[owner[Partition(s)]] = s
      BY <2>2 DEF PolledInv, Published, Partition
    <3>1. s \in batch[owner[Partition(s)]] \/ cur[owner[Partition(s)]] = s
      BY DEF LogInv, PolledInv
    <3>2. cur[c] = NoRequest
      BY <2>2 DEF LogInv, HandsInv
    <3>3. owner[Partition(s)] \in Consumers
      BY <1>0 DEF TypeOK
    <3>4. QED
      BY <2>1, <3>1, <3>2, <3>3 DEF TypeOK
  <2>6. CommittedWasHandled'
    BY <2>2 DEF LogInv, CommittedWasHandled, Published, Partition
  <2>7. QED
    BY <2>2, <2>4, <2>5, <2>6 DEF LogInv, OffsetsInv
<1>3. CASE CommitBatch(c)
  <2>1. /\ pc[c] = "next" /\ batch[c] = {} /\ pc' = [pc EXCEPT ![c] = "poll"]
        /\ UNCHANGED <<offset, end, owner, position, batch, cur, outcome>>
    BY <1>3 DEF CommitBatch
  <2>2. \/ UNCHANGED committed
        \/ committed' = [p \in Partitions |-> IF owner[p] = c THEN position[p]
                                                             ELSE committed[p]]
    BY <1>3 DEF CommitBatch
  <2>3. HandsInv'
    BY <2>1 DEF LogInv, HandsInv, InHand, TypeOK
  <2>4. OffsetsInv'
    <3>1. CASE UNCHANGED committed
      BY <2>1, <3>1 DEF LogInv, OffsetsInv
    <3>2. CASE committed' = [p \in Partitions |-> IF owner[p] = c THEN position[p]
                                                                ELSE committed[p]]
      BY <2>1, <3>2 DEF LogInv, OffsetsInv, TypeOK
    <3>3. QED
      BY <2>2, <3>1, <3>2
  <2>5. PolledInv'
    BY <2>1 DEF LogInv, PolledInv, Published, Partition
  <2>6. CommittedWasHandled'
    <3> SUFFICES ASSUME NEW r \in Requests, Published(r),
                        offset[r] <= committed'[Partition(r)]
                 PROVE  outcome[r] # {}
      BY <2>1 DEF CommittedWasHandled, Published, Partition
    <3>1. CASE offset[r] <= committed[Partition(r)]
      BY <3>1 DEF LogInv, CommittedWasHandled
    <3>2. CASE ~ (offset[r] <= committed[Partition(r)])
      <4>1. owner[Partition(r)] = c /\ offset[r] <= position[Partition(r)]
        BY <1>0, <2>2, <3>2
      <4>2. cur[c] = NoRequest
        BY <2>1 DEF LogInv, HandsInv
      <4>3. QED
        BY <2>1, <4>1, <4>2 DEF LogInv, PolledInv
    <3>3. QED
      BY <3>1, <3>2
  <2>7. QED
    BY <2>3, <2>4, <2>5, <2>6 DEF LogInv
<1>4. CASE DeadLetter(c)
  <2>1. pc[c] = "dlq" /\ cur[c] \in Requests /\ UNCHANGED brokerVars
    BY <1>4 DEF DeadLetter, LogInv, HandsInv, InHand
  <2>2. QED
    BY <1>4, <2>1, LogInvRecordDone DEF DeadLetter, Outcomes
<1>5. QED
  BY <1>1, <1>2, <1>3, <1>4 DEF Consume

\* handleMessage goes on with its record, retries it, or ends it.
LEMMA LogInvHandle ==
    ASSUME TypeOK, LogInv, NEW c \in Consumers, Handle(c) PROVE LogInv'
<1>1. UNCHANGED brokerVars
  BY DEF Handle, MarkProcessed, SkipDuplicate, MarkFails, FindTypeFails, DeductStock,
     DeductRefused, CreateTicket, CreateFails, UndoDeduction, RollbackRedis, Unmark
<1>2. pc[c] \notin {"poll", "next"} /\ cur[c] \in Requests
  BY DEF Handle, MarkProcessed, SkipDuplicate, MarkFails, FindTypeFails, DeductStock,
     DeductRefused, CreateTicket, CreateFails, UndoDeduction, RollbackRedis, Unmark,
     LogInv, HandsInv, InHand
<1>3. CASE \E res \in Outcomes : RecordDone(c, res)
  BY <1>1, <1>2, <1>3, LogInvRecordDone
<1>4. CASE (\E next \in ConsumerSteps \ {"poll", "next"} : GoOn(c, next)) /\ UNCHANGED outcome
  BY <1>1, <1>2, <1>4, LogInvSameRecord DEF GoOn
<1>5. CASE AttemptFailed(c) /\ \A r \in Requests : outcome[r] \subseteq outcome'[r]
  <2>1. PICK next \in ConsumerSteps \ {"poll", "next"} : pc' = [pc EXCEPT ![c] = next]
    <3>1. {"setnx", "dlq"} \subseteq ConsumerSteps \ {"poll", "next"}
      BY DEF ConsumerSteps
    <3>2. CASE attempt[c] + 1 < MaxRetries
      BY <1>5, <3>1, <3>2 DEF AttemptFailed
    <3>3. CASE ~ (attempt[c] + 1 < MaxRetries)
      BY <1>5, <3>1, <3>3 DEF AttemptFailed
    <3>4. QED
      BY <3>2, <3>3
  <2>2. UNCHANGED <<batch, cur>>
    BY <1>5 DEF AttemptFailed
  <2>3. QED
    BY <1>1, <1>2, <1>5, <2>1, <2>2, LogInvSameRecord
<1>6. CASE SkipDuplicate(c) \/ FindTypeFails(c) \/ CreateTicket(c)
  BY <1>3, <1>6 DEF SkipDuplicate, FindTypeFails, CreateTicket, Outcomes
<1>7. CASE \/ MarkProcessed(c) \/ DeductStock(c) \/ DeductRefused(c) \/ CreateFails(c)
           \/ UndoDeduction(c) \/ RollbackRedis(c)
  BY <1>4, <1>7 DEF MarkProcessed, DeductStock, DeductRefused, CreateFails,
     UndoDeduction, RollbackRedis, ConsumerSteps
<1>8. CASE MarkFails(c)
  BY <1>5, <1>8 DEF MarkFails
<1>9. CASE Unmark(c)
  <2>1. CASE top[c] = 0
    BY <1>3, <1>9, <2>1 DEF Unmark, Outcomes
  <2>2. CASE top[c] # 0
    <3>1. outcome' = [outcome EXCEPT ![cur[c]] = outcome[cur[c]] \cup {"failed"}]
      BY <1>9, <2>2 DEF Unmark
    <3>2. \A r \in Requests : outcome[r] \subseteq outcome'[r]
      BY <3>1 DEF TypeOK
    <3>3. QED
      BY <1>5, <1>9, <2>2, <3>2 DEF Unmark
  <2>3. QED
    BY <2>1, <2>2
<1>10. QED
  BY <1>6, <1>7, <1>8, <1>9 DEF Handle

\* A partition that changes hands is polled again from the committed offset.
LEMMA LogInvGroup ==
    ASSUME TypeOK, LogInv, Group PROVE LogInv'
<1>0. \A r \in Requests : Partition(r) \in Partitions
  BY DEF Partition
<1>1. ASSUME NEW p \in Partitions, NEW c \in Consumers, Rebalance(p, c) PROVE LogInv'
  <2>1. /\ owner' = [owner EXCEPT ![p] = c]
        /\ position' = [position EXCEPT ![p] = committed[p]]
        /\ UNCHANGED <<offset, end, committed, pc, batch, cur, outcome>>
    BY <1>1 DEF Rebalance, Assign, consumerVars
  <2>2. OffsetsInv'
    BY <2>1 DEF LogInv, OffsetsInv, TypeOK
  <2>3. CommittedWasHandled'
    BY <2>1 DEF LogInv, CommittedWasHandled, Published, Partition
  <2>4. PolledInv'
    <3> SUFFICES ASSUME NEW r \in Requests, Published(r), outcome[r] = {},
                        offset[r] <= position'[Partition(r)]
                 PROVE  r \in batch[owner'[Partition(r)]] \/ cur[owner'[Partition(r)]] = r
      BY <2>1 DEF PolledInv, Published, Partition
    <3>1. Partition(r) # p
      BY <2>1 DEF LogInv, CommittedWasHandled, TypeOK
    <3>2. QED
      BY <1>0, <2>1, <3>1 DEF LogInv, PolledInv, TypeOK
  <2>5. QED
    BY <2>1, <2>2, <2>3, <2>4 DEF LogInv, HandsInv, InHand
<1>2. ASSUME NEW c \in Consumers, ConsumerCrash(c) PROVE LogInv'
  <2>1. /\ pc' = [pc EXCEPT ![c] = "poll"]
        /\ batch' = [batch EXCEPT ![c] = {}]
        /\ cur' = [cur EXCEPT ![c] = NoRequest]
        /\ position' = [p \in Partitions |-> IF owner[p] = c THEN committed[p]
                                                            ELSE position[p]]
        /\ UNCHANGED <<offset, end, owner, committed, outcome>>
    BY <1>2 DEF ConsumerCrash
  <2>2. OffsetsInv'
    BY <2>1 DEF LogInv, OffsetsInv, TypeOK
  <2>3. CommittedWasHandled'
    BY <2>1 DEF LogInv, CommittedWasHandled, Published, Partition
  <2>4. PolledInv'
    <3> SUFFICES ASSUME NEW r \in Requests, Published(r), outcome[r] = {},
                        offset[r] <= position'[Partition(r)]
                 PROVE  r \in batch'[owner[Partition(r)]] \/ cur'[owner[Partition(r)]] = r
      BY <2>1 DEF PolledInv, Published, Partition
    <3>1. owner[Partition(r)] # c
      BY <1>0, <2>1 DEF LogInv, CommittedWasHandled, TypeOK
    <3>2. QED
      BY <1>0, <2>1, <3>1 DEF LogInv, PolledInv, TypeOK
  <2>5. HandsInv'
    BY <2>1 DEF LogInv, HandsInv, InHand, TypeOK
  <2>6. QED
    BY <2>2, <2>3, <2>4, <2>5 DEF LogInv
<1>3. QED
  BY <1>1, <1>2 DEF Group

\* Every step keeps the types and the consistency of log and consumers.
LEMMA LogInvNext == TypeOK /\ LogInv /\ [Next]_vars => LogInv' /\ TypeOK'
<1> SUFFICES ASSUME TypeOK, LogInv, [Next]_vars PROVE LogInv' /\ TypeOK'
  OBVIOUS
<1>1. ASSUME NEW r \in Requests, Api(r) PROVE LogInv' /\ TypeOK'
  BY <1>1, LogInvApi, ApiTypes
<1>2. ASSUME NEW c \in Consumers, Consume(c) PROVE LogInv' /\ TypeOK'
  BY <1>2, LogInvConsume, ConsumeTypes
<1>3. ASSUME NEW c \in Consumers, Handle(c) PROVE LogInv' /\ TypeOK'
  BY <1>3, LogInvHandle, HandleTypes DEF LogInv, HandsInv
<1>4. CASE Group
  BY <1>4, LogInvGroup, GroupTypes
<1>5. CASE UNCHANGED vars
  <2>1. UNCHANGED logVars
    BY <1>5 DEF vars, logVars
  <2>2. QED
    BY <1>5, <2>1, LogInvUnchanged DEF vars, TypeOK
<1>6. QED
  BY <1>1, <1>2, <1>3, <1>4, <1>5 DEF Next

\* The initial state is well typed.
LEMMA TypeInit == Init => TypeOK
BY DEF Init, TypeOK, CallStates, ConsumerSteps, Ticket

\* Every variable keeps its type, and the consumers' hands and the group's
\* offsets stay consistent.
THEOREM Typing == Spec => [](TypeOK /\ LogInv)
<1>1. Init => TypeOK /\ LogInv
  BY TypeInit, LogInvInit
<1>2. TypeOK /\ LogInv /\ [Next]_vars => (TypeOK /\ LogInv)'
  BY LogInvNext
<1>3. QED
  BY <1>1, <1>2, PTL DEF Spec

\* The consumer loop delivers at least once: no crash, rebalance or failed
\* commit lets the group commit past a record whose handling has not ended.
THEOREM AtLeastOnce == Spec => []CommittedWasHandled
<1>1. LogInv => CommittedWasHandled
  BY DEF LogInv
<1>2. QED
  BY <1>1, Typing, PTL

-----------------------------------------------------------------------------
(* The key: who may turn a request into a ticket.                          *)

Holding == {"deduct", "create", "undo", "rollback", "unmark"}

\* c is past SetNX for r and has not deleted the key again.
Holds(c, r) == cur[c] = r /\ pc[c] \in Holding

\* One consumer at a time is past SetNX for a request, the key is set while it
\* is, and stays set once the request has a ticket.
KeyInv ==
    /\ \A c, d \in Consumers, r \in Requests : Holds(c, r) /\ Holds(d, r) => c = d
    /\ \A c \in Consumers, r \in Requests : Holds(c, r) => key[r]
    /\ \A x \in tickets : key[x.req] /\ \A c \in Consumers : ~ Holds(c, x.req)
    /\ AtMostOneTicketPerRequest

\* At the start no consumer handles a message and there is no ticket.
LEMMA KeyInvInit == Init => KeyInv
BY DEF Init, KeyInv, Holds, Holding, AtMostOneTicketPerRequest

\* A step that creates no ticket, deletes no key and takes no consumer past
\* SetNX keeps the invariant.
LEMMA KeyInvQuiet ==
    ASSUME KeyInv, UNCHANGED tickets,
           \A r \in Requests : key[r] => key'[r],
           \A c \in Consumers : pc'[c] \in Holding => pc[c] \in Holding /\ cur'[c] = cur[c],
           TypeOK
    PROVE  KeyInv'
<1>1. \A c \in Consumers, r \in Requests : Holds(c, r)' => Holds(c, r)
  BY DEF Holds
<1>2. \A x \in tickets : x.req \in Requests
  BY DEF TypeOK, Ticket
<1>3. QED
  BY <1>1, <1>2 DEF KeyInv, AtMostOneTicketPerRequest

\* SetNX lets a consumer in only when nobody holds the key and there is no
\* ticket; the key is deleted only by its holder, who has not created one.
LEMMA KeyInvNext ==
    ASSUME "db_lost_reply" \notin Faults, TypeOK, LogInv, KeyInv, [Next]_vars
    PROVE  KeyInv'
<1> USE DEF Holding
<1>1. ASSUME NEW r \in Requests, Api(r) PROVE KeyInv'
  <2>1. UNCHANGED <<tickets, key, pc, cur>>
    BY <1>1 DEF Api, RefusePurchase, ReserveTicket, ReserveFails, PublishTicket,
       PublishFails, RollbackReservation, ApiCrash, consumerVars, dbVars
  <2>2. QED
    BY <2>1, KeyInvQuiet
<1>2. ASSUME NEW c \in Consumers, Consume(c) PROVE KeyInv'
  <2>1. UNCHANGED <<tickets, key>>
    BY <1>2 DEF Consume, Poll, TakeRecord, CommitBatch, DeadLetter, dbVars
  <2>2. \A d \in Consumers : pc'[d] \in Holding => pc[d] \in Holding /\ cur'[d] = cur[d]
    BY <1>2 DEF Consume, Poll, TakeRecord, CommitBatch, DeadLetter, RecordDone, TypeOK
  <2>3. QED
    BY <2>1, <2>2, KeyInvQuiet
<1>3. CASE Group
  <2>1. UNCHANGED <<tickets, key>>
    BY <1>3 DEF Group, Rebalance, ConsumerCrash, dbVars
  <2>2. \A d \in Consumers : pc'[d] \in Holding => pc[d] \in Holding /\ cur'[d] = cur[d]
    BY <1>3 DEF Group, Rebalance, ConsumerCrash, consumerVars, TypeOK
  <2>3. QED
    BY <2>1, <2>2, KeyInvQuiet
<1>4. ASSUME NEW c \in Consumers, Handle(c) PROVE KeyInv'
  <2>0. PICK r \in Requests : r = cur[c]
    BY <1>4 DEF Handle, MarkProcessed, SkipDuplicate, MarkFails, FindTypeFails,
       DeductStock, DeductRefused, CreateTicket, CreateFails, UndoDeduction,
       RollbackRedis, Unmark, LogInv, HandsInv, InHand
  <2>1. CASE MarkProcessed(c)
    <3>1. /\ ~ key[r] /\ key' = [key EXCEPT ![r] = TRUE] /\ UNCHANGED <<cur, tickets>>
          /\ pc' = [pc EXCEPT ![c] = "deduct"]
      BY <2>0, <2>1 DEF MarkProcessed, GoOn, dbVars
    <3>2. \A d \in Consumers, s \in Requests :
             Holds(d, s)' => Holds(d, s) \/ (d = c /\ s = r)
      BY <2>0, <3>1 DEF Holds, TypeOK
    <3>3. \A d \in Consumers : ~ Holds(d, r)
      BY <2>0, <3>1 DEF KeyInv
    <3>4. \A x \in tickets : x.req \in Requests /\ x.req # r
      BY <3>1 DEF KeyInv, TypeOK, Ticket
    <3>5. \A s \in Requests : key'[s] = (key[s] \/ s = r)
      BY <2>0, <3>1 DEF TypeOK
    <3>6. AtMostOneTicketPerRequest'
      BY <3>1 DEF KeyInv, AtMostOneTicketPerRequest
    <3>7. \A d, e \in Consumers, s \in Requests : Holds(d, s)' /\ Holds(e, s)' => d = e
      BY <3>2, <3>3 DEF KeyInv
    <3>8. \A d \in Consumers, s \in Requests : Holds(d, s)' => key'[s]
      BY <3>2, <3>5 DEF KeyInv
    <3>9. ASSUME NEW x \in tickets
          PROVE  key'[x.req] /\ \A d \in Consumers : ~ Holds(d, x.req)'
      <4>1. key[x.req] /\ \A d \in Consumers : ~ Holds(d, x.req)
        BY DEF KeyInv
      <4>2. PICK s \in Requests : s = x.req /\ s # r
        BY <3>4
      <4>3. key'[s]
        BY <3>5, <4>1, <4>2
      <4>4. \A d \in Consumers : ~ Holds(d, s)'
        BY <3>2, <4>1, <4>2
      <4>5. QED
        BY <4>2, <4>3, <4>4 DEF Holds
    <3>10. QED
      BY <3>1, <3>6, <3>7, <3>8, <3>9 DEF KeyInv
  <2>2. CASE SkipDuplicate(c) \/ FindTypeFails(c)
    <3>1. /\ UNCHANGED <<tickets, key>>
          /\ pc' = [pc EXCEPT ![c] = "next"] /\ cur' = [cur EXCEPT ![c] = NoRequest]
      BY <2>2 DEF SkipDuplicate, FindTypeFails, RecordDone, dbVars
    <3>2. \A d \in Consumers : pc'[d] \in Holding => pc[d] \in Holding /\ cur'[d] = cur[d]
      BY <3>1 DEF TypeOK
    <3>3. QED
      BY <3>1, <3>2, KeyInvQuiet
  <2>3. CASE MarkFails(c)
    <3>1. /\ UNCHANGED <<tickets, cur>>
          /\ \E step \in {"setnx", "dlq"} : pc' = [pc EXCEPT ![c] = step]
      <4>1. CASE attempt[c] + 1 < MaxRetries
        BY <2>3, <4>1 DEF MarkFails, AttemptFailed, dbVars
      <4>2. CASE ~ (attempt[c] + 1 < MaxRetries)
        BY <2>3, <4>2 DEF MarkFails, AttemptFailed, dbVars
      <4>3. QED
        BY <4>1, <4>2
    <3>2. \A d \in Consumers : pc'[d] \in Holding => pc[d] \in Holding /\ cur'[d] = cur[d]
      BY <3>1 DEF TypeOK
    <3>3. UNCHANGED key \/ key' = [key EXCEPT ![r] = TRUE]
      BY <2>0, <2>3 DEF MarkFails
    <3>4. \A s \in Requests : key[s] => key'[s]
      BY <3>3 DEF TypeOK
    <3>5. QED
      BY <3>1, <3>2, <3>4, KeyInvQuiet
  <2>4. CASE DeductStock(c) \/ DeductRefused(c) \/ UndoDeduction(c) \/ RollbackRedis(c)
             \/ CreateFails(c)
    <3>1. pc[c] \in Holding /\ UNCHANGED <<key, cur>> /\ UNCHANGED tickets
      BY <2>4 DEF DeductStock, DeductRefused, UndoDeduction, RollbackRedis, CreateFails,
         GoOn, dbVars, Fault
    <3>2. \E step \in Holding : pc' = [pc EXCEPT ![c] = step]
      BY <2>4 DEF DeductStock, DeductRefused, UndoDeduction, RollbackRedis, CreateFails, GoOn
    <3>3. QED
      BY <3>1, <3>2, KeyInvQuiet DEF TypeOK
  <2>5. CASE CreateTicket(c)
    <3>0. PICK x \in Ticket : x = [req |-> r, top |-> top[c]]
      BY <2>0 DEF Ticket, TypeOK
    <3>1. /\ tickets' = tickets \cup {x} /\ UNCHANGED key
          /\ pc[c] = "create" /\ pc' = [pc EXCEPT ![c] = "next"]
          /\ cur' = [cur EXCEPT ![c] = NoRequest]
      BY <2>0, <3>0, <2>5 DEF CreateTicket, RecordDone
    <3>2. Holds(c, r)
      BY <2>0, <3>1 DEF Holds
    <3>3. \A y \in tickets : y.req \in Requests /\ y.req # r
      BY <3>2 DEF KeyInv, TypeOK, Ticket
    <3>4. \A d \in Consumers, s \in Requests : Holds(d, s)' => Holds(d, s) /\ d # c
      BY <3>1 DEF Holds, TypeOK
    <3>5. \A d \in Consumers : ~ Holds(d, r)'
      BY <2>0, <3>2, <3>4 DEF KeyInv
    <3>6. key[r]
      BY <2>0, <3>2 DEF KeyInv
    <3>7. x.req = r
      BY <3>0
    <3>8. AtMostOneTicketPerRequest'
      BY <3>1, <3>3, <3>7 DEF AtMostOneTicketPerRequest, KeyInv
    <3>9. \A y \in tickets' : key'[y.req] /\ \A d \in Consumers : ~ Holds(d, y.req)'
      BY <3>1, <3>3, <3>4, <3>5, <3>6, <3>7 DEF KeyInv
    <3>10. QED
      BY <3>1, <3>4, <3>8, <3>9 DEF KeyInv
  <2>6. CASE Unmark(c)
    <3>1. pc[c] = "unmark" /\ UNCHANGED tickets
      BY <2>6 DEF Unmark, dbVars
    <3>2. /\ pc'[c] \notin Holding
          /\ \A d \in Consumers : d # c => pc'[d] = pc[d] /\ cur'[d] = cur[d]
      <4>1. CASE top[c] = 0
        BY <2>6, <4>1 DEF Unmark, RecordDone, TypeOK
      <4>2. CASE top[c] # 0
        BY <2>6, <4>2 DEF Unmark, AttemptFailed, TypeOK
      <4>3. QED
        BY <4>1, <4>2
    <3>3. key' = [key EXCEPT ![r] = FALSE] \/ UNCHANGED key
      BY <2>0, <2>6 DEF Unmark
    <3>4. Holds(c, r)
      BY <2>0, <3>1 DEF Holds
    <3>5. \A d \in Consumers, s \in Requests : Holds(d, s)' => Holds(d, s) /\ d # c /\ s # r
      BY <2>0, <3>2, <3>4 DEF Holds, KeyInv
    <3>6. \A s \in Requests : s # r => key'[s] = key[s]
      BY <3>3 DEF TypeOK
    <3>7. \A x \in tickets : x.req \in Requests /\ x.req # r
      BY <3>4 DEF KeyInv, TypeOK, Ticket
    <3>8. QED
      BY <3>1, <3>5, <3>6, <3>7 DEF KeyInv, AtMostOneTicketPerRequest
  <2>7. QED
    BY <1>4, <2>1, <2>2, <2>3, <2>4, <2>5, <2>6 DEF Handle
<1>5. CASE UNCHANGED vars
  BY <1>5, KeyInvQuiet DEF vars
<1>6. QED
  BY <1>1, <1>2, <1>3, <1>4, <1>5 DEF Next

\* Unless the reply to a committed INSERT is lost, no request becomes two
\* tickets, whatever else fails and however often it is delivered.
THEOREM AtMostOnce ==
    ASSUME "db_lost_reply" \notin Faults
    PROVE  Spec => []AtMostOneTicketPerRequest
<1>1. Init => KeyInv
  BY KeyInvInit
<1>2. TypeOK /\ LogInv /\ KeyInv /\ [Next]_vars => KeyInv'
  BY KeyInvNext
<1>3. KeyInv => AtMostOneTicketPerRequest
  BY DEF KeyInv
<1>4. QED
  BY <1>1, <1>2, <1>3, Typing, PTL DEF Spec

-----------------------------------------------------------------------------
(* The stock: which units are taken.                                       *)

\* The units a - QuantityOf[r] + 1 .. a of r's type are units of the initial
\* stock and lie above what is left of it.
Above(r, a) ==
    /\ a <= InitialStock[TypeOf[r]]
    /\ dbStock[TypeOf[r]] <= a - QuantityOf[r]
    /\ 0 <= a - QuantityOf[r]

\* The units a request r takes below a, and those s takes below b, differ.
Apart(r, a, s, b) ==
    TypeOf[r] = TypeOf[s] => a <= b - QuantityOf[s] \/ b <= a - QuantityOf[r]

\* The stock only ever sinks, and the units sold and those about to be sold
\* are distinct units above it.
StockInv ==
    /\ \A t \in TicketTypes : dbStock[t] <= InitialStock[t]
    /\ \A x \in tickets : Above(x.req, x.top)
    /\ \A c \in Consumers : pc[c] = "create" => Above(cur[c], top[c])
    /\ \A x, y \in tickets : x # y => Apart(x.req, x.top, y.req, y.top)
    /\ \A c \in Consumers, x \in tickets :
          pc[c] = "create" => Apart(cur[c], top[c], x.req, x.top)
    /\ \A c, d \in Consumers :
          c # d /\ pc[c] = "create" /\ pc[d] = "create"
              => Apart(cur[c], top[c], cur[d], top[d])

\* At the start the whole stock is in the database.
LEMMA StockInvInit == Init => StockInv
BY DEF Init, StockInv

\* A step that takes no units, sells none and starts no creation keeps the
\* invariant.
LEMMA StockInvQuiet ==
    ASSUME StockInv, UNCHANGED <<dbStock, tickets>>,
           \A c \in Consumers : pc'[c] = "create" =>
               pc[c] = "create" /\ cur'[c] = cur[c] /\ top'[c] = top[c]
    PROVE  StockInv'
BY DEF StockInv, Above, Apart

\* A step that only takes units away.
LEMMA StockInvSink ==
    ASSUME StockInv, TypeOK, InHand, UNCHANGED tickets,
           dbStock' \in [TicketTypes -> Int],
           \A t \in TicketTypes : dbStock'[t] <= dbStock[t],
           \A c \in Consumers : pc'[c] = "create" =>
               pc[c] = "create" /\ cur'[c] = cur[c] /\ top'[c] = top[c]
    PROVE  StockInv'
<1>1. \A x \in tickets : TypeOf[x.req] \in TicketTypes /\ x.req \in Requests /\ x.top \in Int
  BY DEF TypeOK, Ticket
<1>2. \A c \in Consumers : pc[c] = "create" => cur[c] \in Requests /\ top[c] \in Int
  BY DEF TypeOK, InHand
<1>3. \A r \in Requests, a \in Int : Above(r, a) =>
         /\ a <= InitialStock[TypeOf[r]]
         /\ dbStock'[TypeOf[r]] <= a - QuantityOf[r]
         /\ 0 <= a - QuantityOf[r]
  BY DEF Above, TypeOK
<1>4. \A t \in TicketTypes : dbStock'[t] <= InitialStock[t]
  BY DEF StockInv, TypeOK
<1>5. \A x \in tickets' : Above(x.req, x.top)'
  BY <1>1, <1>3 DEF StockInv, Above
<1>6. \A c \in Consumers : pc'[c] = "create" => Above(cur[c], top[c])'
  BY <1>2, <1>3 DEF StockInv, Above
<1>7. QED
  BY <1>4, <1>5, <1>6 DEF StockInv, Apart

\* A guarded deduction takes the units on top of the stock, which lie below
\* every unit sold or being sold; every other write only lowers the stock.
LEMMA StockInvNext ==
    ASSUME TypeOK, LogInv, StockInv, [Next]_vars PROVE StockInv'
<1>0. InHand
  BY DEF LogInv, HandsInv
<1>1. ASSUME NEW r \in Requests, Api(r) PROVE StockInv'
  <2>1. UNCHANGED <<dbStock, tickets, pc, cur, top>>
    BY <1>1 DEF Api, RefusePurchase, ReserveTicket, ReserveFails, PublishTicket,
       PublishFails, RollbackReservation, ApiCrash, consumerVars, dbVars
  <2>2. QED
    BY <2>1, StockInvQuiet
<1>2. ASSUME NEW c \in Consumers, Consume(c) PROVE StockInv'
  <2>1. UNCHANGED <<dbStock, tickets>>
    BY <1>2 DEF Consume, Poll, TakeRecord, CommitBatch, DeadLetter, dbVars
  <2>2. \A d \in Consumers : pc'[d] = "create" =>
            pc[d] = "create" /\ cur'[d] = cur[d] /\ top'[d] = top[d]
    BY <1>2 DEF Consume, Poll, TakeRecord, CommitBatch, DeadLetter, RecordDone, TypeOK
  <2>3. QED
    BY <2>1, <2>2, StockInvQuiet
<1>3. CASE Group
  <2>1. UNCHANGED <<dbStock, tickets>>
    BY <1>3 DEF Group, Rebalance, ConsumerCrash, dbVars
  <2>2. \A d \in Consumers : pc'[d] = "create" =>
            pc[d] = "create" /\ cur'[d] = cur[d] /\ top'[d] = top[d]
    BY <1>3 DEF Group, Rebalance, ConsumerCrash, consumerVars, TypeOK
  <2>3. QED
    BY <2>1, <2>2, StockInvQuiet
<1>4. ASSUME NEW c \in Consumers, Handle(c) PROVE StockInv'
  <2>0. PICK r \in Requests : r = cur[c]
    BY <1>0, <1>4 DEF Handle, MarkProcessed, SkipDuplicate, MarkFails, FindTypeFails,
       DeductStock, DeductRefused, CreateTicket, CreateFails, UndoDeduction,
       RollbackRedis, Unmark, InHand
  <2> DEFINE t == TypeOf[r]
             q == QuantityOf[r]
  <2>t. t \in TicketTypes /\ q \in Nat \ {0}
    OBVIOUS
  <2>1. CASE MarkProcessed(c) \/ SkipDuplicate(c) \/ MarkFails(c) \/ FindTypeFails(c)
             \/ RollbackRedis(c) \/ Unmark(c)
    <3>1. UNCHANGED <<dbStock, tickets>>
      BY <2>1 DEF MarkProcessed, SkipDuplicate, MarkFails, FindTypeFails, RollbackRedis,
         Unmark, dbVars
    <3>2. pc'[c] # "create" /\ \A d \in Consumers : d # c =>
              pc'[d] = pc[d] /\ cur'[d] = cur[d] /\ top'[d] = top[d]
      BY <2>1 DEF MarkProcessed, SkipDuplicate, MarkFails, FindTypeFails, RollbackRedis,
         Unmark, GoOn, RecordDone, AttemptFailed, TypeOK
    <3>3. QED
      BY <3>1, <3>2, StockInvQuiet
  <2>2. CASE DeductRefused(c) \/ UndoDeduction(c)
    <3>1. /\ pc' = [pc EXCEPT ![c] = "rollback"] /\ UNCHANGED <<cur, top>>
          /\ UNCHANGED tickets
      BY <2>2 DEF DeductRefused, UndoDeduction, GoOn
    <3>2. UNCHANGED dbStock \/ dbStock' = [dbStock EXCEPT ![t] = @ - q]
      BY <2>0, <2>2 DEF DeductRefused, UndoDeduction, UpdateStock
    <3>3. dbStock' \in [TicketTypes -> Int] /\ \A u \in TicketTypes : dbStock'[u] <= dbStock[u]
      BY <2>t, <3>2 DEF TypeOK
    <3>4. \A d \in Consumers : pc'[d] = "create" => pc[d] = "create"
      BY <3>1 DEF TypeOK
    <3>5. QED
      BY <1>0, <3>1, <3>3, <3>4, StockInvSink
  <2>3. CASE DeductStock(c)
    <3>1. /\ dbStock[t] >= q /\ dbStock' = [dbStock EXCEPT ![t] = @ - q]
          /\ top' = [top EXCEPT ![c] = dbStock[t]]
          /\ pc' = [pc EXCEPT ![c] = "create"] /\ UNCHANGED <<cur, tickets>>
      BY <2>0, <2>3 DEF DeductStock, EnoughStock, UpdateStock, GoOn
    <3>2. /\ \A d \in Consumers : d # c => pc'[d] = pc[d] /\ top'[d] = top[d]
          /\ pc'[c] = "create" /\ top'[c] = dbStock[t] /\ dbStock[t] \in Int
          /\ dbStock'[t] = dbStock[t] - q
          /\ \A u \in TicketTypes : u # t => dbStock'[u] = dbStock[u]
      BY <2>t, <3>1 DEF TypeOK
    <3>3. \A s \in Requests, a \in Int : Above(s, a) =>
             /\ a <= InitialStock[TypeOf[s]]
             /\ dbStock'[TypeOf[s]] <= a - QuantityOf[s]
             /\ 0 <= a - QuantityOf[s]
      BY <2>t, <3>2 DEF Above, TypeOK
    <3>4. \A s \in Requests, a \in Int : Above(s, a) =>
             Apart(r, dbStock[t], s, a) /\ Apart(s, a, r, dbStock[t])
      BY <2>t, <3>2 DEF Above, Apart
    <3>5. \A x \in tickets : x.req \in Requests /\ x.top \in Int
      BY DEF TypeOK, Ticket
    <3>6. \A d \in Consumers : pc[d] = "create" => cur[d] \in Requests /\ top[d] \in Int
      BY <1>0 DEF TypeOK, InHand
    <3>7. ASSUME NEW u \in TicketTypes PROVE dbStock'[u] <= InitialStock[u]
      <4>1. dbStock[u] \in Int /\ InitialStock[u] \in Int /\ dbStock[u] <= InitialStock[u]
        BY DEF StockInv, TypeOK
      <4>2. CASE u = t
        BY <2>t, <3>2, <4>1, <4>2
      <4>3. CASE u # t
        BY <3>2, <4>1, <4>3
      <4>4. QED
        BY <4>2, <4>3
    <3>8. \A x \in tickets : Above(x.req, x.top)'
      BY <3>1, <3>3, <3>5 DEF StockInv, Above
    <3>9. \A d \in Consumers : pc'[d] = "create" => Above(cur[d], top[d])'
      <4>1. Above(cur[c], top[c])'
        BY <2>0, <2>t, <3>1, <3>2 DEF Above, StockInv
      <4>2. ASSUME NEW d \in Consumers, d # c, pc'[d] = "create" PROVE Above(cur[d], top[d])'
        BY <3>1, <3>2, <3>3, <3>6, <4>2 DEF StockInv, Above
      <4>3. QED
        BY <4>1, <4>2
    <3>10. \A d \in Consumers, x \in tickets :
              pc'[d] = "create" => Apart(cur[d], top'[d], x.req, x.top)
      BY <2>0, <3>2, <3>4, <3>5 DEF StockInv
    <3>11. \A d, e \in Consumers :
              d # e /\ pc'[d] = "create" /\ pc'[e] = "create"
                  => Apart(cur[d], top'[d], cur[e], top'[e])
      BY <2>0, <3>2, <3>4, <3>6 DEF StockInv
    <3>12. QED
      BY <3>1, <3>7, <3>8, <3>9, <3>10, <3>11 DEF StockInv, Apart
  <2>4. CASE CreateTicket(c) \/ CreateFails(c)
    <3>0. PICK x \in Ticket : x = [req |-> r, top |-> top[c]]
      BY <2>0 DEF Ticket, TypeOK
    <3>1. /\ pc[c] = "create" /\ UNCHANGED dbStock
          /\ tickets' \in {tickets, tickets \cup {x}}
      BY <2>0, <2>4, <3>0 DEF CreateTicket, CreateFails
    <3>2. /\ pc'[c] # "create"
          /\ \A d \in Consumers : d # c =>
                pc'[d] = pc[d] /\ cur'[d] = cur[d] /\ top'[d] = top[d]
      BY <2>4 DEF CreateTicket, CreateFails, RecordDone, GoOn, TypeOK
    <3>3. CASE UNCHANGED tickets
      BY <3>1, <3>2, <3>3, StockInvQuiet
    <3>4. CASE tickets' = tickets \cup {x}
      <4>1. Above(x.req, x.top)
        BY <2>0, <3>0, <3>1 DEF StockInv
      <4>2. \A y \in tickets : Apart(x.req, x.top, y.req, y.top)
        BY <2>0, <3>0, <3>1 DEF StockInv
      <4>3. \A y \in tickets : Apart(y.req, y.top, x.req, x.top)
        BY <4>2 DEF Apart
      <4>4. \A d \in Consumers : d # c /\ pc[d] = "create" => Apart(cur[d], top[d], x.req, x.top)
        BY <2>0, <3>0, <3>1 DEF StockInv
      <4>5. \A y \in tickets' : Above(y.req, y.top)'
        BY <3>1, <3>4, <4>1 DEF StockInv, Above
      <4>6. \A y, z \in tickets' : y # z => Apart(y.req, y.top, z.req, z.top)
        BY <3>4, <4>2, <4>3 DEF StockInv
      <4>7. \A d \in Consumers, y \in tickets' :
               pc'[d] = "create" => Apart(cur'[d], top'[d], y.req, y.top)
        BY <3>2, <3>4, <4>4 DEF StockInv
      <4>8. \A d \in Consumers : pc'[d] = "create" => Above(cur[d], top[d])'
        BY <3>1, <3>2 DEF StockInv, Above
      <4>9. \A d, e \in Consumers : d # e /\ pc'[d] = "create" /\ pc'[e] = "create"
                => Apart(cur'[d], top'[d], cur'[e], top'[e])
        BY <3>2 DEF StockInv
      <4>10. \A u \in TicketTypes : dbStock'[u] <= InitialStock[u]
        BY <3>1 DEF StockInv
      <4>11. QED
        BY <4>5, <4>6, <4>7, <4>8, <4>9, <4>10 DEF StockInv, Apart
    <3>5. QED
      BY <3>1, <3>3, <3>4
  <2>5. QED
    BY <1>4, <2>1, <2>2, <2>3, <2>4 DEF Handle
<1>5. CASE UNCHANGED vars
  BY <1>5, StockInvQuiet DEF vars
<1>6. QED
  BY <1>1, <1>2, <1>3, <1>4, <1>5 DEF Next

\* The invariant gives the property: units above the stock of the database are
\* units of the initial stock, and no two tickets share one.
LEMMA StockInvUnits == TypeOK /\ StockInv => UnitsSoldOnce
<1> SUFFICES ASSUME TypeOK, StockInv PROVE UnitsSoldOnce
  OBVIOUS
<1>1. \A x \in tickets : /\ x.req \in Requests /\ x.top \in Int
                         /\ QuantityOf[x.req] \in Nat \ {0}
                         /\ InitialStock[TypeOf[x.req]] \in Nat
  BY DEF TypeOK, Ticket
<1>2. \A x \in tickets : Units(x) \subseteq 1 .. InitialStock[TypeOf[x.req]]
  BY <1>1 DEF StockInv, Above, Units
<1>3. \A x, y \in tickets :
         x # y /\ TypeOf[x.req] = TypeOf[y.req] => Units(x) \cap Units(y) = {}
  BY <1>1 DEF StockInv, Apart, Units
<1>4. QED
  BY <1>2, <1>3 DEF UnitsSoldOnce

\* No oversell: whatever fails, every ticket holds units of the initial stock
\* that no other ticket holds.
THEOREM NoOversell == Spec => []UnitsSoldOnce
<1>1. Init => StockInv
  BY StockInvInit
<1>2. TypeOK /\ LogInv /\ StockInv /\ [Next]_vars => StockInv'
  BY StockInvNext
<1>3. QED
  BY <1>1, <1>2, StockInvUnits, Typing, PTL DEF Spec

-----------------------------------------------------------------------------
(* Every unit that left the stock.                                         *)

\* Unit n of type t is in a ticket, or a consumer is about to sell it.
Taken(t, n) ==
    \/ \E x \in tickets : /\ TypeOf[x.req] = t
                          /\ x.top - QuantityOf[x.req] < n /\ n <= x.top
    \/ \E c \in Consumers : /\ pc[c] = "create" /\ TypeOf[cur[c]] = t
                            /\ top[c] - QuantityOf[cur[c]] < n /\ n <= top[c]

\* The units taken are those above the stock, and no creation has failed.
TakenInv ==
    /\ \A c \in Consumers : pc[c] # "undo"
    /\ \A t \in TicketTypes, n \in Int :
          Taken(t, n) <=> dbStock[t] < n /\ n <= InitialStock[t]

LEMMA TakenInit == Init => TakenInv
<1> SUFFICES ASSUME Init PROVE TakenInv
  OBVIOUS
<1>1. \A c \in Consumers : pc[c] = "poll"
  BY DEF Init
<1>2. tickets = {} /\ dbStock = InitialStock
  BY DEF Init
<1>3. QED
  BY <1>1, <1>2 DEF TakenInv, Taken

\* A step that inserts no ticket, and neither starts nor ends a creation.
LEMMA TakenQuiet ==
    ASSUME TakenInv, UNCHANGED <<dbStock, tickets>>,
           \A c \in Consumers :
               /\ pc'[c] # "undo" /\ (pc'[c] = "create" <=> pc[c] = "create")
               /\ pc[c] = "create" => cur'[c] = cur[c] /\ top'[c] = top[c]
    PROVE  TakenInv'
<1>1. \A t \in TicketTypes, n \in Int : Taken(t, n)' <=> Taken(t, n)
  BY DEF Taken
<1>2. QED
  BY <1>1 DEF TakenInv

\* A deduction takes the units on top of the stock ...
LEMMA TakenDeduct ==
    ASSUME TypeOK, InHand, StockInv, TakenInv, NEW c \in Consumers, DeductStock(c)
    PROVE  TakenInv'
<1>1. PICK r \in Requests : r = cur[c]
  BY DEF DeductStock, InHand
<1>2. PICK t \in TicketTypes : t = TypeOf[r]
  OBVIOUS
<1>3. PICK q \in Nat \ {0} : q = QuantityOf[r]
  OBVIOUS
<1>4. PICK m \in Int : m = dbStock[t]
  BY DEF TypeOK
<1>5. /\ pc[c] = "deduct" /\ dbStock' = [dbStock EXCEPT ![t] = @ - q]
      /\ top' = [top EXCEPT ![c] = m]
      /\ pc' = [pc EXCEPT ![c] = "create"] /\ UNCHANGED <<cur, tickets>>
  BY <1>1, <1>2, <1>3, <1>4 DEF DeductStock, UpdateStock, GoOn
<1>6. /\ \A d \in Consumers : d # c => pc'[d] = pc[d] /\ top'[d] = top[d]
      /\ pc'[c] = "create" /\ top'[c] = m
  BY <1>5 DEF TypeOK
<1>7. /\ dbStock'[t] = m - q
      /\ \A u \in TicketTypes : u # t => dbStock'[u] = dbStock[u]
  BY <1>4, <1>5 DEF TypeOK
<1>8. ASSUME NEW u \in TicketTypes, NEW n \in Int
      PROVE  Taken(u, n)' <=> Taken(u, n) \/ (u = t /\ m - q < n /\ n <= m)
  <2>1. CASE \E x \in tickets : /\ TypeOf[x.req] = u
                                /\ x.top - QuantityOf[x.req] < n /\ n <= x.top
    BY <1>5, <2>1 DEF Taken
  <2>2. CASE ~ \E x \in tickets : /\ TypeOf[x.req] = u
                                  /\ x.top - QuantityOf[x.req] < n /\ n <= x.top
    <3>1. Taken(u, n) <=>
            \E d \in Consumers : /\ d # c /\ pc[d] = "create" /\ TypeOf[cur[d]] = u
                                 /\ top[d] - QuantityOf[cur[d]] < n /\ n <= top[d]
      BY <1>5, <2>2 DEF Taken
    <3>2. Taken(u, n)' <=>
            \/ \E d \in Consumers : /\ d # c /\ pc[d] = "create" /\ TypeOf[cur[d]] = u
                                    /\ top[d] - QuantityOf[cur[d]] < n /\ n <= top[d]
            \/ TypeOf[r] = u /\ m - QuantityOf[r] < n /\ n <= m
      BY <1>1, <1>5, <1>6, <2>2 DEF Taken
    <3>3. QED
      BY <1>2, <1>3, <3>1, <3>2
  <2>3. QED
    BY <2>1, <2>2
<1>9. ASSUME NEW u \in TicketTypes, NEW n \in Int
      PROVE  Taken(u, n)' <=> dbStock'[u] < n /\ n <= InitialStock[u]
  <2>1. Taken(u, n) <=> dbStock[u] < n /\ n <= InitialStock[u]
    BY DEF TakenInv
  <2>2. CASE u # t
    BY <1>7, <1>8, <2>1, <2>2
  <2>3. CASE u = t
    <3>1. m <= InitialStock[t] /\ InitialStock[t] \in Int
      BY <1>4 DEF StockInv
    <3>2. QED
      BY <1>4, <1>7, <1>8, <2>1, <2>3, <3>1
  <2>4. QED
    BY <2>2, <2>3
<1>10. \A d \in Consumers : pc'[d] # "undo"
  BY <1>6 DEF TakenInv
<1>11. QED
  BY <1>9, <1>10 DEF TakenInv

\* ... which the creation turns into those of a ticket.
LEMMA TakenCreate ==
    ASSUME TypeOK, InHand, TakenInv, NEW c \in Consumers, CreateTicket(c)
    PROVE  TakenInv'
<1>1. PICK r \in Requests : r = cur[c]
  BY DEF CreateTicket, InHand
<1>2. PICK m \in Int : m = top[c]
  BY DEF TypeOK
<1>3. /\ pc[c] = "create" /\ tickets' = tickets \cup {[req |-> r, top |-> m]}
      /\ UNCHANGED dbStock
  BY <1>1, <1>2 DEF CreateTicket
<1>4. /\ pc'[c] = "next"
      /\ \A d \in Consumers : d # c => pc'[d] = pc[d] /\ cur'[d] = cur[d] /\ top'[d] = top[d]
  BY DEF CreateTicket, RecordDone, TypeOK
<1>5. ASSUME NEW u \in TicketTypes, NEW n \in Int PROVE Taken(u, n)' <=> Taken(u, n)
  <2> DEFINE Mine == TypeOf[r] = u /\ m - QuantityOf[r] < n /\ n <= m
             InTicket == \E x \in tickets : /\ TypeOf[x.req] = u
                                            /\ x.top - QuantityOf[x.req] < n /\ n <= x.top
             WithOther == \E d \in Consumers :
                             /\ d # c /\ pc[d] = "create" /\ TypeOf[cur[d]] = u
                             /\ top[d] - QuantityOf[cur[d]] < n /\ n <= top[d]
  <2>1. Taken(u, n) <=> InTicket \/ WithOther \/ Mine
    BY <1>1, <1>2, <1>3 DEF Taken
  <2>2. Taken(u, n)' <=> (InTicket \/ Mine) \/ WithOther
    <3>1. (\E x \in tickets' : /\ TypeOf[x.req] = u
                               /\ x.top - QuantityOf[x.req] < n /\ n <= x.top)
             <=> InTicket \/ Mine
      <4>1. PICK y : y = [req |-> r, top |-> m]
        OBVIOUS
      <4>2. tickets' = tickets \cup {y} /\ y.req = r /\ y.top = m
        BY <1>3, <4>1
      <4>3. QED
        BY <4>2
    <3>2. (\E d \in Consumers : /\ pc'[d] = "create" /\ TypeOf[cur'[d]] = u
                                /\ top'[d] - QuantityOf[cur'[d]] < n /\ n <= top'[d])
             <=> WithOther
      BY <1>4
    <3>3. QED
      BY <3>1, <3>2 DEF Taken
  <2>3. QED
    BY <2>1, <2>2
<1>6. \A d \in Consumers : pc'[d] # "undo"
  BY <1>4 DEF TakenInv
<1>7. QED
  BY <1>3, <1>5, <1>6 DEF TakenInv

\* Without a failure of the database or of a consumer, units leave the stock
\* for a ticket only.
LEMMA TakenNext ==
    ASSUME Faults \cap {"db_error", "db_lost_reply", "consumer_crash"} = {},
           TypeOK, LogInv, StockInv, TakenInv, [Next]_vars
    PROVE  TakenInv'
<1>0. InHand
  BY DEF LogInv, HandsInv
<1>1. ASSUME NEW r \in Requests, Api(r) PROVE TakenInv'
  <2>1. UNCHANGED <<dbStock, tickets, pc, cur, top>>
    BY <1>1 DEF Api, RefusePurchase, ReserveTicket, ReserveFails, PublishTicket,
       PublishFails, RollbackReservation, ApiCrash, consumerVars, dbVars
  <2>2. QED
    BY <2>1, TakenQuiet DEF TakenInv
<1>2. ASSUME NEW c \in Consumers, Consume(c) PROVE TakenInv'
  <2>1. UNCHANGED <<dbStock, tickets>>
    BY <1>2 DEF Consume, Poll, TakeRecord, CommitBatch, DeadLetter, dbVars
  <2>2. /\ pc[c] # "create" /\ pc'[c] \notin {"create", "undo"}
        /\ \A d \in Consumers : d # c => pc'[d] = pc[d] /\ cur'[d] = cur[d] /\ top'[d] = top[d]
    BY <1>2 DEF Consume, Poll, TakeRecord, CommitBatch, DeadLetter, RecordDone, TypeOK
  <2>3. QED
    BY <2>1, <2>2, TakenQuiet DEF TakenInv
<1>3. CASE Group
  <2>1. UNCHANGED <<dbStock, tickets, pc, cur, top>>
    BY <1>3 DEF Group, Rebalance, ConsumerCrash, consumerVars, dbVars, Fault
  <2>2. QED
    BY <2>1, TakenQuiet DEF TakenInv
<1>4. ASSUME NEW c \in Consumers, Handle(c) PROVE TakenInv'
  <2>1. CASE MarkProcessed(c) \/ SkipDuplicate(c) \/ MarkFails(c) \/ FindTypeFails(c)
             \/ DeductRefused(c) \/ RollbackRedis(c) \/ Unmark(c)
    <3>1. UNCHANGED <<dbStock, tickets>>
      BY <2>1 DEF MarkProcessed, SkipDuplicate, MarkFails, FindTypeFails, DeductRefused,
         RollbackRedis, Unmark, dbVars, Fault
    <3>2. /\ pc[c] # "create" /\ pc'[c] \notin {"create", "undo"}
          /\ \A d \in Consumers : d # c =>
                pc'[d] = pc[d] /\ cur'[d] = cur[d] /\ top'[d] = top[d]
      BY <2>1 DEF MarkProcessed, SkipDuplicate, MarkFails, FindTypeFails, DeductRefused,
         RollbackRedis, Unmark, GoOn, RecordDone, AttemptFailed, TypeOK
    <3>3. QED
      BY <3>1, <3>2, TakenQuiet DEF TakenInv
  <2>2. ~ CreateFails(c) /\ ~ UndoDeduction(c)
    BY DEF CreateFails, UndoDeduction, Fault, TakenInv
  <2>3. QED
    BY <1>0, <1>4, <2>1, <2>2, TakenDeduct, TakenCreate DEF Handle
<1>5. CASE UNCHANGED vars
  BY <1>5, TakenQuiet DEF vars, TakenInv
<1>6. QED
  BY <1>1, <1>2, <1>3, <1>4, <1>5 DEF Next

\* If no statement fails and no consumer stops, the units that left the stock
\* are in tickets as soon as no consumer is in the middle of a record, however
\* often records are delivered, replies of Redis lost and partitions moved: it
\* is the compensation of a failed insertion that breaks the books.
THEOREM UnitsAccountedFor ==
    ASSUME Faults \cap {"db_error", "db_lost_reply", "consumer_crash"} = {}
    PROVE  Spec => []StockAccountedFor
<1>1. TypeOK /\ TakenInv => StockAccountedFor
  <2> SUFFICES ASSUME TypeOK, TakenInv,
                      \A c \in Consumers : pc[c] \in {"poll", "next", "setnx", "deduct"},
                      NEW t \in TicketTypes
               PROVE  UNION {Units(x) : x \in {y \in tickets : TypeOf[y.req] = t}}
                          = dbStock[t] + 1 .. InitialStock[t]
    BY DEF StockAccountedFor
  <2>1. \A x \in tickets : x.top \in Int /\ QuantityOf[x.req] \in Int
    BY DEF TypeOK, Ticket
  <2>2. dbStock[t] \in Int /\ InitialStock[t] \in Int
    BY DEF TypeOK
  <2>3. \A n \in Int : Taken(t, n) <=>
           \E x \in tickets : /\ TypeOf[x.req] = t
                              /\ x.top - QuantityOf[x.req] < n /\ n <= x.top
    BY DEF Taken
  <2>4. \A x \in tickets, n \in Int :
           n \in Units(x) <=> x.top - QuantityOf[x.req] < n /\ n <= x.top
    BY <2>1 DEF Units
  <2>5. \A x \in tickets : Units(x) \subseteq Int
    BY <2>1 DEF Units
  <2>6. \A n \in Int : n \in UNION {Units(x) : x \in {y \in tickets : TypeOf[y.req] = t}}
                         <=> dbStock[t] < n /\ n <= InitialStock[t]
    BY <2>3, <2>4 DEF TakenInv
  <2>7. \A n : n \in UNION {Units(x) : x \in {y \in tickets : TypeOf[y.req] = t}} => n \in Int
    BY <2>5
  <2>8. \A n : n \in dbStock[t] + 1 .. InitialStock[t]
                 <=> n \in Int /\ dbStock[t] < n /\ n <= InitialStock[t]
    BY <2>2
  <2>9. QED
    BY <2>6, <2>7, <2>8
<1>2. TypeOK /\ LogInv /\ StockInv /\ TakenInv /\ [Next]_vars => StockInv' /\ TakenInv'
  BY StockInvNext, TakenNext
<1>3. QED
  BY <1>1, <1>2, StockInvInit, TakenInit, Typing, PTL DEF Spec

-----------------------------------------------------------------------------
(* One ticket for a user, as long as nothing has failed.                   *)

\* The record of r is in the hands of c, and it has been polled.
Has(c, r) == cur[c] = r \/ r \in batch[c]
Polled(r) == Published(r) /\ offset[r] <= position[Partition(r)]

\* A record is handled once: it is in the hands of one consumer, and has no
\* outcome until it leaves them.  Nothing but a refusal leads to a rollback.
OnceInv ==
    /\ \A r \in Requests : call[r] # "undo" /\ (Published(r) => call[r] = "queued")
    /\ \A c \in Consumers : pc[c] \notin {"undo", "dlq"} /\ (pc[c] # "create" => top[c] = 0)
    /\ \A c \in Consumers, r \in Requests : Has(c, r) => Polled(r) /\ outcome[r] = {}
    /\ \A c \in Consumers : cur[c] \notin batch[c]
    /\ \A c, d \in Consumers, r \in Requests : Has(c, r) /\ Has(d, r) => c = d
    /\ \A r \in Requests : outcome[r] # {} => Polled(r)

\* The user of an outstanding reservation is among the buyers and has no other;
\* a request with a ticket has no other outcome and no other ticket.
BuyerInv ==
    /\ \A r \in Requests : Outstanding(r) => UserOf[r] \in bought
    /\ \A r, s \in Requests : Outstanding(r) /\ Outstanding(s) /\ UserOf[r] = UserOf[s] => r = s
    /\ \A x \in tickets : outcome[x.req] = {"success"}
    /\ \A x, y \in tickets : x.req = y.req => x = y

CleanInv == faults = 0 => OnceInv /\ BuyerInv

LEMMA CleanInit == Init => CleanInv
BY RequestAssumption
   DEF Init, CleanInv, OnceInv, BuyerInv, Has, Polled, Published, Outstanding

\* A failure counts.
LEMMA FaultCounts == ASSUME TypeOK, NEW k, Fault(k) PROVE faults' # 0
BY DEF TypeOK, Fault

\* c goes from one step to another with the same record.
LEMMA OnceSame ==
    ASSUME OnceInv, NEW c \in Consumers,
           pc'[c] \notin {"undo", "dlq"}, pc'[c] # "create" => top'[c] = 0,
           \A d \in Consumers : d # c => pc'[d] = pc[d] /\ top'[d] = top[d],
           UNCHANGED <<call, offset, position, batch, cur, outcome>>
    PROVE  OnceInv'
BY DEF OnceInv, Has, Polled, Published, Partition

\* c ends its record.
LEMMA OnceDone ==
    ASSUME TypeOK, OnceInv, NEW c \in Consumers, cur[c] \in Requests,
           NEW res, RecordDone(c, res), UNCHANGED <<call, offset, position>>
    PROVE  OnceInv'
<1> DEFINE r == cur[c]
<1>1. /\ outcome' = [outcome EXCEPT ![r] = @ \cup {res}] /\ pc' = [pc EXCEPT ![c] = "next"]
      /\ cur' = [cur EXCEPT ![c] = NoRequest] /\ top' = [top EXCEPT ![c] = 0]
      /\ batch' = batch
  BY DEF RecordDone
<1>2. Has(c, r) /\ Polled(r) /\ \A d \in Consumers : Has(d, r) => d = c
  BY DEF OnceInv, Has
<1>3. \A s \in Requests : Polled(s)' = Polled(s) /\ Published(s)' = Published(s)
  BY DEF Polled, Published, Partition
<1>4. \A d \in Consumers, s \in Requests : Has(d, s)' => Has(d, s) /\ s # r
  <2> SUFFICES ASSUME NEW d \in Consumers, NEW s \in Requests, Has(d, s)'
               PROVE  Has(d, s) /\ s # r
    OBVIOUS
  <2>1. CASE d = c
    <3>1. cur'[d] = NoRequest
      BY <1>1, <2>1 DEF TypeOK
    <3>2. s \in batch[c]
      BY <1>1, <2>1, <3>1, RequestAssumption DEF Has
    <3>3. s # r
      BY <3>2 DEF OnceInv
    <3>4. QED
      BY <2>1, <3>2, <3>3 DEF Has
  <2>2. CASE d # c
    <3>1. Has(d, s)
      BY <1>1, <2>2 DEF TypeOK, Has
    <3>2. QED
      BY <1>2, <2>2, <3>1
  <2>3. QED
    BY <2>1, <2>2
<1>5. \A s \in Requests : s # r => outcome'[s] = outcome[s]
  BY <1>1 DEF TypeOK
<1>6. \A d \in Consumers : cur'[d] \notin batch'[d]
  <2>1. NoRequest \notin batch[c]
    BY RequestAssumption DEF TypeOK
  <2>2. QED
    BY <1>1, <2>1 DEF TypeOK, OnceInv
<1>7. \A d \in Consumers : pc'[d] \notin {"undo", "dlq"} /\ (pc'[d] # "create" => top'[d] = 0)
  BY <1>1 DEF TypeOK, OnceInv
<1>8. \A d \in Consumers, s \in Requests : Has(d, s)' => Polled(s)' /\ outcome'[s] = {}
  BY <1>3, <1>4, <1>5 DEF OnceInv
<1>9. \A s \in Requests : outcome'[s] # {} => Polled(s)'
  BY <1>2, <1>3, <1>5 DEF OnceInv
<1>10. QED
  BY <1>3, <1>4, <1>6, <1>7, <1>8, <1>9 DEF OnceInv

\* What is polled now lay above what was polled, and was in nobody's hands.
LEMMA OncePoll ==
    ASSUME TypeOK, LogInv, OnceInv, NEW c \in Consumers, Poll(c) PROVE OnceInv'
<1>1. PICK upto \in [Partitions -> 0 .. Cardinality(Requests)] :
        /\ \A p \in Partitions :
             IF owner[p] = c THEN upto[p] \in position[p] .. end[p]
                             ELSE upto[p] = position[p]
        /\ position' = upto
        /\ batch' = [batch EXCEPT ![c] =
               {r \in Requests : /\ position[Partition(r)] < offset[r]
                                 /\ offset[r] <= upto[Partition(r)]}]
  BY DEF Poll
<1>2. /\ pc[c] = "poll" /\ pc' = [pc EXCEPT ![c] = "next"]
      /\ UNCHANGED <<call, offset, cur, top, outcome>>
  BY DEF Poll, apiVars
<1>3. /\ cur[c] = NoRequest /\ batch[c] = {} /\ cur[c] \notin Requests
  BY <1>2, RequestAssumption DEF LogInv, HandsInv
<1>4. \A r \in Requests : /\ Partition(r) \in Partitions
                          /\ position[Partition(r)] \in Nat /\ position'[Partition(r)] \in Nat
                          /\ position[Partition(r)] <= position'[Partition(r)]
                          /\ offset[r] \in Nat
  <2>1. \A r \in Requests : Partition(r) \in Partitions
    BY RequestAssumption, BrokerAssumption DEF Partition
  <2>2. \A p \in Partitions : position[p] \in Nat /\ end[p] \in Nat
    BY DEF TypeOK
  <2>3. \A p \in Partitions : position'[p] \in Nat /\ position[p] <= position'[p]
    BY <1>1, <2>2
  <2>4. QED
    BY <2>1, <2>2, <2>3 DEF TypeOK
<1>5. \A r \in Requests : Polled(r) => Polled(r)'
  BY <1>2, <1>4 DEF Polled, Published, Partition
<1>6. \A r \in Requests : r \in batch'[c] => ~ Polled(r) /\ Polled(r)'
  BY <1>1, <1>2, <1>4 DEF Polled, Published, Partition, TypeOK
<1>7. \A d \in Consumers, r \in Requests : Has(d, r)' =>
          \/ Has(d, r) /\ Polled(r)
          \/ d = c /\ ~ Polled(r) /\ Polled(r)'
  <2> SUFFICES ASSUME NEW d \in Consumers, NEW r \in Requests, Has(d, r)'
               PROVE  \/ Has(d, r) /\ Polled(r)
                      \/ d = c /\ ~ Polled(r) /\ Polled(r)'
    OBVIOUS
  <2>1. CASE d = c
    BY <1>2, <1>3, <1>6, <2>1 DEF Has
  <2>2. CASE d # c
    BY <1>1, <1>2, <2>2 DEF Has, TypeOK, OnceInv
  <2>3. QED
    BY <2>1, <2>2
<1>8. \A d \in Consumers, r \in Requests : Has(d, r)' => Polled(r)' /\ outcome'[r] = {}
  BY <1>2, <1>5, <1>7 DEF OnceInv
<1>9. \A d, e \in Consumers, r \in Requests : Has(d, r)' /\ Has(e, r)' => d = e
  BY <1>7 DEF OnceInv
<1>10. \A d \in Consumers : cur'[d] \notin batch'[d]
  BY <1>1, <1>2, <1>3 DEF OnceInv, TypeOK
<1>11. \A r \in Requests : Published(r)' = Published(r)
  BY <1>2 DEF Published
<1>12. \A d \in Consumers : pc'[d] \notin {"undo", "dlq"} /\ (pc'[d] # "create" => top'[d] = 0)
  BY <1>2 DEF OnceInv, TypeOK
<1>13. QED
  BY <1>2, <1>5, <1>8, <1>9, <1>10, <1>11, <1>12 DEF OnceInv

LEMMA OnceTake ==
    ASSUME TypeOK, LogInv, OnceInv, NEW c \in Consumers, TakeRecord(c) PROVE OnceInv'
<1>1. PICK r \in batch[c] : /\ cur' = [cur EXCEPT ![c] = r]
                            /\ batch' = [batch EXCEPT ![c] = @ \ {r}]
  BY DEF TakeRecord
<1>2. /\ pc[c] = "next" /\ pc' = [pc EXCEPT ![c] = "setnx"]
      /\ UNCHANGED <<call, offset, position, top, outcome>>
  BY DEF TakeRecord, apiVars, brokerVars
<1>3. \A d \in Consumers, s \in Requests : Has(d, s)' => Has(d, s)
  <2>1. \A s \in Requests : Has(c, s)' => Has(c, s)
    BY <1>1 DEF Has, TypeOK
  <2>2. \A d \in Consumers \ {c}, s \in Requests : Has(d, s)' => Has(d, s)
    BY <1>1 DEF Has, TypeOK
  <2>3. QED
    BY <2>1, <2>2
<1>4. \A d \in Consumers : cur'[d] \notin batch'[d]
  BY <1>1 DEF OnceInv, TypeOK
<1>5. \A s \in Requests : Polled(s)' = Polled(s) /\ Published(s)' = Published(s)
  BY <1>2 DEF Polled, Published, Partition
<1>6. \A d \in Consumers : pc'[d] \notin {"undo", "dlq"} /\ (pc'[d] # "create" => top'[d] = 0)
  BY <1>2 DEF OnceInv, TypeOK
<1>7. QED
  BY <1>2, <1>3, <1>4, <1>5, <1>6 DEF OnceInv

\* Nobody leaves or joins the buyers, and no reservation becomes outstanding.
LEMMA BuyersShrink ==
    ASSUME BuyerInv, UNCHANGED <<bought, tickets>>,
           \A r \in Requests : Outstanding(r)' => Outstanding(r),
           \A x \in tickets : outcome'[x.req] = outcome[x.req]
    PROVE  BuyerInv'
BY DEF BuyerInv

\* The calls: only the script makes a reservation outstanding, and it does not
\* let a buyer through.
LEMMA CleanApi ==
    ASSUME TypeOK, LogInv, OnceInv, BuyerInv, faults' = 0, NEW r \in Requests, Api(r)
    PROVE  OnceInv' /\ BuyerInv'
<1>0. ~ ReserveFails(r) /\ ~ PublishFails(r) /\ ~ ApiCrash(r) /\ ~ RollbackReservation(r)
  BY FaultCounts DEF ReserveFails, PublishFails, ApiCrash, RollbackReservation, OnceInv
<1>1. CASE RefusePurchase(r) \/ ReserveTicket(r)
  <2>1. /\ call[r] = "new"
        /\ \E v \in {"rejected", "soldout", "duplicate", "reserved"} :
              call' = [call EXCEPT ![r] = v] /\ (v = "reserved" => ReserveTicket(r))
        /\ UNCHANGED <<offset, position, pc, batch, cur, top, outcome, tickets>>
    BY <1>1 DEF RefusePurchase, ReserveTicket, SeckillAnswer, brokerVars, consumerVars, dbVars,
       TypeOK
  <2>2. ~ Published(r) /\ \A s \in Requests : s # r => call'[s] = call[s]
    BY <2>1 DEF OnceInv, TypeOK
  <2>3. OnceInv'
    BY <2>1, <2>2 DEF OnceInv, Has, Polled, Published, Partition, TypeOK
  <2>4. \A s \in Requests : s # r => Outstanding(s)' = Outstanding(s)
    BY <2>1, <2>2 DEF Outstanding
  <2>5. CASE ReserveTicket(r)
    <3>1. UserOf[r] \notin bought /\ bought' = bought \cup {UserOf[r]}
      BY <2>5 DEF ReserveTicket, SeckillAnswer, SeckillTake
    <3>2. \A s \in Requests : Outstanding(s) => UserOf[s] # UserOf[r]
      BY <3>1 DEF BuyerInv
    <3>3. QED
      BY <2>1, <2>3, <2>4, <3>1, <3>2 DEF BuyerInv
  <2>6. CASE ~ ReserveTicket(r)
    <3>1. ~ Outstanding(r)'
      BY <2>1, <2>6 DEF Outstanding, TypeOK
    <3>2. bought' = bought
      BY <1>1, <2>6 DEF RefusePurchase, redisVars
    <3>3. QED
      BY <2>1, <2>3, <2>4, <3>1, <3>2, BuyersShrink
  <2>7. QED
    BY <2>5, <2>6
<1>2. CASE PublishTicket(r)
  <2>1. /\ call[r] = "reserved" /\ call' = [call EXCEPT ![r] = "queued"]
        /\ offset' = [offset EXCEPT ![r] = end[Partition(r)] + 1]
        /\ UNCHANGED <<position, pc, batch, cur, top, outcome, bought, tickets>>
    BY <1>2 DEF PublishTicket, AppendRecord, redisVars, consumerVars, dbVars
  <2>2. ~ Published(r) /\ call'[r] = "queued"
        /\ \A s \in Requests : s # r => call'[s] = call[s] /\ offset'[s] = offset[s]
    BY <2>1 DEF OnceInv, TypeOK
  <2>3. outcome[r] = {} /\ \A c \in Consumers : ~ Has(c, r)
    BY <2>2 DEF OnceInv, Polled
  <2>4. \A s \in Requests : s # r => Polled(s)' = Polled(s) /\ Published(s)' = Published(s)
    BY <2>1, <2>2 DEF Polled, Published, Partition
  <2>5. \A c \in Consumers, s \in Requests : Has(c, s)' = Has(c, s)
    BY <2>1 DEF Has
  <2>6. OnceInv'
    BY <2>1, <2>2, <2>3, <2>4, <2>5 DEF OnceInv
  <2>7. \A s \in Requests : Outstanding(s)' => Outstanding(s)
    BY <2>1, <2>2 DEF Outstanding
  <2>8. QED
    BY <2>1, <2>6, <2>7, BuyersShrink
<1>3. QED
  BY <1>0, <1>1, <1>2 DEF Api

\* The loop: a consumer polls, takes a record, and commits.
LEMMA CleanConsume ==
    ASSUME TypeOK, LogInv, OnceInv, BuyerInv, faults' = 0, NEW c \in Consumers, Consume(c)
    PROVE  OnceInv' /\ BuyerInv'
<1>0. ~ DeadLetter(c)
  BY DEF DeadLetter, OnceInv
<1>1. OnceInv'
  <2>1. CASE CommitBatch(c)
    <3>1. /\ pc' = [pc EXCEPT ![c] = "poll"] /\ top[c] = 0
          /\ UNCHANGED <<call, offset, position, batch, cur, top, outcome>>
      BY <2>1 DEF CommitBatch, apiVars, OnceInv
    <3>2. pc'[c] = "poll" /\ \A d \in Consumers : d # c => pc'[d] = pc[d]
      BY <3>1 DEF TypeOK
    <3>3. QED
      BY <3>1, <3>2, OnceSame
  <2>2. QED
    BY <1>0, <2>1, OncePoll, OnceTake DEF Consume
<1>2. UNCHANGED <<call, bought, tickets, outcome>>
  BY <1>0 DEF Consume, Poll, TakeRecord, CommitBatch, apiVars, redisVars, dbVars
<1>3. /\ pc[c] \in {"poll", "next"} /\ pc'[c] \in {"poll", "next", "setnx"}
      /\ \A d \in Consumers : d # c => pc'[d] = pc[d] /\ cur'[d] = cur[d]
  BY <1>0 DEF Consume, Poll, TakeRecord, CommitBatch, TypeOK
<1>4. \A r \in Requests : Outstanding(r)' => Outstanding(r)
  BY <1>2, <1>3 DEF Outstanding
<1>5. QED
  BY <1>1, <1>2, <1>4, BuyersShrink

\* The handler: what it inserts is the first outcome of its record, and what it
\* takes off the buyers has no other reservation.
LEMMA CleanHandle ==
    ASSUME TypeOK, LogInv, OnceInv, BuyerInv, faults' = 0, NEW c \in Consumers, Handle(c)
    PROVE  OnceInv' /\ BuyerInv'
<1>0. ~ MarkFails(c) /\ ~ FindTypeFails(c) /\ ~ CreateFails(c) /\ ~ UndoDeduction(c)
  BY FaultCounts DEF MarkFails, FindTypeFails, CreateFails, UndoDeduction, OnceInv
<1>a. UNCHANGED <<call, offset, position>> /\ pc[c] \notin {"poll", "next"}
  BY <1>0 DEF Handle, MarkProcessed, SkipDuplicate, DeductStock, DeductRefused, CreateTicket,
     RollbackRedis, Unmark, apiVars, brokerVars
<1>b. PICK r \in Requests : r = cur[c] /\ Has(c, r)
  BY <1>a DEF LogInv, HandsInv, InHand, Has
<1>c. /\ Polled(r) /\ outcome[r] = {} /\ call[r] = "queued"
      /\ \A d \in Consumers : Has(d, r) => d = c
  BY <1>b DEF OnceInv, Polled
<1>d. \A x \in tickets : x.req # r
  BY <1>c DEF BuyerInv
<1>1. CASE MarkProcessed(c) \/ DeductStock(c) \/ DeductRefused(c)
  <2>1. /\ pc[c] \in {"setnx", "deduct"} /\ UNCHANGED <<batch, cur, outcome, bought, tickets>>
        /\ \E next \in {"deduct", "create", "rollback"} :
              /\ pc' = [pc EXCEPT ![c] = next]
              /\ next # "create" => top' = top
              /\ \E v : top' = [top EXCEPT ![c] = v]
    <3>1. top = [top EXCEPT ![c] = top[c]]
      BY DEF TypeOK
    <3>2. CASE MarkProcessed(c)
      BY <3>1, <3>2 DEF MarkProcessed, GoOn, redisVars, dbVars
    <3>3. CASE DeductStock(c)
      BY <3>3 DEF DeductStock, GoOn, redisVars
    <3>4. CASE DeductRefused(c)
      BY <3>1, <3>4, FaultCounts DEF DeductRefused, GoOn, redisVars
    <3>5. QED
      BY <1>1, <3>2, <3>3, <3>4
  <2>2. PICK next \in {"deduct", "create", "rollback"} :
            /\ pc' = [pc EXCEPT ![c] = next]
            /\ \E v : top' = [top EXCEPT ![c] = v]
            /\ next # "create" => top' = top
    BY <2>1
  <2>3. /\ pc'[c] = next /\ (next # "create" => top'[c] = 0)
        /\ \A d \in Consumers : d # c => pc'[d] = pc[d] /\ top'[d] = top[d]
    BY <2>1, <2>2 DEF OnceInv, TypeOK
  <2>4. OnceInv'
    BY <1>a, <2>1, <2>3, OnceSame
  <2>5. \A s \in Requests : Outstanding(s)' => Outstanding(s)
    BY <1>a, <2>1, <2>3 DEF Outstanding
  <2>6. QED
    BY <2>1, <2>4, <2>5, BuyersShrink
<1>2. CASE SkipDuplicate(c) \/ Unmark(c)
  <2>1. PICK res : RecordDone(c, res) /\ (pc[c] = "unmark" => res = "failed")
    BY <1>2 DEF SkipDuplicate, Unmark, OnceInv
  <2>2. OnceInv'
    BY <1>a, <1>b, <2>1, OnceDone
  <2>3. UNCHANGED <<bought, tickets>>
    BY <1>2 DEF SkipDuplicate, Unmark, redisVars, dbVars
  <2>4. /\ outcome' = [outcome EXCEPT ![r] = @ \cup {res}]
        /\ pc' = [pc EXCEPT ![c] = "next"] /\ cur' = [cur EXCEPT ![c] = NoRequest]
    BY <1>b, <2>1 DEF RecordDone
  <2>5. outcome'[r] = outcome[r] \cup {res} /\ \A s \in Requests : s # r => outcome'[s] = outcome[s]
    BY <1>b, <2>4 DEF TypeOK
  <2>6. \A s \in Requests : Outstanding(s)' => Outstanding(s)
    <3>1. \A s \in Requests : s # r /\ Outstanding(s)' => Outstanding(s)
      BY <1>a, <1>b, <2>4, <2>5 DEF Outstanding, TypeOK
    <3>2. pc[c] = "unmark" => ~ Outstanding(r)'
      BY <2>1, <2>5 DEF Outstanding
    <3>3. pc[c] # "unmark" => Outstanding(r)
      BY <1>c DEF Outstanding, Has
    <3>4. QED
      BY <3>1, <3>2, <3>3
  <2>7. \A x \in tickets : outcome'[x.req] = outcome[x.req]
    BY <1>d, <2>5 DEF TypeOK, Ticket
  <2>8. QED
    BY <2>2, <2>3, <2>6, <2>7, BuyersShrink
<1>3. CASE CreateTicket(c)
  <2>1. /\ pc[c] = "create" /\ RecordDone(c, "success") /\ bought' = bought
        /\ tickets' = tickets \cup {[req |-> r, top |-> top[c]]}
    BY <1>3, <1>b DEF CreateTicket, redisVars
  <2>2. OnceInv'
    BY <1>a, <1>b, <2>1, OnceDone
  <2>3. /\ outcome' = [outcome EXCEPT ![r] = @ \cup {"success"}]
        /\ pc' = [pc EXCEPT ![c] = "next"] /\ cur' = [cur EXCEPT ![c] = NoRequest]
    BY <1>b, <2>1 DEF RecordDone
  <2>4. outcome'[r] = {"success"} /\ \A s \in Requests : s # r => outcome'[s] = outcome[s]
    BY <1>b, <1>c, <2>3 DEF TypeOK
  <2>5. \A s \in Requests : Outstanding(s)' => Outstanding(s)
    <3>1. \A s \in Requests : s # r /\ Outstanding(s)' => Outstanding(s)
      BY <1>a, <1>b, <2>3, <2>4 DEF Outstanding, TypeOK
    <3>2. Outstanding(r)
      BY <1>c, <2>1 DEF Outstanding, Has
    <3>3. QED
      BY <3>1, <3>2
  <2>6. \A x \in tickets : x.req \in Requests
    BY DEF TypeOK, Ticket
  <2>7. \A x \in tickets' : outcome'[x.req] = {"success"}
    <3>1. \A x \in tickets : outcome'[x.req] = {"success"}
      BY <1>d, <2>4, <2>6 DEF BuyerInv
    <3>2. \A x \in tickets' : x \in tickets \/ x.req = r
      BY <2>1
    <3>3. QED
      BY <2>4, <3>1, <3>2
  <2>8. \A x, y \in tickets' : x.req = y.req => x = y
    BY <1>d, <2>1 DEF BuyerInv
  <2>9. QED
    BY <2>1, <2>2, <2>5, <2>7, <2>8 DEF BuyerInv
<1>4. CASE RollbackRedis(c)
  <2>1. /\ pc[c] = "rollback" /\ pc' = [pc EXCEPT ![c] = "unmark"]
        /\ bought' = bought \ {UserOf[r]}
        /\ UNCHANGED <<batch, cur, top, outcome, tickets>>
    BY <1>4, <1>b, FaultCounts DEF RollbackRedis, SeckillRollback, GoOn, dbVars
  <2>2. OnceInv'
    <3>1. /\ pc'[c] = "unmark" /\ top'[c] = 0
          /\ \A d \in Consumers : d # c => pc'[d] = pc[d] /\ top'[d] = top[d]
      BY <2>1 DEF OnceInv, TypeOK
    <3>2. QED
      BY <1>a, <2>1, <3>1, OnceSame
  <2>3. Outstanding(r) /\ ~ Outstanding(r)'
    <3>1. Outstanding(r)
      BY <1>c, <2>1 DEF Outstanding, Has
    <3>2. ~ Outstanding(r)'
      BY <1>b, <2>1 DEF Outstanding, TypeOK
    <3>3. QED
      BY <3>1, <3>2
  <2>4. \A s \in Requests : Outstanding(s)' => Outstanding(s)
    BY <1>a, <2>1, <2>3 DEF Outstanding, TypeOK
  <2>5. \A s \in Requests : Outstanding(s)' => UserOf[s] \in bought'
    BY <1>b, <2>1, <2>3, <2>4 DEF BuyerInv
  <2>6. QED
    BY <2>1, <2>2, <2>4, <2>5 DEF BuyerInv
<1>5. QED
  BY <1>0, <1>1, <1>2, <1>3, <1>4 DEF Handle

\* A step that counts no failure is none.
LEMMA StillClean == ASSUME TypeOK, Next, faults' = 0 PROVE faults = 0 /\ ~ Group
<1>1. ~ Group
  BY FaultCounts DEF Group, Rebalance, ConsumerCrash
<1>2. ASSUME NEW r \in Requests, Api(r) PROVE faults = 0
  BY <1>2, FaultCounts DEF Api, RefusePurchase, ReserveTicket, ReserveFails, PublishTicket,
     PublishFails, RollbackReservation, ApiCrash, NoFault
<1>3. ASSUME NEW c \in Consumers, Consume(c) PROVE faults = 0
  BY <1>3, FaultCounts DEF Consume, Poll, TakeRecord, CommitBatch, DeadLetter, NoFault
<1>4. ASSUME NEW c \in Consumers, Handle(c) PROVE faults = 0
  BY <1>4, FaultCounts DEF Handle, MarkProcessed, SkipDuplicate, MarkFails, FindTypeFails,
     DeductStock, DeductRefused, CreateTicket, CreateFails, UndoDeduction, RollbackRedis,
     Unmark, NoFault
<1>5. QED
  BY <1>1, <1>2, <1>3, <1>4 DEF Next

LEMMA CleanNext == TypeOK /\ LogInv /\ CleanInv /\ [Next]_vars => CleanInv'
<1> SUFFICES ASSUME TypeOK, LogInv, CleanInv, [Next]_vars, faults' = 0
             PROVE  OnceInv' /\ BuyerInv'
  BY DEF CleanInv
<1>1. CASE UNCHANGED vars
  BY <1>1 DEF vars, CleanInv, OnceInv, BuyerInv, Has, Polled, Published, Partition, Outstanding
<1>2. CASE Next
  <2>1. faults = 0 /\ ~ Group
    BY <1>2, StillClean
  <2>2. OnceInv /\ BuyerInv
    BY <2>1 DEF CleanInv
  <2>3. QED
    BY <1>2, <2>1, <2>2, CleanApi, CleanConsume, CleanHandle DEF Next
<1>3. QED
  BY <1>1, <1>2

\* As long as nothing has failed, and however many consumers and requests there
\* are, a user has at most one ticket of the event.
THEOREM OneForEach == Spec => []OneTicketPerUser
<1>1. TypeOK /\ CleanInv => OneTicketPerUser
  <2> SUFFICES ASSUME TypeOK, OnceInv, BuyerInv, NEW x \in tickets, NEW y \in tickets,
                      UserOf[x.req] = UserOf[y.req]
               PROVE  x = y
    BY DEF CleanInv, OneTicketPerUser
  <2>1. \A z \in tickets : Outstanding(z.req)
    <3> SUFFICES ASSUME NEW z \in tickets PROVE Outstanding(z.req)
      OBVIOUS
    <3>1. z.req \in Requests /\ outcome[z.req] = {"success"}
      BY DEF TypeOK, Ticket, BuyerInv
    <3>2. call[z.req] = "queued" /\ \A c \in Consumers : cur[c] # z.req
      BY <3>1 DEF OnceInv, Polled, Has
    <3>3. QED
      BY <3>1, <3>2 DEF Outstanding
  <2>2. x.req = y.req
    BY <2>1 DEF BuyerInv, TypeOK, Ticket
  <2>3. QED
    BY <2>2 DEF BuyerInv
<1>2. TypeOK /\ LogInv /\ CleanInv /\ [Next]_vars => CleanInv'
  BY CleanNext
<1>3. QED
  BY <1>1, <1>2, CleanInit, Typing, PTL DEF Spec

-----------------------------------------------------------------------------
(* What Redis accounts for, as long as nothing has failed.                 *)

Reserved(t) == {r \in Requests : Outstanding(r) /\ TypeOf[r] = t}

\* The outstanding reservations of a type can be counted, and with the hash make
\* up its stock; a buyer has a reservation.
AccountsInv ==
    /\ \A t \in TicketTypes :
          /\ IsFiniteSet(Reserved(t))
          /\ redisStock[t] + Cardinality(Reserved(t)) = InitialStock[t]
    /\ \A u \in bought : \E r \in Requests : Outstanding(r) /\ UserOf[r] = u

RedisInv == faults = 0 => AccountsInv

LEMMA RedisInvInit == Init => RedisInv
<1> SUFFICES ASSUME Init PROVE AccountsInv
  BY DEF RedisInv
<1>1. \A t \in TicketTypes : Reserved(t) = {}
  BY DEF Init, Reserved, Outstanding
<1>2. redisStock = InitialStock /\ bought = {}
  BY DEF Init
<1>3. IsFiniteSet({}) /\ Cardinality({}) = 0
  BY FS_EmptySet
<1>4. ASSUME NEW t \in TicketTypes
      PROVE  /\ IsFiniteSet(Reserved(t))
             /\ redisStock[t] + Cardinality(Reserved(t)) = InitialStock[t]
  <2>1. InitialStock[t] \in Nat
    OBVIOUS
  <2>2. IsFiniteSet(Reserved(t)) /\ Cardinality(Reserved(t)) = 0
    BY <1>1, <1>3, Zenon
  <2>3. QED
    BY <1>2, <2>1, <2>2
<1>5. QED
  BY <1>2, <1>4 DEF AccountsInv

\* The same reservations are outstanding.
LEMMA AccountsSame ==
    ASSUME AccountsInv, UNCHANGED redisVars,
           \A r \in Requests : Outstanding(r)' <=> Outstanding(r)
    PROVE  AccountsInv'
<1>1. \A t \in TicketTypes : Reserved(t)' = Reserved(t)
  BY DEF Reserved
<1>2. QED
  BY <1>1 DEF AccountsInv, redisVars

\* The deduction script has run for r.
LEMMA AccountsTake ==
    ASSUME TypeOK, AccountsInv, NEW r \in Requests, SeckillTake(UserOf[r], TypeOf[r]),
           ~ Outstanding(r), Outstanding(r)',
           \A s \in Requests : s # r => (Outstanding(s)' <=> Outstanding(s))
    PROVE  AccountsInv'
<1>1. ASSUME NEW t \in TicketTypes
      PROVE  /\ IsFiniteSet(Reserved(t)')
             /\ redisStock'[t] + Cardinality(Reserved(t)') = InitialStock[t]
  <2>1. /\ IsFiniteSet(Reserved(t)) /\ Cardinality(Reserved(t)) \in Nat
        /\ redisStock[t] + Cardinality(Reserved(t)) = InitialStock[t]
    BY FS_CardinalityType DEF AccountsInv
  <2>2. CASE t = TypeOf[r]
    <3>1. r \notin Reserved(t) /\ Reserved(t)' = Reserved(t) \cup {r}
      BY <2>2 DEF Reserved
    <3>2. /\ IsFiniteSet(Reserved(t)')
          /\ Cardinality(Reserved(t)') = Cardinality(Reserved(t)) + 1
      BY <2>1, <3>1, FS_AddElement
    <3>3. redisStock'[t] = redisStock[t] - 1
      BY <2>2 DEF SeckillTake, TypeOK
    <3>4. QED
      BY <2>1, <3>2, <3>3 DEF TypeOK
  <2>3. CASE t # TypeOf[r]
    <3>1. Reserved(t)' = Reserved(t)
      BY <2>3 DEF Reserved
    <3>2. redisStock'[t] = redisStock[t]
      BY <2>3 DEF SeckillTake, TypeOK
    <3>3. QED
      BY <2>1, <3>1, <3>2
  <2>4. QED
    BY <2>2, <2>3
<1>2. \A u \in bought' : \E s \in Requests : Outstanding(s)' /\ UserOf[s] = u
  BY DEF AccountsInv, SeckillTake
<1>3. QED
  BY <1>1, <1>2 DEF AccountsInv

\* The rollback script has run for r: its user had no other reservation, and
\* another buyer keeps the one that makes it a buyer.
LEMMA AccountsGiveBack ==
    ASSUME TypeOK, AccountsInv, NEW r \in Requests, SeckillRollback(UserOf[r], TypeOf[r]),
           Outstanding(r), ~ Outstanding(r)',
           \A s \in Requests : s # r => (Outstanding(s)' <=> Outstanding(s))
    PROVE  AccountsInv'
<1>1. ASSUME NEW t \in TicketTypes
      PROVE  /\ IsFiniteSet(Reserved(t)')
             /\ redisStock'[t] + Cardinality(Reserved(t)') = InitialStock[t]
  <2>1. /\ IsFiniteSet(Reserved(t)) /\ Cardinality(Reserved(t)) \in Nat
        /\ redisStock[t] + Cardinality(Reserved(t)) = InitialStock[t]
    BY FS_CardinalityType DEF AccountsInv
  <2>2. CASE t = TypeOf[r]
    <3>1. r \in Reserved(t) /\ Reserved(t)' = Reserved(t) \ {r}
      BY <2>2 DEF Reserved
    <3>2. /\ IsFiniteSet(Reserved(t)')
          /\ Cardinality(Reserved(t)') = Cardinality(Reserved(t)) - 1
      BY <2>1, <3>1, FS_RemoveElement
    <3>3. redisStock'[t] = redisStock[t] + 1
      BY <2>2 DEF SeckillRollback, TypeOK
    <3>4. QED
      BY <2>1, <3>2, <3>3 DEF TypeOK
  <2>3. CASE t # TypeOf[r]
    <3>1. Reserved(t)' = Reserved(t)
      BY <2>3 DEF Reserved
    <3>2. redisStock'[t] = redisStock[t]
      BY <2>3 DEF SeckillRollback, TypeOK
    <3>3. QED
      BY <2>1, <3>1, <3>2
  <2>4. QED
    BY <2>2, <2>3
<1>2. \A u \in bought' : \E s \in Requests : Outstanding(s)' /\ UserOf[s] = u
  <2> SUFFICES ASSUME NEW u \in bought' PROVE \E s \in Requests : Outstanding(s)' /\ UserOf[s] = u
    OBVIOUS
  <2>1. u \in bought /\ u # UserOf[r]
    BY DEF SeckillRollback
  <2>2. PICK s \in Requests : Outstanding(s) /\ UserOf[s] = u
    BY <2>1 DEF AccountsInv
  <2>3. QED
    BY <2>1, <2>2
<1>3. QED
  BY <1>1, <1>2 DEF AccountsInv

\* The calls: the script's reservation is outstanding until the record is
\* published, and then on.
LEMMA AccountsApi ==
    ASSUME TypeOK, LogInv, OnceInv, AccountsInv, faults' = 0, NEW r \in Requests, Api(r)
    PROVE  AccountsInv'
<1>0. ~ ReserveFails(r) /\ ~ PublishFails(r) /\ ~ ApiCrash(r) /\ ~ RollbackReservation(r)
  BY FaultCounts DEF ReserveFails, PublishFails, ApiCrash, RollbackReservation, OnceInv
<1>1. UNCHANGED <<pc, cur, outcome>> /\ \A s \in Requests : s # r => call'[s] = call[s]
  BY <1>0 DEF Api, RefusePurchase, ReserveTicket, PublishTicket, consumerVars, TypeOK
<1>2. \A s \in Requests : s # r => (Outstanding(s)' <=> Outstanding(s))
  BY <1>1 DEF Outstanding
<1>3. CASE RefusePurchase(r)
  <2>1. /\ call[r] = "new" /\ call'[r] \in {"rejected", "soldout", "duplicate"}
        /\ UNCHANGED redisVars
    BY <1>3 DEF RefusePurchase, SeckillAnswer, TypeOK
  <2>2. ~ Outstanding(r) /\ ~ Outstanding(r)'
    BY <2>1 DEF Outstanding
  <2>3. QED
    BY <1>2, <2>1, <2>2, AccountsSame
<1>4. CASE ReserveTicket(r)
  <2>1. /\ call[r] = "new" /\ call'[r] = "reserved"
        /\ SeckillTake(UserOf[r], TypeOf[r])
    BY <1>4 DEF ReserveTicket, TypeOK
  <2>2. outcome[r] = {} /\ \A c \in Consumers : cur[c] # r
    BY <2>1 DEF OnceInv, Polled, Has
  <2>3. ~ Outstanding(r) /\ Outstanding(r)'
    BY <1>1, <2>1, <2>2 DEF Outstanding
  <2>4. QED
    BY <1>2, <2>1, <2>3, AccountsTake
<1>5. CASE PublishTicket(r)
  <2>1. call[r] = "reserved" /\ call'[r] = "queued" /\ UNCHANGED redisVars
    BY <1>5 DEF PublishTicket, TypeOK
  <2>2. Outstanding(r)' <=> Outstanding(r)
    BY <1>1, <2>1 DEF Outstanding
  <2>3. QED
    BY <1>2, <2>1, <2>2, AccountsSame
<1>6. QED
  BY <1>0, <1>3, <1>4, <1>5 DEF Api

\* The loop leaves Redis alone.
LEMMA AccountsConsume ==
    ASSUME TypeOK, OnceInv, AccountsInv, NEW c \in Consumers, Consume(c)
    PROVE  AccountsInv'
<1>0. ~ DeadLetter(c)
  BY DEF DeadLetter, OnceInv
<1>1. UNCHANGED <<call, redisVars, outcome>>
  BY <1>0 DEF Consume, Poll, TakeRecord, CommitBatch, apiVars
<1>2. /\ pc[c] # "unmark" /\ pc'[c] # "unmark"
      /\ \A d \in Consumers : d # c => pc'[d] = pc[d] /\ cur'[d] = cur[d]
  BY <1>0 DEF Consume, Poll, TakeRecord, CommitBatch, TypeOK
<1>3. \A r \in Requests : Outstanding(r)' <=> Outstanding(r)
  BY <1>1, <1>2 DEF Outstanding
<1>4. QED
  BY <1>1, <1>3, AccountsSame

\* The handler gives back the unit of a record it refuses, before it tells the
\* user of the failure; nothing else of it touches a reservation.
LEMMA AccountsHandle ==
    ASSUME TypeOK, LogInv, OnceInv, AccountsInv, faults' = 0, NEW c \in Consumers, Handle(c)
    PROVE  AccountsInv'
<1>0. ~ MarkFails(c) /\ ~ FindTypeFails(c) /\ ~ CreateFails(c) /\ ~ UndoDeduction(c)
  BY FaultCounts DEF MarkFails, FindTypeFails, CreateFails, UndoDeduction, OnceInv
<1>a. call' = call /\ pc[c] \notin {"poll", "next"}
  BY <1>0 DEF Handle, MarkProcessed, SkipDuplicate, DeductStock, DeductRefused, CreateTicket,
     RollbackRedis, Unmark, apiVars
<1>b. PICK r \in Requests : r = cur[c] /\ Has(c, r)
  BY <1>a DEF LogInv, HandsInv, InHand, Has
<1>c. /\ outcome[r] = {} /\ call[r] = "queued"
      /\ \A d \in Consumers \ {c} : cur[d] # r
  BY <1>b DEF OnceInv, Polled, Has
<1>1. CASE MarkProcessed(c) \/ DeductStock(c) \/ DeductRefused(c)
  <2>1. /\ pc[c] \in {"setnx", "deduct"} /\ UNCHANGED <<cur, outcome, redisVars>>
        /\ \E next \in {"deduct", "create", "rollback"} : pc' = [pc EXCEPT ![c] = next]
    BY <1>1 DEF MarkProcessed, DeductStock, DeductRefused, GoOn
  <2>2. /\ pc[c] # "unmark" /\ pc'[c] # "unmark"
        /\ \A d \in Consumers : d # c => pc'[d] = pc[d]
    BY <2>1 DEF TypeOK
  <2>3. \A s \in Requests : Outstanding(s)' <=> Outstanding(s)
    BY <1>a, <2>1, <2>2 DEF Outstanding
  <2>4. QED
    BY <2>1, <2>3, AccountsSame
<1>2. CASE SkipDuplicate(c) \/ Unmark(c) \/ CreateTicket(c)
  <2>1. PICK res : RecordDone(c, res) /\ (pc[c] = "unmark" <=> res = "failed")
    BY <1>2 DEF SkipDuplicate, Unmark, CreateTicket, OnceInv
  <2>2. UNCHANGED redisVars
    BY <1>2 DEF SkipDuplicate, Unmark, CreateTicket
  <2>3. /\ pc'[c] = "next" /\ outcome'[r] = outcome[r] \cup {res}
        /\ \A s \in Requests : s # r => outcome'[s] = outcome[s]
        /\ \A d \in Consumers : d # c => pc'[d] = pc[d] /\ cur'[d] = cur[d]
    BY <1>b, <2>1 DEF RecordDone, TypeOK
  <2>4. \A s \in Requests : s # r => (Outstanding(s)' <=> Outstanding(s))
    BY <1>a, <1>b, <2>3 DEF Outstanding
  <2>5. \A d \in Consumers : ~ (cur[d] = r /\ pc[d] = "unmark" /\ d # c)
    BY <1>c
  <2>6. \A d \in Consumers : ~ (cur'[d] = r /\ pc'[d] = "unmark")
    BY <1>c, <2>3
  <2>7. Outstanding(r) <=> pc[c] # "unmark"
    BY <1>b, <1>c, <2>5 DEF Outstanding
  <2>8. Outstanding(r)' <=> res # "failed"
    BY <1>a, <1>c, <2>3, <2>6 DEF Outstanding
  <2>9. QED
    BY <2>1, <2>2, <2>4, <2>7, <2>8, AccountsSame
<1>3. CASE RollbackRedis(c)
  <2>1. /\ pc[c] = "rollback" /\ pc' = [pc EXCEPT ![c] = "unmark"]
        /\ SeckillRollback(UserOf[r], TypeOf[r])
        /\ UNCHANGED <<cur, outcome>>
    BY <1>3, <1>b, FaultCounts DEF RollbackRedis, GoOn
  <2>2. pc'[c] = "unmark" /\ \A d \in Consumers : d # c => pc'[d] = pc[d]
    BY <2>1 DEF TypeOK
  <2>3. Outstanding(r) /\ ~ Outstanding(r)'
    BY <1>a, <1>b, <1>c, <2>1, <2>2 DEF Outstanding
  <2>4. \A s \in Requests : s # r => (Outstanding(s)' <=> Outstanding(s))
    BY <1>a, <1>b, <2>1, <2>2 DEF Outstanding
  <2>5. QED
    BY <2>1, <2>3, <2>4, AccountsGiveBack
<1>4. QED
  BY <1>0, <1>1, <1>2, <1>3 DEF Handle

LEMMA RedisInvNext == TypeOK /\ LogInv /\ CleanInv /\ RedisInv /\ [Next]_vars => RedisInv'
<1> SUFFICES ASSUME TypeOK, LogInv, CleanInv, RedisInv, [Next]_vars, faults' = 0
             PROVE  AccountsInv'
  BY DEF RedisInv
<1>1. CASE UNCHANGED vars
  <2>1. UNCHANGED <<redisVars, faults>> /\ \A r \in Requests : Outstanding(r)' <=> Outstanding(r)
    BY <1>1 DEF vars, redisVars, Outstanding
  <2>2. QED
    BY <2>1, AccountsSame DEF RedisInv
<1>2. CASE Next
  <2>1. faults = 0 /\ ~ Group
    BY <1>2, StillClean
  <2>2. OnceInv /\ AccountsInv
    BY <2>1 DEF CleanInv, RedisInv
  <2>3. QED
    BY <1>2, <2>1, <2>2, AccountsApi, AccountsConsume, AccountsHandle DEF Next
<1>3. QED
  BY <1>1, <1>2

\* As long as nothing has failed, Redis accounts for each unit of its stock:
\* the hash and the outstanding reservations make up the initial stock of each
\* type, and the buyers are the users with a reservation, one each.
THEOREM RedisAccounts == Spec => []RedisAccountsForUnits
<1>1. CleanInv /\ RedisInv => RedisAccountsForUnits
  <2> SUFFICES ASSUME OnceInv, BuyerInv, AccountsInv, faults = 0 PROVE RedisAccountsForUnits
    BY DEF CleanInv, RedisInv, RedisAccountsForUnits
  <2>1. \A t \in TicketTypes :
           redisStock[t] + Cardinality({r \in Requests : Outstanding(r) /\ TypeOf[r] = t})
               = InitialStock[t]
    BY DEF AccountsInv, Reserved
  <2>2. bought = {UserOf[r] : r \in {s \in Requests : Outstanding(s)}}
    BY DEF AccountsInv, BuyerInv
  <2>3. QED
    BY <2>1, <2>2 DEF RedisAccountsForUnits, BuyerInv
<1>2. TypeOK /\ LogInv /\ CleanInv /\ [Next]_vars => CleanInv'
  BY CleanNext
<1>3. TypeOK /\ LogInv /\ CleanInv /\ RedisInv /\ [Next]_vars => RedisInv'
  BY RedisInvNext
<1>4. QED
  BY <1>1, <1>2, <1>3, CleanInit, RedisInvInit, Typing, PTL DEF Spec

-----------------------------------------------------------------------------
(* What is committed has been settled.                                     *)

\* A message that is marked as processed, or that some handling ended for, has
\* been settled or is being handled by a consumer past SetNX.
SettleInv ==
    \A r \in Requests :
        key[r] \/ outcome[r] # {} => Settled(r) \/ \E c \in Consumers : Holds(c, r)

\* The failures that lose a message: a consumer that stops past SetNX, a SetNX
\* that takes effect unseen, and a dead letter that is not produced.
NothingLost == {"consumer_crash", "redis_lost_reply", "dlq_error"} \cap Faults = {}

LEMMA SettleInit == Init => SettleInv
BY DEF Init, SettleInv

\* Keys and outcomes are as they were, and whoever held a message does.
LEMMA SettleQuiet ==
    ASSUME SettleInv, UNCHANGED <<key, outcome>>, tickets \subseteq tickets',
           \A c \in Consumers, r \in Requests : Holds(c, r) => Holds(c, r)'
    PROVE  SettleInv'
BY DEF SettleInv, Settled

\* c is about r, and only c and what is known of r change: it is enough that r
\* remains accounted for.
LEMMA SettleOne ==
    ASSUME SettleInv, NEW c \in Consumers, NEW r \in Requests, ~ \E s \in Requests : s # r /\ Holds(c, s),
           \A s \in Requests : s # r => key'[s] = key[s] /\ outcome'[s] = outcome[s],
           \A d \in Consumers, s \in Requests : d # c => Holds(d, s)' = Holds(d, s),
           tickets \subseteq tickets',
           key'[r] \/ outcome'[r] # {}
              => Settled(r)' \/ \E d \in Consumers : Holds(d, r)'
    PROVE  SettleInv'
<1> SUFFICES ASSUME NEW s \in Requests, s # r, key'[s] \/ outcome'[s] # {}
             PROVE  Settled(s)' \/ \E d \in Consumers : Holds(d, s)'
  BY DEF SettleInv
<1>1. Settled(s) \/ \E d \in Consumers : Holds(d, s)
  BY DEF SettleInv
<1>2. Settled(s) => Settled(s)'
  BY DEF Settled
<1>3. QED
  BY <1>1, <1>2

LEMMA SettleHandle ==
    ASSUME TypeOK, LogInv, SettleInv, NothingLost, NEW c \in Consumers, Handle(c)
    PROVE  SettleInv'
<1>a. pc[c] \notin {"poll", "next"}
  BY DEF Handle, MarkProcessed, SkipDuplicate, MarkFails, FindTypeFails, DeductStock,
     DeductRefused, CreateTicket, CreateFails, UndoDeduction, RollbackRedis, Unmark
<1>b. PICK r \in Requests : r = cur[c]
  BY <1>a DEF LogInv, HandsInv, InHand
<1>c. \A d \in Consumers : d # c => pc'[d] = pc[d] /\ cur'[d] = cur[d]
  BY DEF Handle, MarkProcessed, SkipDuplicate, MarkFails, FindTypeFails, DeductStock,
     DeductRefused, CreateTicket, CreateFails, UndoDeduction, RollbackRedis, Unmark,
     RecordDone, AttemptFailed, GoOn, TypeOK
<1>d. \A d \in Consumers, s \in Requests : d # c => Holds(d, s)' = Holds(d, s)
  BY <1>c DEF Holds
<1>e. ~ \E s \in Requests : s # r /\ Holds(c, s)
  BY <1>b DEF Holds
<1>f. tickets \subseteq tickets'
  BY DEF Handle, MarkProcessed, SkipDuplicate, MarkFails, FindTypeFails, DeductStock,
     DeductRefused, CreateTicket, CreateFails, UndoDeduction, RollbackRedis, Unmark, dbVars
<1>g. Settled(r) => Settled(r)'
  <2>1. outcome[r] \subseteq outcome'[r]
    BY <1>b DEF Handle, MarkProcessed, SkipDuplicate, MarkFails, FindTypeFails, DeductStock,
       DeductRefused, CreateTicket, CreateFails, UndoDeduction, RollbackRedis, Unmark,
       RecordDone, TypeOK
  <2>2. QED
    BY <1>f, <2>1 DEF Settled
<1>1. CASE \/ MarkProcessed(c) \/ DeductStock(c) \/ DeductRefused(c) \/ CreateFails(c)
           \/ UndoDeduction(c) \/ RollbackRedis(c)
  <2>1. cur' = cur /\ pc'[c] \in Holding
    BY <1>1 DEF MarkProcessed, DeductStock, DeductRefused, CreateFails, UndoDeduction,
       RollbackRedis, GoOn, Holding, TypeOK
  <2>2. Holds(c, r)'
    BY <1>b, <2>1 DEF Holds
  <2>3. \A s \in Requests : s # r => key'[s] = key[s] /\ outcome'[s] = outcome[s]
    BY <1>1, <1>b DEF MarkProcessed, DeductStock, DeductRefused, CreateFails, UndoDeduction,
       RollbackRedis, TypeOK
  <2>4. QED
    BY <1>d, <1>e, <1>f, <2>2, <2>3, SettleOne
<1>2. CASE SkipDuplicate(c)
  <2>1. /\ key[r] /\ pc[c] = "setnx" /\ key' = key
        /\ \A s \in Requests : s # r => outcome'[s] = outcome[s]
    BY <1>2, <1>b DEF SkipDuplicate, RecordDone, TypeOK
  <2>2. Settled(r) \/ \E d \in Consumers : d # c /\ Holds(d, r)
    BY <2>1 DEF SettleInv, Holds, Holding
  <2>3. Settled(r)' \/ \E d \in Consumers : Holds(d, r)'
    BY <1>d, <1>g, <2>2
  <2>4. QED
    BY <1>d, <1>e, <1>f, <2>1, <2>3, SettleOne
<1>3. CASE MarkFails(c)
  <2>1. UNCHANGED <<key, outcome>> /\ pc[c] = "setnx"
    BY <1>3 DEF MarkFails, Fault, NothingLost
  <2>2. \A s \in Requests : ~ Holds(c, s)
    BY <2>1 DEF Holds, Holding
  <2>3. QED
    BY <1>d, <1>f, <2>1, <2>2, SettleQuiet
<1>4. CASE FindTypeFails(c) \/ CreateTicket(c) \/ Unmark(c)
  <2>1. \A s \in Requests : s # r => key'[s] = key[s] /\ outcome'[s] = outcome[s]
    BY <1>4, <1>b DEF FindTypeFails, CreateTicket, Unmark, RecordDone, TypeOK
  <2>2. Settled(r)'
    <3>1. CASE CreateTicket(c)
      <4>1. tickets' = tickets \cup {[req |-> r, top |-> top[c]]}
        BY <3>1, <1>b DEF CreateTicket
      <4>2. [req |-> r, top |-> top[c]].req = r
        OBVIOUS
      <4>3. \E x \in tickets' : x.req = r
        BY <4>1, <4>2
      <4>4. QED
        BY <4>3 DEF Settled
    <3>2. CASE FindTypeFails(c) \/ Unmark(c)
      <4>1. "failed" \in outcome'[r]
        BY <3>2, <1>b DEF FindTypeFails, Unmark, RecordDone, TypeOK
      <4>2. QED
        BY <4>1 DEF Settled
    <3>3. QED
      BY <1>4, <3>1, <3>2
  <2>3. QED
    BY <1>d, <1>e, <1>f, <2>1, <2>2, SettleOne
<1>5. QED
  BY <1>1, <1>2, <1>3, <1>4 DEF Handle

LEMMA SettleConsume ==
    ASSUME TypeOK, LogInv, SettleInv, NothingLost, NEW c \in Consumers, Consume(c)
    PROVE  SettleInv'
<1>c. \A d \in Consumers : d # c => pc'[d] = pc[d] /\ cur'[d] = cur[d]
  BY DEF Consume, Poll, TakeRecord, CommitBatch, DeadLetter, RecordDone, TypeOK
<1>d. \A d \in Consumers, s \in Requests : d # c => Holds(d, s)' = Holds(d, s)
  BY <1>c DEF Holds
<1>e. UNCHANGED <<key, tickets>> /\ pc[c] \notin Holding
  BY DEF Consume, Poll, TakeRecord, CommitBatch, DeadLetter, dbVars, Holding
<1>f. \A s \in Requests : ~ Holds(c, s)
  BY <1>e DEF Holds
<1>1. CASE DeadLetter(c)
  <2>1. PICK r \in Requests : r = cur[c]
    BY <1>1 DEF DeadLetter, LogInv, HandsInv, InHand
  <2>2. RecordDone(c, "deadletter")
    BY <1>1 DEF DeadLetter, Fault, NothingLost
  <2>3. /\ "deadletter" \in outcome'[r]
        /\ \A s \in Requests : s # r => outcome'[s] = outcome[s]
    BY <2>1, <2>2 DEF RecordDone, TypeOK
  <2>4. Settled(r)'
    BY <2>3 DEF Settled
  <2>5. QED
    BY <1>d, <1>e, <1>f, <2>3, <2>4, SettleOne
<1>2. CASE ~ DeadLetter(c)
  <2>1. outcome' = outcome
    BY <1>2 DEF Consume, Poll, TakeRecord, CommitBatch
  <2>2. QED
    BY <1>d, <1>e, <1>f, <2>1, SettleQuiet
<1>3. QED
  BY <1>1, <1>2

LEMMA SettleNext ==
    TypeOK /\ LogInv /\ SettleInv /\ NothingLost /\ [Next]_vars => SettleInv'
<1> SUFFICES ASSUME TypeOK, LogInv, SettleInv, NothingLost, [Next]_vars PROVE SettleInv'
  OBVIOUS
<1>1. CASE (\E r \in Requests : Api(r)) \/ Group \/ UNCHANGED vars
  <2>1. UNCHANGED <<key, outcome, tickets, pc, cur>>
    <3>1. ASSUME NEW r \in Requests, Api(r) PROVE UNCHANGED <<key, outcome, tickets, pc, cur>>
      BY <3>1 DEF Api, RefusePurchase, ReserveTicket, ReserveFails, PublishTicket, PublishFails,
         RollbackReservation, ApiCrash, consumerVars, dbVars
    <3>2. CASE Group
      BY <3>2 DEF Group, Rebalance, ConsumerCrash, Fault, NothingLost, consumerVars, dbVars
    <3>3. QED
      BY <1>1, <3>1, <3>2 DEF vars
  <2>2. QED
    BY <2>1, SettleQuiet DEF Holds
<1>2. QED
  BY <1>1, SettleHandle, SettleConsume DEF Next

\* If no consumer stops, no reply of Redis is lost and dead letters get through,
\* then a record is acknowledged only once it has led to a ticket, a failure
\* notice or a dead letter, or a consumer still has it: rebalances, failed
\* commits, commands and statements, and lost replies of the database included.
THEOREM CommittedSettles ==
    ASSUME NothingLost PROVE Spec => []CommittedIsSettled
<1>1. LogInv /\ SettleInv => CommittedIsSettled
  BY DEF LogInv, CommittedWasHandled, SettleInv, CommittedIsSettled, Holds
<1>2. TypeOK /\ LogInv /\ SettleInv /\ [Next]_vars => SettleInv'
  BY SettleNext
<1>3. QED
  BY <1>1, <1>2, SettleInit, Typing, PTL DEF Spec

=============================================================================
