--------------------------- MODULE TicketPurchase ---------------------------
(***************************************************************************)
(* The purchase pipeline of one event on sale, in its Kafka form:          *)
(*                                                                         *)
(*   - PurchaseTicket (internal/service/ticket_service.go) reserves one    *)
(*     unit in Redis with a Lua script, publishes an order message, and    *)
(*     undoes the reservation when the publication reports an error;       *)
(*   - the Kafka consumer (internal/pkg/kafka/consumer.go) polls batches,  *)
(*     calls the handler on each record up to MaxRetries times, sends what *)
(*     still fails to the dead-letter topic, and commits the batch;        *)
(*   - handleMessage (internal/mq/ticket_consumer.go) marks the message in *)
(*     Redis, deducts the stock of the database and inserts the ticket.    *)
(*                                                                         *)
(* One action is one access to Redis, to the database or to the broker,    *)
(* because between any two of them another process can run or this one     *)
(* can stop.  The failures the code meets are actions too: Faults says     *)
(* which kinds happen and MaxFaults how many of them in one behaviour.     *)
(***************************************************************************)
EXTENDS Integers, FiniteSets

CONSTANTS
    Users, TicketTypes, Consumers, Partitions,
    Requests,       \* the calls of PurchaseTicket a behaviour may contain
    NoRequest,      \* "no record in hand"
    UserOf,         \* input.UserID of a request
    TypeOf,         \* input.TicketTypeID
    QuantityOf,     \* input.Quantity
    PartitionOf,    \* the partition the message key (the user) is routed to
    InitialStock,   \* ticket_types.stock when the event is published
    MaxPerUser,     \* ticket_types.max_per_user
    MaxRetries,     \* ConsumerConfig.MaxRetries
    Faults,         \* the kinds of failure that may happen
    MaxFaults       \* bound on the number of failures of a behaviour

FaultKinds ==
    { "api_crash",          \* the process serving the request stops
      "publish_error",      \* ProduceSync fails, nothing was appended
      "publish_timeout",    \* ProduceSync gives up on a record the broker appended
      "redis_error",        \* a Redis command fails without effect
      "redis_lost_reply",   \* a Redis command takes effect, its reply is lost
      "db_error",           \* a statement fails without effect
      "db_lost_reply",      \* a statement commits, its reply is lost
      "consumer_crash",     \* a consumer process stops
      "rebalance",          \* the group moves a partition to another member
      "commit_error",       \* the offset commit fails
      "dlq_error" }         \* the dead-letter record cannot be produced

ASSUME RequestAssumption ==
    /\ UserOf \in [Requests -> Users]
    /\ TypeOf \in [Requests -> TicketTypes]
    /\ QuantityOf \in [Requests -> Nat \ {0}]
    /\ NoRequest \notin Requests
ASSUME StockAssumption ==
    /\ InitialStock \in [TicketTypes -> Nat]
    /\ MaxPerUser \in [TicketTypes -> Nat]
ASSUME BrokerAssumption ==
    /\ PartitionOf \in [Users -> Partitions]
    /\ MaxRetries \in Nat \ {0}
ASSUME FaultAssumption ==
    /\ Faults \subseteq FaultKinds
    /\ MaxFaults \in Nat

VARIABLES
    call,           \* where the API's handling of a request stands
    redisStock,     \* hash seckill:{ticket:E}:stock
    bought,         \* set seckill:{ticket:E}:bought
    offset,         \* a request's offset in its partition, 0 if not published
    end,            \* the last offset of a partition
    owner,          \* the group member a partition is assigned to
    position,       \* the last offset its owner has polled
    committed,      \* the last offset committed for the group
    pc,             \* the next step of a consumer
    batch,          \* the polled records a consumer has not started on
    cur,            \* the record a consumer is handling
    attempt,        \* the handler calls that have failed on it
    top,            \* the stock its deduction found, 0 before the deduction
    key,            \* whether the request's key mq:processed:... is set
    dbStock,        \* ticket_types.stock
    tickets,        \* the rows of tickets: their request and unit numbers
    outcome,        \* what handling the message has led to so far
    faults          \* the failures so far

apiVars      == <<call>>
redisVars    == <<redisStock, bought>>
brokerVars   == <<offset, end, owner, position, committed>>
consumerVars == <<pc, batch, cur, attempt, top>>
dbVars       == <<dbStock, tickets>>
vars == <<call, redisStock, bought, offset, end, owner, position, committed,
          pc, batch, cur, attempt, top, key, dbStock, tickets, outcome, faults>>

CallStates == {"new", "rejected", "soldout", "duplicate", "reserved",
               "undo", "queued", "failed", "dead"}
ConsumerSteps == {"poll", "next", "setnx", "deduct", "create",
                  "undo", "rollback", "unmark", "dlq"}
Outcomes == {"success", "failed", "skipped", "deadletter", "dropped"}

\* top is a unit number of the initial stock: a deduction of q units that
\* finds s of them in stock is said to take the units s - q + 1 .. s.
Ticket == [req : Requests, top : Int]

Partition(r) == PartitionOf[UserOf[r]]
Published(r) == offset[r] > 0

TypeOK ==
    /\ call \in [Requests -> CallStates]
    /\ redisStock \in [TicketTypes -> Int]
    /\ bought \in SUBSET Users
    /\ offset \in [Requests -> Nat]
    /\ end \in [Partitions -> Nat]
    /\ owner \in [Partitions -> Consumers]
    /\ position \in [Partitions -> Nat]
    /\ committed \in [Partitions -> Nat]
    /\ pc \in [Consumers -> ConsumerSteps]
    /\ batch \in [Consumers -> SUBSET Requests]
    /\ cur \in [Consumers -> Requests \cup {NoRequest}]
    /\ attempt \in [Consumers -> Nat]
    /\ top \in [Consumers -> Int]
    /\ key \in [Requests -> BOOLEAN]
    /\ dbStock \in [TicketTypes -> Int]
    /\ tickets \in SUBSET Ticket
    /\ outcome \in [Requests -> SUBSET Outcomes]
    /\ faults \in Nat

Init ==
    /\ call = [r \in Requests |-> "new"]
    /\ redisStock = InitialStock
    /\ bought = {}
    /\ offset = [r \in Requests |-> 0]
    /\ end = [p \in Partitions |-> 0]
    /\ owner \in [Partitions -> Consumers]
    /\ position = [p \in Partitions |-> 0]
    /\ committed = [p \in Partitions |-> 0]
    /\ pc = [c \in Consumers |-> "poll"]
    /\ batch = [c \in Consumers |-> {}]
    /\ cur = [c \in Consumers |-> NoRequest]
    /\ attempt = [c \in Consumers |-> 0]
    /\ top = [c \in Consumers |-> 0]
    /\ key = [r \in Requests |-> FALSE]
    /\ dbStock = InitialStock
    /\ tickets = {}
    /\ outcome = [r \in Requests |-> {}]
    /\ faults = 0

\* One failure of kind k happens in this step.
Fault(k) ==
    /\ k \in Faults
    /\ faults < MaxFaults
    /\ faults' = faults + 1

NoFault == UNCHANGED faults

-----------------------------------------------------------------------------
(* The two Lua scripts: each is one atomic step of the Redis server.       *)

\* Mutant: the deduction script does not look at the set of buyers.
SeckillAnswerNoBuyers(u, t) == IF redisStock[t] <= 0 THEN "soldout" ELSE "reserved"

\* The deduction script's answer for user u and ticket type t: the stock is
\* tested before the set of buyers.
SeckillAnswer(u, t) ==
    IF redisStock[t] <= 0 THEN "soldout"
    ELSE IF u \in bought THEN "duplicate"
    ELSE "reserved"

\* Mutant: the script's product and user arguments are swapped.
SeckillTakeSwapped(u, t) ==
    /\ redisStock' = [redisStock EXCEPT ![t] = @ - 1]
    /\ bought' = bought \cup {t}

\* Its effect when it answers 1: one unit whatever the quantity, and the
\* user joins the buyers of the event.
SeckillTake(u, t) ==
    /\ redisStock' = [redisStock EXCEPT ![t] = @ - 1]
    /\ bought' = bought \cup {u}

\* Mutant: the rollback script gives the unit back and keeps the buyer.
SeckillRollbackKeepBuyer(u, t) ==
    /\ redisStock' = [redisStock EXCEPT ![t] = @ + 1]
    /\ UNCHANGED bought

\* The rollback script tests nothing.
SeckillRollback(u, t) ==
    /\ redisStock' = [redisStock EXCEPT ![t] = @ + 1]
    /\ bought' = bought \ {u}

-----------------------------------------------------------------------------
(* PurchaseTicket.                                                         *)

\* The call may not ask for more units than the type allows per user.
WithinLimit(r) == QuantityOf[r] <= MaxPerUser[TypeOf[r]]

\* The checks before the script, and the script, for a call that ends here:
\* over the limit, sold out, or a user who is in the set of buyers.
RefusePurchase(r) ==
    /\ call[r] = "new"
    /\ LET answer == SeckillAnswer(UserOf[r], TypeOf[r]) IN
       call' = [call EXCEPT ![r] = IF WithinLimit(r) THEN answer ELSE "rejected"]
    /\ call'[r] # "reserved"
    /\ NoFault
    /\ UNCHANGED <<redisVars, brokerVars, consumerVars, key, dbVars, outcome>>

\* The script reserves a unit.
ReserveTicket(r) ==
    /\ call[r] = "new"
    /\ WithinLimit(r)
    /\ SeckillAnswer(UserOf[r], TypeOf[r]) = "reserved"
    /\ SeckillTake(UserOf[r], TypeOf[r])
    /\ call' = [call EXCEPT ![r] = "reserved"]
    /\ NoFault
    /\ UNCHANGED <<brokerVars, consumerVars, key, dbVars, outcome>>

\* SeckillDeduct returns an error: the call fails, and nothing undoes the
\* script if it has run.
ReserveFails(r) ==
    /\ call[r] = "new"
    /\ WithinLimit(r)
    /\ call' = [call EXCEPT ![r] = "failed"]
    /\ \/ Fault("redis_error") /\ UNCHANGED redisVars
       \/ /\ Fault("redis_lost_reply")
          /\ SeckillAnswer(UserOf[r], TypeOf[r]) = "reserved"
          /\ SeckillTake(UserOf[r], TypeOf[r])
    /\ UNCHANGED <<brokerVars, consumerVars, key, dbVars, outcome>>

\* The broker appends the message to the partition of its key, the user.
AppendRecord(r) ==
    /\ end' = [end EXCEPT ![Partition(r)] = @ + 1]
    /\ offset' = [offset EXCEPT ![r] = end[Partition(r)] + 1]
    /\ UNCHANGED <<owner, position, committed>>

\* PublishTicket succeeds and the caller is told it is queued.
PublishTicket(r) ==
    /\ call[r] = "reserved"
    /\ AppendRecord(r)
    /\ call' = [call EXCEPT ![r] = "queued"]
    /\ NoFault
    /\ UNCHANGED <<redisVars, consumerVars, key, dbVars, outcome>>

\* PublishTicket reports an error.  After the five seconds of its timeout the
\* record may be in the log all the same.
PublishFails(r) ==
    /\ call[r] = "reserved"
    /\ call' = [call EXCEPT ![r] = "undo"]
    /\ \/ Fault("publish_error") /\ UNCHANGED brokerVars
       \/ Fault("publish_timeout") /\ AppendRecord(r)
    /\ UNCHANGED <<redisVars, consumerVars, key, dbVars, outcome>>

\* The reservation is undone after a failed publication; an error of the
\* script is ignored.
RollbackReservation(r) ==
    /\ call[r] = "undo"
    /\ call' = [call EXCEPT ![r] = "failed"]
    /\ \/ SeckillRollback(UserOf[r], TypeOf[r]) /\ NoFault
       \/ Fault("redis_error") /\ UNCHANGED redisVars
    /\ UNCHANGED <<brokerVars, consumerVars, key, dbVars, outcome>>

\* The serving process stops between two steps: nothing resumes the call.
ApiCrash(r) ==
    /\ call[r] \in {"reserved", "undo"}
    /\ call' = [call EXCEPT ![r] = "dead"]
    /\ Fault("api_crash")
    /\ UNCHANGED <<redisVars, brokerVars, consumerVars, key, dbVars, outcome>>

-----------------------------------------------------------------------------
(* The consumer group and the consume loop.                                *)

\* PollFetches hands c the next records of the partitions it owns, up to
\* some offset of each.
Poll(c) ==
    /\ pc[c] = "poll"
    /\ \E upto \in [Partitions -> 0 .. Cardinality(Requests)] :
         /\ \A p \in Partitions :
              IF owner[p] = c THEN upto[p] \in position[p] .. end[p]
                              ELSE upto[p] = position[p]
         /\ upto # position
         /\ position' = upto
         /\ batch' = [batch EXCEPT ![c] =
                {r \in Requests : /\ position[Partition(r)] < offset[r]
                                  /\ offset[r] <= upto[Partition(r)]}]
    /\ pc' = [pc EXCEPT ![c] = "next"]
    /\ NoFault
    /\ UNCHANGED <<apiVars, redisVars, offset, end, owner, committed,
                   cur, attempt, top, key, dbVars, outcome>>

\* The records of a batch are handled one by one, those of a partition in
\* the order of their offsets.
TakeRecord(c) ==
    /\ pc[c] = "next"
    /\ \E r \in batch[c] :
         /\ \A s \in batch[c] : Partition(s) = Partition(r) => offset[r] <= offset[s]
         /\ cur' = [cur EXCEPT ![c] = r]
         /\ batch' = [batch EXCEPT ![c] = @ \ {r}]
    /\ pc' = [pc EXCEPT ![c] = "setnx"]
    /\ NoFault
    /\ UNCHANGED <<apiVars, redisVars, brokerVars, attempt, top, key, dbVars, outcome>>

\* CommitUncommittedOffsets commits what c has polled from the partitions it
\* still owns; a failed commit is logged and not tried again.
CommitBatch(c) ==
    /\ pc[c] = "next"
    /\ batch[c] = {}
    /\ pc' = [pc EXCEPT ![c] = "poll"]
    /\ \/ /\ committed' = [p \in Partitions |->
                              IF owner[p] = c THEN position[p] ELSE committed[p]]
          /\ NoFault
       \/ Fault("commit_error") /\ UNCHANGED committed
    /\ UNCHANGED <<apiVars, redisVars, offset, end, owner, position,
                   batch, cur, attempt, top, key, dbVars, outcome>>

\* c is done with its record, which res is added to the outcome of.
RecordDone(c, res) ==
    /\ outcome' = [outcome EXCEPT ![cur[c]] = @ \cup {res}]
    /\ pc' = [pc EXCEPT ![c] = "next"]
    /\ cur' = [cur EXCEPT ![c] = NoRequest]
    /\ attempt' = [attempt EXCEPT ![c] = 0]
    /\ top' = [top EXCEPT ![c] = 0]
    /\ UNCHANGED batch

\* Mutant: a record whose attempts are used up is dropped without a trace.
AttemptFailedDrops(c) ==
    /\ attempt' = [attempt EXCEPT ![c] = IF @ + 1 < MaxRetries THEN @ + 1 ELSE 0]
    /\ pc' = [pc EXCEPT ![c] = IF attempt[c] + 1 < MaxRetries THEN "setnx" ELSE "next"]
    /\ cur' = [cur EXCEPT ![c] = IF attempt[c] + 1 < MaxRetries THEN @ ELSE NoRequest]
    /\ top' = [top EXCEPT ![c] = 0]
    /\ UNCHANGED batch

\* handleMessage has returned an error: call it again, or give the record up.
AttemptFailed(c) ==
    /\ attempt' = [attempt EXCEPT ![c] = @ + 1]
    /\ pc' = [pc EXCEPT ![c] = IF attempt[c] + 1 < MaxRetries THEN "setnx" ELSE "dlq"]
    /\ top' = [top EXCEPT ![c] = 0]
    /\ UNCHANGED <<batch, cur>>

\* c goes on with step next of handleMessage.
GoOn(c, next) ==
    /\ pc' = [pc EXCEPT ![c] = next]
    /\ UNCHANGED <<batch, cur, attempt>>

\* The record is produced to the dead-letter topic, which nothing consumes;
\* an error is logged and the record is gone.
DeadLetter(c) ==
    /\ pc[c] = "dlq"
    /\ \/ RecordDone(c, "deadletter") /\ NoFault
       \/ RecordDone(c, "dropped") /\ Fault("dlq_error")
    /\ UNCHANGED <<apiVars, redisVars, brokerVars, key, dbVars>>

\* Mutant: the new owner goes on where the former one has polled to.
AssignKeepingPosition(p, c) ==
    /\ owner' = [owner EXCEPT ![p] = c]
    /\ UNCHANGED position

\* Mutant: the new owner starts at the end of the log.
AssignAtEnd(p, c) ==
    /\ owner' = [owner EXCEPT ![p] = c]
    /\ position' = [position EXCEPT ![p] = end[p]]

\* The group assigns p to another member: it starts at the committed offset,
\* and the former owner goes on with what it has polled.
Assign(p, c) ==
    /\ owner' = [owner EXCEPT ![p] = c]
    /\ position' = [position EXCEPT ![p] = committed[p]]

Rebalance(p, c) ==
    /\ owner[p] # c
    /\ Assign(p, c)
    /\ Fault("rebalance")
    /\ UNCHANGED <<apiVars, redisVars, offset, end, committed, consumerVars,
                   key, dbVars, outcome>>

\* A consumer process stops, losing its local state, and another process
\* takes its place in the group.
ConsumerCrash(c) ==
    /\ pc[c] # "poll"
    /\ pc' = [pc EXCEPT ![c] = "poll"]
    /\ batch' = [batch EXCEPT ![c] = {}]
    /\ cur' = [cur EXCEPT ![c] = NoRequest]
    /\ attempt' = [attempt EXCEPT ![c] = 0]
    /\ top' = [top EXCEPT ![c] = 0]
    /\ position' = [p \in Partitions |->
                       IF owner[p] = c THEN committed[p] ELSE position[p]]
    /\ Fault("consumer_crash")
    /\ UNCHANGED <<apiVars, redisVars, offset, end, owner, committed, key, dbVars, outcome>>

-----------------------------------------------------------------------------
(* handleMessage.                                                          *)

\* Mutant: the key is written with SET instead of SETNX.
MarkProcessedWithSet(c) ==
    /\ pc[c] = "setnx"
    /\ key' = [key EXCEPT ![cur[c]] = TRUE]
    /\ GoOn(c, "deduct")
    /\ NoFault
    /\ UNCHANGED <<apiVars, redisVars, brokerVars, top, dbVars, outcome>>

\* The key is set by this call: c goes on.
MarkProcessed(c) ==
    /\ pc[c] = "setnx"
    /\ ~ key[cur[c]]
    /\ key' = [key EXCEPT ![cur[c]] = TRUE]
    /\ GoOn(c, "deduct")
    /\ NoFault
    /\ UNCHANGED <<apiVars, redisVars, brokerVars, top, dbVars, outcome>>

\* The key is there: the message is taken for a duplicate and skipped.
SkipDuplicate(c) ==
    /\ pc[c] = "setnx"
    /\ key[cur[c]]
    /\ RecordDone(c, "skipped")
    /\ NoFault
    /\ UNCHANGED <<apiVars, redisVars, brokerVars, key, dbVars>>

\* SetNX returns an error, which the handler returns.
MarkFails(c) ==
    /\ pc[c] = "setnx"
    /\ AttemptFailed(c)
    /\ \/ Fault("redis_error") /\ UNCHANGED key
       \/ Fault("redis_lost_reply") /\ key' = [key EXCEPT ![cur[c]] = TRUE]
    /\ UNCHANGED <<apiVars, redisVars, brokerVars, dbVars, outcome>>

\* FindByID returns an error: the user is told, and nothing is undone.
FindTypeFails(c) ==
    /\ pc[c] = "deduct"
    /\ RecordDone(c, "failed")
    /\ Fault("db_error")
    /\ UNCHANGED <<apiVars, redisVars, brokerVars, key, dbVars>>

\* Mutant: the UPDATE tests for one unit, as the script of Redis does.
EnoughStockForOne(t, q) == dbStock[t] > 0

\* The condition of the guarded UPDATE.
EnoughStock(t, q) == dbStock[t] >= q

\* UpdateStock subtracts its argument without a condition.
UpdateStock(t, q) == dbStock' = [dbStock EXCEPT ![t] = @ - q]

\* AtomicDeductStock takes the units.
DeductStock(c) ==
    LET r == cur[c] IN
    /\ pc[c] = "deduct"
    /\ EnoughStock(TypeOf[r], QuantityOf[r])
    /\ UpdateStock(TypeOf[r], QuantityOf[r])
    /\ top' = [top EXCEPT ![c] = dbStock[TypeOf[r]]]
    /\ GoOn(c, "create")
    /\ NoFault
    /\ UNCHANGED <<apiVars, redisVars, brokerVars, key, tickets, outcome>>

\* AtomicDeductStock returns an error, which the handler takes for a lack of
\* stock whatever it is.
DeductRefused(c) ==
    LET r == cur[c] IN
    /\ pc[c] = "deduct"
    /\ GoOn(c, "rollback")
    /\ \/ ~ EnoughStock(TypeOf[r], QuantityOf[r]) /\ NoFault /\ UNCHANGED dbStock
       \/ Fault("db_error") /\ UNCHANGED dbStock
       \/ /\ Fault("db_lost_reply")
          /\ EnoughStock(TypeOf[r], QuantityOf[r])
          /\ UpdateStock(TypeOf[r], QuantityOf[r])
    /\ UNCHANGED <<apiVars, redisVars, brokerVars, top, key, tickets, outcome>>

\* The ticket is inserted, and the user is told.
CreateTicket(c) ==
    /\ pc[c] = "create"
    /\ tickets' = tickets \cup {[req |-> cur[c], top |-> top[c]]}
    /\ RecordDone(c, "success")
    /\ NoFault
    /\ UNCHANGED <<apiVars, redisVars, brokerVars, key, dbStock>>

\* Create returns an error, after which the row may be there all the same.
CreateFails(c) ==
    /\ pc[c] = "create"
    /\ GoOn(c, "undo")
    /\ \/ Fault("db_error") /\ UNCHANGED tickets
       \/ /\ Fault("db_lost_reply")
          /\ tickets' = tickets \cup {[req |-> cur[c], top |-> top[c]]}
    /\ UNCHANGED <<apiVars, redisVars, brokerVars, top, key, dbStock, outcome>>

\* What the handler does to the stock of the database when Create has failed:
\* UpdateStock(id, +quantity), its error ignored.
UndoDeduction(c) ==
    LET r == cur[c] IN
    /\ pc[c] = "undo"
    /\ \/ UpdateStock(TypeOf[r], QuantityOf[r]) /\ NoFault
       \/ Fault("db_error") /\ UNCHANGED dbStock
    /\ GoOn(c, "rollback")
    /\ UNCHANGED <<apiVars, redisVars, brokerVars, top, key, tickets, outcome>>

\* The reservation in Redis is undone, after a refusal or a failed Create; an
\* error is ignored.
RollbackRedis(c) ==
    /\ pc[c] = "rollback"
    /\ \/ SeckillRollback(UserOf[cur[c]], TypeOf[cur[c]]) /\ NoFault
       \/ Fault("redis_error") /\ UNCHANGED redisVars
    /\ GoOn(c, "unmark")
    /\ UNCHANGED <<apiVars, brokerVars, top, key, dbVars, outcome>>

\* The key is deleted (an error is ignored) and the user told of the failure.
\* After a refusal the handler returns nil, after a failed Create the error.
Unmark(c) ==
    /\ pc[c] = "unmark"
    /\ \/ key' = [key EXCEPT ![cur[c]] = FALSE] /\ NoFault
       \/ Fault("redis_error") /\ UNCHANGED key
    /\ IF top[c] = 0
       THEN RecordDone(c, "failed")
       ELSE /\ outcome' = [outcome EXCEPT ![cur[c]] = @ \cup {"failed"}]
            /\ AttemptFailed(c)
    /\ UNCHANGED <<apiVars, redisVars, brokerVars, dbVars>>

-----------------------------------------------------------------------------
Api(r) ==
    \/ RefusePurchase(r) \/ ReserveTicket(r) \/ ReserveFails(r)
    \/ PublishTicket(r) \/ PublishFails(r) \/ RollbackReservation(r)
    \/ ApiCrash(r)

Consume(c) ==
    \/ Poll(c) \/ TakeRecord(c) \/ CommitBatch(c) \/ DeadLetter(c)

Handle(c) ==
    \/ MarkProcessed(c) \/ SkipDuplicate(c) \/ MarkFails(c)
    \/ FindTypeFails(c) \/ DeductStock(c) \/ DeductRefused(c)
    \/ CreateTicket(c) \/ CreateFails(c)
    \/ UndoDeduction(c) \/ RollbackRedis(c) \/ Unmark(c)

Group ==
    \/ \E p \in Partitions, c \in Consumers : Rebalance(p, c)
    \/ \E c \in Consumers : ConsumerCrash(c)

Next ==
    \/ \E r \in Requests : Api(r)
    \/ \E c \in Consumers : Consume(c) \/ Handle(c)
    \/ Group

Spec == Init /\ [][Next]_vars

(***************************************************************************)
(* The loops run while their processes do: no step of the API's handling   *)
(* or of a consumer is put off for ever.  Users need not call, and no      *)
(* failure has to happen.                                                  *)
(***************************************************************************)
ApiStep(r) == PublishTicket(r) \/ RollbackReservation(r)

Fairness ==
    /\ \A r \in Requests : WF_vars(ApiStep(r))
    /\ \A c \in Consumers : WF_vars(Consume(c)) /\ WF_vars(Handle(c))

FairSpec == Spec /\ Fairness

-----------------------------------------------------------------------------
(* Properties.                                                             *)

Units(x) == (x.top - QuantityOf[x.req] + 1) .. x.top

\* No unit is sold that was not in stock, and none is sold twice, although the
\* stock of Redis counts calls and not units and is given back too often: the
\* guarded UPDATE of AtomicDeductStock alone stands between the two.
UnitsSoldOnce ==
    /\ \A x \in tickets : Units(x) \subseteq 1 .. InitialStock[TypeOf[x.req]]
    /\ \A x, y \in tickets :
          x # y /\ TypeOf[x.req] = TypeOf[y.req] => Units(x) \cap Units(y) = {}

\* While no consumer is between its deduction and the end of its handling, the
\* units sold are those that the stock has sunk by: a handling that fails
\* after the deduction gives the units back ("roll back the stock of the
\* database", ticket_consumer.go:131).
StockAccountedFor ==
    (\A c \in Consumers : pc[c] \in {"poll", "next", "setnx", "deduct"})
        => \A t \in TicketTypes :
              UNION {Units(x) : x \in {y \in tickets : TypeOf[y.req] = t}}
                  = dbStock[t] + 1 .. InitialStock[t]

\* However often its record is delivered, and to however many consumers at a
\* time, a request becomes at most one ticket: the key set by SetNX before the
\* deduction outlives every delivery.
AtMostOneTicketPerRequest ==
    \A x, y \in tickets : x.req = y.req => x = y

\* The group never commits past a record whose handling has not ended: a crash
\* or a rebalance between poll and commit has it delivered again.
CommittedWasHandled ==
    \A r \in Requests :
        Published(r) /\ offset[r] <= committed[Partition(r)] => outcome[r] # {}

\* What a user can count on after "queued": a ticket, a failure notice, or an
\* entry in the dead-letter topic.
Settled(r) ==
    \/ \E x \in tickets : x.req = r
    \/ outcome[r] \cap {"failed", "deadletter"} # {}

\* A record is acknowledged only once it has been dealt with ("manual commit,
\* to acknowledge only after successful processing", kafka/consumer.go:46).
CommittedIsSettled ==
    \A r \in Requests :
        Published(r) /\ offset[r] <= committed[Partition(r)]
            => Settled(r) \/ \E c \in Consumers : cur[c] = r \/ r \in batch[c]

\* Every published message is eventually dealt with.
PublishedIsSettled == \A r \in Requests : Published(r) ~> Settled(r)

\* A reservation in Redis is outstanding until it is rolled back.
Outstanding(r) ==
    /\ call[r] \in {"reserved", "undo", "queued"}
    /\ "failed" \notin outcome[r]
    /\ ~ \E c \in Consumers : cur[c] = r /\ pc[c] = "unmark"

\* As long as nothing has failed, Redis accounts for each unit of its stock: it
\* is in the hash or reserved by one user, and the set of buyers holds exactly
\* the users with a reservation, one each.
RedisAccountsForUnits ==
    faults = 0 =>
        /\ \A t \in TicketTypes :
              redisStock[t] + Cardinality({r \in Requests : Outstanding(r) /\ TypeOf[r] = t})
                  = InitialStock[t]
        /\ bought = {UserOf[r] : r \in {s \in Requests : Outstanding(s)}}
        /\ \A r, s \in Requests :
              Outstanding(r) /\ Outstanding(s) /\ UserOf[r] = UserOf[s] => r = s

\* As long as nothing has failed, a user has at most one ticket of the event.
OneTicketPerUser ==
    faults = 0 => \A x, y \in tickets : UserOf[x.req] = UserOf[y.req] => x = y

-----------------------------------------------------------------------------
(* The pipeline implements TicketSales.                                    *)

Creating(r) == \E c \in Consumers : pc[c] = "create" /\ cur[c] = r
Ticketed(r) == \E x \in tickets : x.req = r

Sales == INSTANCE TicketSales WITH
    left <- [t \in TicketTypes |-> IF dbStock[t] < 0 THEN 0 ELSE dbStock[t]],
    sale <- [r \in Requests |-> IF Ticketed(r) THEN "sold"
                                ELSE IF Creating(r) THEN "held"
                                ELSE "open"]

\* The steps of the consumers on the stock and the tickets are holds, sales,
\* and losses of TicketSales.
ImplementsSales == Sales!SalesSpec

=============================================================================
