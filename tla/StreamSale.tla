----------------------------- MODULE StreamSale -----------------------------
(***************************************************************************)
(* The purchase pipeline of one event on sale in its other form: without   *)
(* Kafka the order message is an entry of a Redis stream, which the        *)
(* processes that serve purchases read as members of one consumer group    *)
(* (internal/mq/redis_stream_consumer.go).  What differs from              *)
(* TicketPurchase is the delivery and the clean-up:                        *)
(*                                                                         *)
(*   - an entry is read once: what a stopped consumer held stays pending   *)
(*     for ever, since a new process reads new entries under a new name;   *)
(*   - every entry is acknowledged, also when the handler gave up on it;   *)
(*   - the units of a failed order are returned in Redis under the key of  *)
(*     the event id, while purchases use the key "ticket:" and that id;    *)
(*   - the Redis client repeats a command whose reply is lost, so an entry *)
(*     may be added twice and a command may meet its own effect.           *)
(***************************************************************************)
EXTENDS Integers, FiniteSets, Sequences, SequencesExt

CONSTANTS
    Users, TicketTypes, Consumers,
    Requests,       \* the calls of PurchaseTicket a behaviour may contain
    UserOf, TypeOf, QuantityOf,
    InitialStock, MaxPerUser,
    BatchSize,      \* the COUNT of XREADGROUP
    Faults,         \* the kinds of failure that may happen
    MaxFaults       \* bound on the number of failures of a behaviour

FaultKinds ==
    { "api_crash", "consumer_crash",
      "redis_error",    \* a Redis command fails without effect
      "redis_lost",     \* it takes effect, and the caller gets an error
      "redis_repeat",   \* it takes effect, and the client repeats it
      "db_error",       \* a statement fails without effect
      "db_lost" }       \* a statement commits, and the caller gets an error

ASSUME RequestAssumption ==
    /\ UserOf \in [Requests -> Users]
    /\ TypeOf \in [Requests -> TicketTypes]
    /\ QuantityOf \in [Requests -> Nat \ {0}]
ASSUME StockAssumption ==
    /\ InitialStock \in [TicketTypes -> Nat]
    /\ MaxPerUser \in [TicketTypes -> Nat]
ASSUME BoundAssumption ==
    /\ BatchSize \in Nat \ {0}
    /\ Faults \subseteq FaultKinds
    /\ MaxFaults \in Nat

VARIABLES
    call,           \* where the API's handling of a request stands
    redisStock,     \* hash seckill:{ticket:E}:stock
    bought,         \* set seckill:{ticket:E}:bought
    stray,          \* hash seckill:{E}:stock, which no purchase reads
    stream,         \* the entries of the stream
    group,          \* whether the consumer group exists
    delivered,      \* the last entry delivered to the group
    pending,        \* the entries delivered and not acknowledged
    pc,             \* the next step of a consumer
    at, upto,       \* the entry a consumer is at, and the last of its batch
    top,            \* the stock its deduction found, 0 before the deduction
    key,            \* whether the request's key mq:processed:... is set
    dbStock,        \* ticket_types.stock
    tickets,        \* the rows of tickets: their request, the stock their
                    \* deduction found, and whether the INSERT was reported
    outcome,        \* what handling the message has led to so far
    faults          \* the failures so far

redisVars    == <<redisStock, bought, stray>>
streamVars   == <<stream, group, delivered, pending>>
consumerVars == <<pc, at, upto, top>>
dbVars       == <<dbStock, tickets>>
vars == <<call, redisStock, bought, stray, stream, group, delivered, pending,
          pc, at, upto, top, key, dbStock, tickets, outcome, faults>>

CallStates == {"new", "refused", "reserved", "undo", "queued", "failed", "dead"}
ConsumerSteps == {"start", "read", "setnx", "deduct", "create",
                  "undo", "rollback", "unmark", "ack"}

\* What came of an entry: a ticket; a failure the user is told of; "skipped", its
\* key being set; "unmarked", its key could not be set; "lost", nobody handled it
\* to the end, since its consumer stopped or never got it.
Outcomes == {"ticket", "failed", "skipped", "unmarked", "lost"}
Ticket == [req : Requests, top : Int, told : BOOLEAN]

ApiTypes ==
    /\ call \in [Requests -> CallStates]
    /\ redisStock \in [TicketTypes -> Int]
    /\ bought \in SUBSET Users
    /\ stray \in [TicketTypes -> Int]

StreamTypes ==
    /\ stream \in Seq(Requests)
    /\ group \in BOOLEAN
    /\ delivered \in 0 .. Len(stream)
    /\ pending \in SUBSET (1 .. delivered)
    /\ pc \in [Consumers -> ConsumerSteps]
    /\ at \in [Consumers -> Nat]
    /\ upto \in [Consumers -> 0 .. delivered]
    /\ \A c \in Consumers : pc[c] \notin {"start", "read"} => at[c] \in 1 .. upto[c]

WorkTypes ==
    /\ top \in [Consumers -> Int]
    /\ key \in [Requests -> BOOLEAN]
    /\ dbStock \in [TicketTypes -> Int]
    /\ tickets \in SUBSET Ticket
    /\ outcome \in [Requests -> SUBSET Outcomes]
    /\ faults \in Nat

TypeOK == ApiTypes /\ StreamTypes /\ WorkTypes

Init ==
    /\ call = [r \in Requests |-> "new"]
    /\ redisStock = InitialStock
    /\ bought = {}
    /\ stray = [t \in TicketTypes |-> 0]
    /\ stream = << >>
    /\ group = FALSE
    /\ delivered = 0
    /\ pending = {}
    /\ pc = [c \in Consumers |-> "start"]
    /\ at = [c \in Consumers |-> 0]
    /\ upto = [c \in Consumers |-> 0]
    /\ top = [c \in Consumers |-> 0]
    /\ key = [r \in Requests |-> FALSE]
    /\ dbStock = InitialStock
    /\ tickets = {}
    /\ outcome = [r \in Requests |-> {}]
    /\ faults = 0

\* One failure of kind k happens in this step.
Fault(k) ==
    /\ k \in Faults
    /\ faults < MaxFaults
    /\ faults' = faults + 1

NoFault == UNCHANGED faults

-----------------------------------------------------------------------------
(* PurchaseTicket.                                                         *)

\* Mutant: the script does not look among the buyers.
MayTakeAgain(r) == redisStock[TypeOf[r]] > 0

\* The deduction script finds stock, and the user not among the buyers.
MayTake(r) == redisStock[TypeOf[r]] > 0 /\ UserOf[r] \notin bought

\* It takes one unit, and adds the user to the buyers.
Take(r) ==
    /\ MayTake(r)
    /\ redisStock' = [redisStock EXCEPT ![TypeOf[r]] = @ - 1]
    /\ bought' = bought \cup {UserOf[r]}
    /\ UNCHANGED stray

\* The call is over the limit per user, or runs the script.  A script whose
\* reply is lost fails the call, or is repeated by the client: then it finds
\* the user among the buyers it has just joined, and the call is refused.
PurchaseTicket(r) ==
    /\ call[r] = "new"
    /\ \/ /\ QuantityOf[r] > MaxPerUser[TypeOf[r]] \/ ~ MayTake(r)
          /\ call' = [call EXCEPT ![r] = "refused"]
          /\ NoFault /\ UNCHANGED redisVars
       \/ /\ QuantityOf[r] <= MaxPerUser[TypeOf[r]]
          /\ \/ /\ Take(r)
                /\ \/ call' = [call EXCEPT ![r] = "reserved"] /\ NoFault
                   \/ call' = [call EXCEPT ![r] = "failed"] /\ Fault("redis_lost")
                   \/ call' = [call EXCEPT ![r] = "refused"] /\ Fault("redis_repeat")
             \/ /\ call' = [call EXCEPT ![r] = "failed"]
                /\ Fault("redis_error") /\ UNCHANGED redisVars
    /\ UNCHANGED <<streamVars, consumerVars, key, dbVars, outcome>>

\* XADD succeeds; a repeated one adds the entry twice.
PublishTicket(r) ==
    /\ call[r] = "reserved"
    /\ call' = [call EXCEPT ![r] = "queued"]
    /\ \/ stream' = Append(stream, r) /\ NoFault
       \/ stream' = Append(Append(stream, r), r) /\ Fault("redis_repeat")
    /\ UNCHANGED <<redisVars, group, delivered, pending, consumerVars, key, dbVars, outcome>>

\* XADD reports an error, and the entry may have been added.
PublishFails(r) ==
    /\ call[r] = "reserved"
    /\ call' = [call EXCEPT ![r] = "undo"]
    /\ \/ Fault("redis_error") /\ UNCHANGED stream
       \/ Fault("redis_lost") /\ stream' = Append(stream, r)
    /\ UNCHANGED <<redisVars, group, delivered, pending, consumerVars, key, dbVars, outcome>>

\* PurchaseTicket undoes the reservation under the key it was made with; a
\* repeated script returns the unit twice.
RollbackReservation(r) ==
    /\ call[r] = "undo"
    /\ call' = [call EXCEPT ![r] = "failed"]
    /\ \/ /\ \/ NoFault /\ redisStock' = [redisStock EXCEPT ![TypeOf[r]] = @ + 1]
             \/ /\ Fault("redis_repeat")
                /\ redisStock' = [redisStock EXCEPT ![TypeOf[r]] = @ + 2]
          /\ bought' = bought \ {UserOf[r]}
          /\ UNCHANGED stray
       \/ Fault("redis_error") /\ UNCHANGED redisVars
    /\ UNCHANGED <<streamVars, consumerVars, key, dbVars, outcome>>

ApiCrash(r) ==
    /\ call[r] \in {"reserved", "undo"}
    /\ call' = [call EXCEPT ![r] = "dead"]
    /\ Fault("api_crash")
    /\ UNCHANGED <<redisVars, streamVars, consumerVars, key, dbVars, outcome>>

-----------------------------------------------------------------------------
(* The consume loop.                                                       *)

\* The request of the entry c is at.
Cur(c) == stream[at[c]]

\* Start creates the group, or finds that it exists; an error is ignored.
Start(c) ==
    /\ pc[c] = "start"
    /\ pc' = [pc EXCEPT ![c] = "read"]
    /\ \/ group' = TRUE /\ NoFault
       \/ Fault("redis_error") /\ UNCHANGED group
    /\ UNCHANGED <<call, redisVars, stream, delivered, pending, at, upto, top,
                   key, dbVars, outcome>>

\* XREADGROUP with ">" delivers the next entries to c and counts them as
\* pending.  When its reply is lost c never sees them.  Without the group,
\* without new entries or after an error c sleeps and reads again.
Read(c) ==
    /\ pc[c] = "read" /\ group /\ delivered < Len(stream)
    /\ LET most == delivered + BatchSize
           last == IF most < Len(stream) THEN most ELSE Len(stream) IN
       /\ delivered' = last
       /\ pending' = pending \cup (delivered + 1 .. last)
       /\ \/ /\ at' = [at EXCEPT ![c] = delivered + 1]
             /\ upto' = [upto EXCEPT ![c] = last]
             /\ pc' = [pc EXCEPT ![c] = "setnx"]
             /\ NoFault /\ UNCHANGED outcome
          \/ /\ outcome' = [r \in Requests |->
                    IF \E i \in delivered + 1 .. last : stream[i] = r
                    THEN outcome[r] \cup {"lost"} ELSE outcome[r]]
             /\ Fault("redis_lost") /\ UNCHANGED <<pc, at, upto>>
    /\ UNCHANGED <<call, redisVars, stream, group, top, key, dbVars>>

\* processTicket returns; res is added to the outcome of the request.
Return(c, res) ==
    /\ outcome' = [outcome EXCEPT ![Cur(c)] = @ \cup {res}]
    /\ pc' = [pc EXCEPT ![c] = "ack"]
    /\ UNCHANGED <<at, upto, top>>

NextEntry(c) ==
    /\ at' = [at EXCEPT ![c] = @ + 1]
    /\ pc' = [pc EXCEPT ![c] = "setnx"]
    /\ UNCHANGED upto

EndBatch(c, next) ==
    /\ at' = [at EXCEPT ![c] = 0]
    /\ upto' = [upto EXCEPT ![c] = 0]
    /\ pc' = [pc EXCEPT ![c] = next]

\* Mutant: an entry whose acknowledgement fails ends the batch.
AckOrBreak(c) ==
    /\ pc[c] = "ack"
    /\ \/ pending' = pending \ {at[c]} /\ NoFault
       \/ Fault("redis_error") /\ UNCHANGED pending
    /\ top' = [top EXCEPT ![c] = 0]
    /\ \/ at[c] < upto[c] /\ pending' # pending /\ NextEntry(c)
       \/ (at[c] = upto[c] \/ pending' = pending) /\ EndBatch(c, "read")
    /\ UNCHANGED <<call, redisVars, stream, group, delivered, key, dbVars, outcome>>

\* The entry is acknowledged whatever processTicket has done (an error is
\* ignored), and c goes on with its batch.
Ack(c) ==
    /\ pc[c] = "ack"
    /\ \/ pending' = pending \ {at[c]} /\ NoFault
       \/ Fault("redis_error") /\ UNCHANGED pending
    /\ top' = [top EXCEPT ![c] = 0]
    /\ \/ at[c] < upto[c] /\ NextEntry(c)
       \/ at[c] = upto[c] /\ EndBatch(c, "read")
    /\ UNCHANGED <<call, redisVars, stream, group, delivered, key, dbVars, outcome>>

\* A consumer stops: nobody reads the entries of its batch again.
ConsumerCrash(c) ==
    /\ pc[c] \notin {"start", "read"}
    /\ outcome' = [r \in Requests |->
           IF \E i \in at[c] .. upto[c] : stream[i] = r /\ (i = at[c] => pc[c] # "ack")
           THEN outcome[r] \cup {"lost"} ELSE outcome[r]]
    /\ EndBatch(c, "start")
    /\ top' = [top EXCEPT ![c] = 0]
    /\ Fault("consumer_crash")
    /\ UNCHANGED <<call, redisVars, streamVars, key, dbVars>>

-----------------------------------------------------------------------------
(* processTicket.                                                          *)

GoOn(c, next) ==
    /\ pc' = [pc EXCEPT ![c] = next]
    /\ UNCHANGED <<at, upto>>

\* Mutant: the key is written with SET instead of SETNX.
MarkWithSet(c) ==
    /\ pc[c] = "setnx"
    /\ key' = [key EXCEPT ![Cur(c)] = TRUE]
    /\ GoOn(c, "deduct")
    /\ NoFault
    /\ UNCHANGED <<call, redisVars, streamVars, top, dbVars, outcome>>

\* SETNX sets the key.
Mark(c) ==
    /\ pc[c] = "setnx"
    /\ ~ key[Cur(c)]
    /\ key' = [key EXCEPT ![Cur(c)] = TRUE]
    /\ GoOn(c, "deduct")
    /\ NoFault
    /\ UNCHANGED <<call, redisVars, streamVars, top, dbVars, outcome>>

\* SETNX finds the key.
Skip(c) ==
    /\ pc[c] = "setnx"
    /\ key[Cur(c)]
    /\ Return(c, "skipped")
    /\ NoFault
    /\ UNCHANGED <<call, redisVars, streamVars, key, dbVars>>

\* SETNX reports an error, or was repeated by the client and reports the key it
\* has set itself.  processTicket returns, and the entry is acknowledged.
MarkFails(c) ==
    /\ pc[c] = "setnx"
    /\ Return(c, "unmarked")
    /\ \/ Fault("redis_error") /\ UNCHANGED key
       \/ /\ \/ Fault("redis_lost")
             \/ ~ key[Cur(c)] /\ Fault("redis_repeat")
          /\ key' = [key EXCEPT ![Cur(c)] = TRUE]
    /\ UNCHANGED <<call, redisVars, streamVars, dbVars>>

\* FindByID fails: the user is told, and nothing is undone.
FindTypeFails(c) ==
    /\ pc[c] = "deduct"
    /\ Return(c, "failed")
    /\ Fault("db_error")
    /\ UNCHANGED <<call, redisVars, streamVars, key, dbVars>>

\* Mutant: one unit is taken, as the script in Redis does.
UpdateStockByOne(t, q) == dbStock' = [dbStock EXCEPT ![t] = @ - 1]

UpdateStock(t, q) == dbStock' = [dbStock EXCEPT ![t] = @ - q]

\* AtomicDeductStock takes the units.
DeductStock(c) ==
    LET r == Cur(c) IN
    /\ pc[c] = "deduct"
    /\ dbStock[TypeOf[r]] >= QuantityOf[r]
    /\ UpdateStock(TypeOf[r], QuantityOf[r])
    /\ top' = [top EXCEPT ![c] = dbStock[TypeOf[r]]]
    /\ GoOn(c, "create")
    /\ NoFault
    /\ UNCHANGED <<call, redisVars, streamVars, key, tickets, outcome>>

\* AtomicDeductStock returns an error.
DeductRefused(c) ==
    LET r == Cur(c) IN
    /\ pc[c] = "deduct"
    /\ GoOn(c, "rollback")
    /\ \/ dbStock[TypeOf[r]] < QuantityOf[r] /\ NoFault /\ UNCHANGED dbStock
       \/ Fault("db_error") /\ UNCHANGED dbStock
       \/ /\ Fault("db_lost")
          /\ dbStock[TypeOf[r]] >= QuantityOf[r]
          /\ UpdateStock(TypeOf[r], QuantityOf[r])
    /\ UNCHANGED <<call, redisVars, streamVars, top, key, tickets, outcome>>

\* The ticket is inserted, and the user is told.
CreateTicket(c) ==
    /\ pc[c] = "create"
    /\ tickets' = tickets \cup {[req |-> Cur(c), top |-> top[c], told |-> TRUE]}
    /\ Return(c, "ticket")
    /\ NoFault
    /\ UNCHANGED <<call, redisVars, streamVars, key, dbStock>>

\* Create returns an error, after which the row may be there all the same.
CreateFails(c) ==
    /\ pc[c] = "create"
    /\ GoOn(c, "undo")
    /\ \/ Fault("db_error") /\ UNCHANGED tickets
       \/ /\ Fault("db_lost")
          /\ tickets' = tickets \cup {[req |-> Cur(c), top |-> top[c], told |-> FALSE]}
    /\ UNCHANGED <<call, redisVars, streamVars, top, key, dbStock, outcome>>

\* UpdateStock(id, +quantity), which subtracts; its error is ignored.
UndoDeduction(c) ==
    /\ pc[c] = "undo"
    /\ \/ UpdateStock(TypeOf[Cur(c)], QuantityOf[Cur(c)]) /\ NoFault
       \/ Fault("db_error") /\ UNCHANGED dbStock
    /\ GoOn(c, "rollback")
    /\ UNCHANGED <<call, redisVars, streamVars, top, key, tickets, outcome>>

\* The unit is returned under the event id alone: the hash and the set of the
\* purchases do not change.
RollbackRedis(c) ==
    /\ pc[c] = "rollback"
    /\ \/ stray' = [stray EXCEPT ![TypeOf[Cur(c)]] = @ + 1] /\ NoFault
       \/ stray' = [stray EXCEPT ![TypeOf[Cur(c)]] = @ + 2] /\ Fault("redis_repeat")
       \/ Fault("redis_error") /\ UNCHANGED stray
    /\ GoOn(c, "unmark")
    /\ UNCHANGED <<call, redisStock, bought, streamVars, top, key, dbVars, outcome>>

\* The key is deleted (an error is ignored) and the user told of the failure.
Unmark(c) ==
    /\ pc[c] = "unmark"
    /\ \/ key' = [key EXCEPT ![Cur(c)] = FALSE] /\ NoFault
       \/ Fault("redis_error") /\ UNCHANGED key
    /\ Return(c, "failed")
    /\ UNCHANGED <<call, redisVars, streamVars, dbVars>>

-----------------------------------------------------------------------------
Api(r) ==
    \/ PurchaseTicket(r) \/ PublishTicket(r) \/ PublishFails(r)
    \/ RollbackReservation(r) \/ ApiCrash(r)

ProcessTicket(c) ==
    \/ Mark(c) \/ Skip(c) \/ MarkFails(c) \/ FindTypeFails(c)
    \/ DeductStock(c) \/ DeductRefused(c) \/ CreateTicket(c) \/ CreateFails(c)
    \/ UndoDeduction(c) \/ RollbackRedis(c) \/ Unmark(c)

Consume(c) == Start(c) \/ Read(c) \/ ProcessTicket(c) \/ Ack(c)

Next ==
    \/ \E r \in Requests : Api(r)
    \/ \E c \in Consumers : Consume(c) \/ ConsumerCrash(c)

Spec == Init /\ [][Next]_vars

\* A consumer's loop runs while its process does, and a process that stopped
\* is started again (restart: in docker-compose, the Deployments of k8s/).
FairSpec == Spec /\ \A c \in Consumers : WF_vars(Consume(c))

-----------------------------------------------------------------------------
(* Properties.                                                             *)

\* Although an entry can be in the stream twice and be handled by two
\* consumers at a time, the tickets and the stock of the database stay an
\* implementation of TicketSales, which knows no request that is sold twice:
\* the key and the guarded UPDATE do it.  A row
\* whose INSERT was reported as failed counts as lost units: its order may be
\* handled again from the other entry.
Creating(r) == \E c \in Consumers : pc[c] = "create" /\ Cur(c) = r
Reported(r) == {x \in tickets : x.req = r /\ x.told}

Sales == INSTANCE TicketSales WITH
    left <- [t \in TicketTypes |-> IF dbStock[t] < 0 THEN 0 ELSE dbStock[t]],
    sale <- [r \in Requests |-> IF \E x, y \in Reported(r) : x # y THEN "sold twice"
                                ELSE IF Reported(r) # {} THEN "sold"
                                ELSE IF Creating(r) THEN "held"
                                ELSE "open"]

ImplementsSales == Sales!SalesSpec

Units(x) == (x.top - QuantityOf[x.req] + 1) .. x.top

\* No two rows of tickets share a unit, and each has units that were in stock,
\* also where the INSERT was reported as failed and the order handled again.
UnitsSoldOnce ==
    /\ \A x \in tickets : Units(x) \subseteq 1 .. InitialStock[TypeOf[x.req]]
    /\ \A x, y \in tickets :
          x # y /\ TypeOf[x.req] = TypeOf[y.req] => Units(x) \cap Units(y) = {}

\* A user gets a second ticket of the event only when one of the two calls was
\* answered with a failure although its entry was added: since failed orders
\* are returned under another key, nothing else takes a buyer off the set.
SecondTicketAfterFailure ==
    \A x, y \in tickets :
        UserOf[x.req] = UserOf[y.req] /\ x.req # y.req
            => "failed" \in {call[x.req], call[y.req]}

\* The order of r failed, and its unit was returned.
Returned(r) ==
    \/ "failed" \in outcome[r]
    \/ \E c \in Consumers : pc[c] = "unmark" /\ Cur(c) = r

\* The rollback returns the stock and takes the buyer off the set (comments of
\* adapter.go:49-61): as long as nothing fails, each unit of a type is for sale in
\* Redis or in the hands of a call that Redis let through and nothing returned.
RedisGetsUnitsBack ==
    faults = 0 =>
        \A t \in TicketTypes :
            redisStock[t] + Cardinality({r \in Requests : /\ TypeOf[r] = t
                                                         /\ call[r] \in {"reserved", "queued"}
                                                         /\ ~ Returned(r)})
                = InitialStock[t]

\* Once the group exists, every order in the stream comes to a ticket or to a
\* failure the user is told of, unless its consumer stopped or never got it
\* ("lost") or its key could not be set ("unmarked": the code drops it, although
\* redis_stream_consumer.go:105 says it waits).  To be skipped is not enough.
Unhandled == {r \in Requests : group /\ Contains(stream, r) /\ outcome[r] \subseteq {"skipped"}}
PublishedIsHandled == Unhandled # {} ~> Unhandled = {}

=============================================================================
