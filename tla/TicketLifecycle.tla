--------------------------- MODULE TicketLifecycle ---------------------------
(***************************************************************************)
(* What happens to the tickets of one type after their purchase:           *)
(* PayTicket, UseTicket and CancelTicket (internal/service/                *)
(* ticket_service.go) on behalf of their owners, and the expire checker    *)
(* (ticket_expire_service.go) that every seckill, order and api process    *)
(* runs.  They all read a ticket, test its status against the table of     *)
(* transitions, and write the new status in a later statement without      *)
(* looking again: between the two any other of them may run.               *)
(*                                                                         *)
(* A purchase is one step here; TicketPurchase has its details.            *)
(***************************************************************************)
EXTENDS Integers, FiniteSets

CONSTANTS
    Users,
    Tickets,        \* the tickets a behaviour may sell
    OwnerOf,        \* tickets.user_id
    QuantityOf,     \* tickets.quantity
    InitialStock,   \* ticket_types.stock when the event was published
    Handlers,       \* goroutines that serve HTTP requests
    Checkers,       \* processes that run the expire checker
    NoTicket,       \* "no ticket in hand"
    Limit,          \* the number of rows FindExpiredReserved may return
    MaxHandlerFaults, MaxCheckerFaults  \* bounds on the number of failures

ASSUME TicketAssumption ==
    /\ OwnerOf \in [Tickets -> Users]
    /\ QuantityOf \in [Tickets -> Nat \ {0}]
    /\ NoTicket \notin Tickets
    /\ InitialStock \in Nat
ASSUME WorkerAssumption ==
    /\ Handlers \cap Checkers = {}
    /\ Limit \in Nat \ {0}
    /\ MaxHandlerFaults \in Nat /\ MaxCheckerFaults \in Nat

VARIABLES
    status,         \* tickets.status, "none" before the purchase
    overdue,        \* the tickets created more than thirty minutes ago
    dbStock,        \* ticket_types.stock
    redisStock,     \* the type's field of the hash seckill:{ticket:E}:stock
    bought,         \* set seckill:{ticket:E}:bought
    step,           \* the next step of a handler or checker
    hand,           \* the ticket it works on
    found,          \* the rows a checker has read and not worked on
    paid,           \* history: the tickets that have ever been paid
    stale,          \* history: a status was overwritten against the table
    handlerFaults, checkerFaults    \* the failures so far

stockVars == <<dbStock, redisStock, bought>>
faultVars == <<handlerFaults, checkerFaults>>
vars == <<status, overdue, dbStock, redisStock, bought, step, hand, found,
          paid, stale, handlerFaults, checkerFaults>>

Workers == Handlers \cup Checkers

Statuses == {"reserved", "paid", "used", "expired", "cancelled"}

Steps == {"idle", "pay", "use", "cancel", "scan", "stock", "redis"}

\* Mutant: a cancellation may be repeated.
RepeatableCancel ==
    [ none      |-> {},
      reserved  |-> {"paid", "expired", "cancelled"},
      paid      |-> {"used", "cancelled"},
      used      |-> {},
      expired   |-> {},
      cancelled |-> {"cancelled"} ]

\* The table of transitions.
ticketAllowedTransitions ==
    [ none      |-> {},
      reserved  |-> {"paid", "expired", "cancelled"},
      paid      |-> {"used", "cancelled"},
      used      |-> {},
      expired   |-> {},
      cancelled |-> {} ]

IsValidTicketTransition(from, to) == to \in ticketAllowedTransitions[from]

TypeOK ==
    /\ status \in [Tickets -> Statuses \cup {"none"}]
    /\ overdue \in SUBSET Tickets
    /\ dbStock \in Int
    /\ redisStock \in Int
    /\ bought \in SUBSET Users
    /\ step \in [Workers -> Steps]
    /\ hand \in [Workers -> Tickets \cup {NoTicket}]
    /\ found \in [Checkers -> SUBSET Tickets]
    /\ paid \in SUBSET Tickets
    /\ stale \in BOOLEAN
    /\ handlerFaults \in Nat
    /\ checkerFaults \in Nat

Init ==
    /\ status = [t \in Tickets |-> "none"]
    /\ overdue = {}
    /\ dbStock = InitialStock
    /\ redisStock = InitialStock
    /\ bought = {}
    /\ step = [w \in Workers |-> "idle"]
    /\ hand = [w \in Workers |-> NoTicket]
    /\ found = [k \in Checkers |-> {}]
    /\ paid = {}
    /\ stale = FALSE
    /\ handlerFaults = 0
    /\ checkerFaults = 0

HandlerFault ==
    /\ handlerFaults < MaxHandlerFaults
    /\ handlerFaults' = handlerFaults + 1
    /\ UNCHANGED checkerFaults

CheckerFault ==
    /\ checkerFaults < MaxCheckerFaults
    /\ checkerFaults' = checkerFaults + 1
    /\ UNCHANGED handlerFaults

NoFault == UNCHANGED faultVars

-----------------------------------------------------------------------------
(* The surroundings: purchases, and time.                                  *)

\* Mutant: the script does not look at the set of buyers.
MayBuyAgain(u) == redisStock > 0

\* The tests of the deduction script.
MayBuy(u) == redisStock > 0 /\ u \notin bought

\* A purchase from the script of Redis to the inserted row.  One the database
\* refuses changes nothing, because its reservation is rolled back.
Buy(t) ==
    /\ status[t] = "none"
    /\ MayBuy(OwnerOf[t])
    /\ dbStock >= QuantityOf[t]
    /\ redisStock' = redisStock - 1
    /\ bought' = bought \cup {OwnerOf[t]}
    /\ dbStock' = dbStock - QuantityOf[t]
    /\ status' = [status EXCEPT ![t] = "reserved"]
    /\ NoFault
    /\ UNCHANGED <<overdue, step, hand, found, paid, stale>>

\* Thirty minutes have passed since the creation of t.  The checker asks for
\* the age of reserved tickets only.
Age(t) ==
    /\ status[t] = "reserved"
    /\ t \notin overdue
    /\ overdue' = overdue \cup {t}
    /\ NoFault
    /\ UNCHANGED <<status, stockVars, step, hand, found, paid, stale>>

-----------------------------------------------------------------------------
(* Steps shared by the requests and the checker.                           *)

\* Mutant: the column is written with its zero value.
UpdateStatusZero(t, new) ==
    /\ status' = [status EXCEPT ![t] = ""]
    /\ paid' = IF new = "paid" THEN paid \cup {t} ELSE paid
    /\ stale' = (stale \/ ~ IsValidTicketTransition(status[t], new))

\* UPDATE tickets SET status = new WHERE id = t: whatever the status is now.
UpdateStatus(t, new) ==
    /\ status' = [status EXCEPT ![t] = new]
    /\ paid' = IF new = "paid" THEN paid \cup {t} ELSE paid
    /\ stale' = (stale \/ ~ IsValidTicketTransition(status[t], new))

\* Mutant: the rollback of a ticket gives its units back, not one.
SeckillRollbackUnits(t) ==
    /\ redisStock' = redisStock + QuantityOf[t]
    /\ bought' = bought \ {OwnerOf[t]}

\* The rollback script: one unit, and the user may buy again.
SeckillRollback(t) ==
    /\ redisStock' = redisStock + 1
    /\ bought' = bought \ {OwnerOf[t]}

\* w has ended its work on a ticket and goes on at step s.
Finish(w, s) ==
    /\ step' = [step EXCEPT ![w] = s]
    /\ hand' = [hand EXCEPT ![w] = NoTicket]

-----------------------------------------------------------------------------
(* Requests of the owner.                                                  *)

\* The status each request leads to.
Target == [pay |-> "paid", use |-> "used", cancel |-> "cancelled"]

\* Mutant: any ticket that is not in a terminal status may be used.
MayBeginUnpaid(t, what) == ticketAllowedTransitions[status[t]] # {}

MayBegin(t, what) == IsValidTicketTransition(status[t], Target[what])

\* FindByID, the test of the owner and the test of the transition.
BeginRequest(h, t, what) ==
    /\ step[h] = "idle"
    /\ MayBegin(t, what)
    /\ step' = [step EXCEPT ![h] = what]
    /\ hand' = [hand EXCEPT ![h] = t]
    /\ NoFault
    /\ UNCHANGED <<status, overdue, stockVars, found, paid, stale>>

\* The last statement of PayTicket and of UseTicket.
WriteStatus(h, what) ==
    /\ what \in {"pay", "use"}
    /\ step[h] = what
    /\ UpdateStatus(hand[h], Target[what])
    /\ Finish(h, "idle")
    /\ NoFault
    /\ UNCHANGED <<overdue, stockVars, found>>

\* The transaction of CancelTicket: the status and the stock together.
WriteCancelled(h) ==
    /\ step[h] = "cancel"
    /\ UpdateStatus(hand[h], "cancelled")
    /\ dbStock' = dbStock + QuantityOf[hand[h]]
    /\ step' = [step EXCEPT ![h] = "redis"]
    /\ NoFault
    /\ UNCHANGED <<overdue, redisStock, bought, hand, found>>

\* The rollback of Redis after it.
CancelInRedis(h) ==
    /\ step[h] = "redis"
    /\ SeckillRollback(hand[h])
    /\ Finish(h, "idle")
    /\ NoFault
    /\ UNCHANGED <<status, overdue, dbStock, found, paid, stale>>

\* A statement fails, the rollback of Redis fails, or the process stops.
RequestFails(h) ==
    /\ step[h] # "idle"
    /\ Finish(h, "idle")
    /\ HandlerFault
    /\ UNCHANGED <<status, overdue, stockVars, found, paid, stale>>

-----------------------------------------------------------------------------
(* The expire checker.                                                     *)

\* Mutant: the query compares the ages the wrong way round.
ExpiredReservedYoung == {t \in Tickets \ overdue : status[t] = "reserved"}

ExpiredReserved == {t \in overdue : status[t] = "reserved"}

\* FindExpiredReserved returns up to Limit rows.  When it returns none the pass
\* ends, until the ticker starts the next one.
FindExpiredReserved(k) ==
    /\ step[k] \in {"idle", "scan"}
    /\ found[k] = {}
    /\ \/ /\ ExpiredReserved # {}
          /\ \E rows \in SUBSET ExpiredReserved :
               /\ Cardinality(rows) =
                    IF Cardinality(ExpiredReserved) < Limit
                    THEN Cardinality(ExpiredReserved) ELSE Limit
               /\ found' = [found EXCEPT ![k] = rows]
          /\ step' = [step EXCEPT ![k] = "scan"]
       \/ /\ ExpiredReserved = {}
          /\ step[k] = "scan"
          /\ step' = [step EXCEPT ![k] = "idle"]
          /\ UNCHANGED found
    /\ NoFault
    /\ UNCHANGED <<status, overdue, stockVars, hand, paid, stale>>

\* expireTicket on one of the rows: the row that was read is reserved, and the
\* table lets it expire.
ExpireStatus(k) ==
    /\ step[k] = "scan"
    /\ \E t \in found[k] :
         /\ UpdateStatus(t, "expired")
         /\ hand' = [hand EXCEPT ![k] = t]
         /\ found' = [found EXCEPT ![k] = @ \ {t}]
    /\ step' = [step EXCEPT ![k] = "stock"]
    /\ NoFault
    /\ UNCHANGED <<overdue, stockVars>>

\* Mutant: UpdateStock(id, +quantity), as ticket_consumer.go:132 calls it.
ExpireStockSubtracts(k) ==
    /\ step[k] = "stock"
    /\ dbStock' = dbStock - QuantityOf[hand[k]]
    /\ step' = [step EXCEPT ![k] = "redis"]
    /\ NoFault
    /\ UNCHANGED <<status, overdue, redisStock, bought, hand, found, paid, stale>>

\* UpdateStock(id, -quantity) subtracts a negative number.
ExpireStock(k) ==
    /\ step[k] = "stock"
    /\ dbStock' = dbStock + QuantityOf[hand[k]]
    /\ step' = [step EXCEPT ![k] = "redis"]
    /\ NoFault
    /\ UNCHANGED <<status, overdue, redisStock, bought, hand, found, paid, stale>>

ExpireInRedis(k) ==
    /\ step[k] = "redis"
    /\ SeckillRollback(hand[k])
    /\ Finish(k, "scan")
    /\ NoFault
    /\ UNCHANGED <<status, overdue, dbStock, found, paid, stale>>

\* UpdateStatus fails: the row is left for a later query.  UpdateStock or the
\* rollback of Redis fails: the rest of the work on the ticket is left out.
ExpireFails(k) ==
    /\ \/ /\ step[k] = "scan"
          /\ \E t \in found[k] : found' = [found EXCEPT ![k] = @ \ {t}]
       \/ /\ step[k] \in {"stock", "redis"}
          /\ UNCHANGED found
    /\ Finish(k, "scan")
    /\ CheckerFault
    /\ UNCHANGED <<status, overdue, stockVars, paid, stale>>

\* The query fails, or the process of the checker stops and is started again.
CheckerStops(k) ==
    /\ step[k] # "idle"
    /\ Finish(k, "idle")
    /\ found' = [found EXCEPT ![k] = {}]
    /\ CheckerFault
    /\ UNCHANGED <<status, overdue, stockVars, paid, stale>>

-----------------------------------------------------------------------------
Outside == \E t \in Tickets : Buy(t) \/ Age(t)

Request(h) ==
    \/ \E t \in Tickets, what \in {"pay", "use", "cancel"} : BeginRequest(h, t, what)
    \/ \E what \in {"pay", "use"} : WriteStatus(h, what)
    \/ WriteCancelled(h) \/ CancelInRedis(h) \/ RequestFails(h)

ExpireStep(k) ==
    \/ FindExpiredReserved(k)
    \/ ExpireStatus(k) \/ ExpireStock(k) \/ ExpireInRedis(k)

Check(k) == ExpireStep(k) \/ ExpireFails(k) \/ CheckerStops(k)

Next ==
    \/ Outside
    \/ \E h \in Handlers : Request(h)
    \/ \E k \in Checkers : Check(k)

Spec == Init /\ [][Next]_vars

\* The ticker fires again and again and a pass is not put off for ever.
\* Nobody has to pay, to use or to cancel a ticket, and nothing has to fail.
FairSpec == Spec /\ \A k \in Checkers : WF_vars(ExpireStep(k))

-----------------------------------------------------------------------------
(* Properties.                                                             *)

Live == {t \in Tickets : status[t] \in {"reserved", "paid", "used"}}

\* The sum of q[x] over the domain of q, as the number of copies when there are
\* q[x] of x.
Copies(q) == UNION {{x} \X (1 .. q[x]) : x \in DOMAIN q}
Total(q) == Cardinality(Copies(q))

\* The units of the tickets that are live.
Sold == [t \in Live |-> QuantityOf[t]]

\* The checkers that have expired a ticket and still owe its units to the
\* database, and the workers that still owe a unit to Redis.
OwingStock == {k \in Checkers : step[k] = "stock"}
OwingRedis == {w \in Workers : step[w] \in {"stock", "redis"}}

Owed == [k \in OwingStock |-> QuantityOf[hand[k]]]

\* No unit is invented: unless a status was overwritten against the table, the
\* stock of the database, the tickets that are live and the units a checker
\* still has to return never exceed the initial stock, whatever fails.
NoUnitInvented ==
    ~ stale => dbStock + Total(Sold) + Total(Owed) <= InitialStock

\* No unit is lost either as long as no checker has failed: a cancellation
\* that stops half way has not touched the database, because it writes the
\* status and the stock in one transaction.
NoUnitLost ==
    ~ stale /\ checkerFaults = 0
        => dbStock + Total(Sold) + Total(Owed) >= InitialStock

\* Redis keeps one unit per call: unless something failed or a status was
\* overwritten against the table, every unit of its stock is in the hash, in a
\* live ticket, or in the hands of a worker about to return it.
RedisUnitsReturn ==
    ~ stale /\ checkerFaults + handlerFaults = 0
        => redisStock + Cardinality(Live) + Cardinality(OwingRedis) = InitialStock

\* A user whose reservation ended may buy again, and has at most one live
\* ticket even so, whatever fails, unless a status was overwritten.
OneLiveTicketPerUser ==
    ~ stale => \A t, u \in Live : OwnerOf[t] = OwnerOf[u] => t = u

\* A ticket is used only if it has been paid, however the requests and the
\* checkers interleave.
UsedWasPaid == \A t \in Tickets : status[t] = "used" => t \in paid

\* A ticket is never returned to the pool of the unpaid, and from "reserved" it
\* does not become "used": the status that UseTicket has read was "paid", and
\* nothing leads from there back to "reserved".
ReservedIsLeftForGood ==
    [][\A t \in Tickets :
          /\ status[t] = "reserved" => status'[t] # "used"
          /\ status'[t] = "reserved" => status[t] \in {"none", "reserved"}]_vars

\* A reservation that is not paid is eventually released.
OverdueIsReleased ==
    \A t \in Tickets : t \in overdue /\ status[t] = "reserved" ~> status[t] # "reserved"

\* The tickets that are live never take more units than there are: overselling
\* is ruled out for good ("completely solves the overselling problem under high
\* concurrency", README.md:101).
NoOversell == Total(Sold) <= InitialStock

=============================================================================
