----------------------------- MODULE EventSale -----------------------------
(***************************************************************************)
(* An event, its ticket types and its stock in Redis, as the organizers    *)
(* change them (internal/service/event_service.go) while users buy and     *)
(* give back tickets.  A request of an organizer is a session of a worker: *)
(* it reads the event, tests its status, and writes in later statements    *)
(* without a transaction.  The path of a purchase is the one TicketPurchase *)
(* has in detail and without failures, for one unit; a ticket that is      *)
(* cancelled or expires is returned as in TicketLifecycle.                 *)
(***************************************************************************)
EXTENDS Integers, FiniteSets, EventStatus

CONSTANTS
    Types,          \* the rows ticket_types may have for the event
    NoType,         \* "no ticket type"
    Stocks,         \* input.Stock; the binding "required" refuses zero
    Admins,         \* goroutines that serve the organizers' requests
    Buyers          \* users, each with one purchase at a time

ASSUME SaleAssumption ==
    /\ Stocks \subseteq Nat \ {0}
    /\ NoType \notin Types
    /\ IsFiniteSet(Buyers)

VARIABLES
    status,         \* events.status
    row,            \* whether a row of ticket_types is there or (soft) deleted
    stock,          \* ticket_types.stock
    redisStock,     \* hash seckill:{ticket:E}:stock, an absent field being 0
    bought,         \* set seckill:{ticket:E}:bought
    step,           \* the next step of a worker's session
    job,            \* what the session has been asked for and has read
    buy,            \* where the purchase of a user stands
    want,           \* the ticket type of it
    configured,     \* history: the stock the organizers have given a type
    opened,         \* history: the types whose field of the hash was written
    disturbed,      \* history: those written with a number that was not the
                    \*          stock left for new purchases
    stale,          \* history: a write relied on what no longer held
    failed          \* history: a publication stopped half way

eventVars == <<status, row, stock, configured>>
redisVars == <<redisStock, bought, opened, disturbed>>
workVars  == <<step, job>>
buyVars   == <<buy, want>>
vars == <<status, row, stock, redisStock, bought, step, job, buy, want,
          configured, opened, disturbed, stale, failed>>

Statuses == {"draft", "on_sale", "off_sale", "ended"}
Steps == {"idle", "edit", "create", "update", "delete", "types", "move", "init"}

\* The session is to move the event to status to, to write the row type, or to
\* set the fields of the types todo to what it has seen of their stock.
Job == [to : Statuses, type : Types \cup {NoType}, todo : SUBSET Types, seen : [Types -> Nat]]

Unseen == [t \in Types |-> 0]
NoJob == [to |-> "draft", type |-> NoType, todo |-> {}, seen |-> Unseen]

TypeOK ==
    /\ status \in Statuses
    /\ row \in [Types -> {"none", "there", "deleted"}]
    /\ stock \in [Types -> Nat]
    /\ redisStock \in [Types -> Nat]
    /\ bought \in SUBSET Buyers
    /\ step \in [Admins -> Steps]
    /\ job \in [Admins -> Job]
    /\ buy \in [Buyers -> {"idle", "checked", "queued", "ticket", "returned"}]
    /\ want \in [Buyers -> Types \cup {NoType}]
    /\ configured \in [Types -> Nat]
    /\ opened \in SUBSET Types
    /\ disturbed \in SUBSET Types
    /\ stale \in BOOLEAN
    /\ failed \in BOOLEAN

\* CreateEvent: a draft without ticket types.
Init ==
    /\ status = "draft"
    /\ row = [t \in Types |-> "none"]
    /\ stock = [t \in Types |-> 0]
    /\ redisStock = [t \in Types |-> 0]
    /\ bought = {}
    /\ step = [a \in Admins |-> "idle"]
    /\ job = [a \in Admins |-> NoJob]
    /\ buy = [b \in Buyers |-> "idle"]
    /\ want = [b \in Buyers |-> NoType]
    /\ configured = [t \in Types |-> 0]
    /\ opened = {}
    /\ disturbed = {}
    /\ stale = FALSE
    /\ failed = FALSE

There == {t \in Types : row[t] = "there"}

\* The purchases that hold a unit of Redis and none of the database: before the
\* ticket, and after it until the unit is given back.
InFlight(t) == {b \in Buyers : want[b] = t /\ buy[b] \in {"queued", "returned"}}
Ticketed(t) == {b \in Buyers : want[b] = t /\ buy[b] = "ticket"}

-----------------------------------------------------------------------------
(* Sessions.                                                               *)

Go(a, s, j) ==
    /\ step' = [step EXCEPT ![a] = s]
    /\ job' = [job EXCEPT ![a] = j]

Answer(a) == Go(a, "idle", NoJob)

\* This write relied on a condition that was tested earlier.
Relied(condition) == stale' = (stale \/ ~ condition)

\* A statement fails or the process stops.  Nothing undoes what a publication
\* has written.
Fail(a) ==
    /\ step[a] # "idle"
    /\ Answer(a)
    /\ failed' = (failed \/ step[a] = "init")
    /\ UNCHANGED <<eventVars, redisVars, buyVars, stale>>

-----------------------------------------------------------------------------
(* Drafts: UpdateEvent, CreateTicketType, UpdateTicketType and             *)
(* DeleteTicketType.                                                       *)

\* Mutant: the status of the event is not tested.
MayEditAlways == TRUE

\* Mutant: an event may be edited while its sale is interrupted.
MayEditOffSale == status # "on_sale"

MayEdit == status = "draft"

\* The event is read and its status tested, after the row to be changed if
\* there is one.
BeginEdit(a, what) ==
    /\ step[a] = "idle"
    /\ MayEdit
    /\ \/ what \in {"edit", "create"} /\ Go(a, what, NoJob)
       \/ /\ what \in {"update", "delete"}
          /\ \E t \in There : Go(a, what, [NoJob EXCEPT !.type = t])
    /\ UNCHANGED <<eventVars, redisVars, buyVars, stale, failed>>

\* Save writes the whole row of the event that was read, its status included.
SaveEvent(a) ==
    /\ step[a] = "edit"
    /\ status' = "draft"
    /\ Relied(MayEdit)
    /\ Answer(a)
    /\ UNCHANGED <<row, stock, configured, redisVars, buyVars, failed>>

\* A new row with stock n is inserted, or the whole row that was read is saved
\* with the stock n.  Save inserts the row again if it has been deleted.
SaveType(a, t, n) ==
    /\ \/ step[a] = "create" /\ row[t] = "none"
       \/ step[a] = "update" /\ job[a].type = t
    /\ row' = [row EXCEPT ![t] = "there"]
    /\ stock' = [stock EXCEPT ![t] = n]
    /\ configured' = [configured EXCEPT ![t] = n]
    /\ Relied(MayEdit /\ (step[a] = "update" => row[t] = "there"))
    /\ Answer(a)
    /\ UNCHANGED <<status, redisVars, buyVars, failed>>

DeleteType(a) ==
    /\ step[a] = "delete"
    /\ row' = [row EXCEPT ![job[a].type] = "deleted"]
    /\ Relied(MayEdit)
    /\ Answer(a)
    /\ UNCHANGED <<status, stock, configured, redisVars, buyVars, failed>>

-----------------------------------------------------------------------------
(* PublishEvent, UnpublishEvent and EndEvent.                              *)

\* The event is read and the transition tested.
BeginMove(a, to) ==
    /\ step[a] = "idle"
    /\ IsValidEventTransition(status, to)
    /\ Go(a, IF to = "on_sale" THEN "types" ELSE "move", [NoJob EXCEPT !.to = to])
    /\ UNCHANGED <<eventVars, redisVars, buyVars, stale, failed>>

\* PublishEvent reads the ticket types; an event without any is refused.
ReadTypes(a) ==
    /\ step[a] = "types"
    /\ IF There = {}
       THEN Answer(a)
       ELSE Go(a, "move", [job[a] EXCEPT
                !.todo = There,
                !.seen = [t \in Types |-> IF t \in There THEN stock[t] ELSE 0]])
    /\ UNCHANGED <<eventVars, redisVars, buyVars, stale, failed>>

\* The status is updated whatever it is by now.  A publication goes on to the
\* total, which nothing here depends on, and to Redis.
UpdateStatus(a) ==
    /\ step[a] = "move"
    /\ status' = job[a].to
    /\ Relied(/\ IsValidEventTransition(status, job[a].to)
              /\ status = "draft" => job[a].todo = There
              /\ status = "draft" => \A t \in There : job[a].seen[t] = stock[t])
    /\ IF job[a].to = "on_sale" THEN Go(a, "init", job[a]) ELSE Answer(a)
    /\ UNCHANGED <<row, stock, configured, redisVars, buyVars, failed>>

\* Mutant: the field is raised by the stock and not set to it.
InitSeckillStockAdds(t, n) == redisStock' = [redisStock EXCEPT ![t] = @ + n]

\* The field is set whatever it holds.
InitSeckillStock(t, n) == redisStock' = [redisStock EXCEPT ![t] = n]

\* Mutant: only one type gets its stock.
InitTypeOnce(a) ==
    /\ step[a] = "init"
    /\ \E t \in job[a].todo :
         /\ InitSeckillStock(t, job[a].seen[t])
         /\ opened' = opened \cup {t}
         /\ Answer(a)
    /\ UNCHANGED <<eventVars, bought, disturbed, buyVars, stale, failed>>

\* One type after the other gets the stock that was read, until all have it.
InitType(a) ==
    /\ step[a] = "init"
    /\ \E t \in job[a].todo :
         LET n == job[a].seen[t] IN
         /\ InitSeckillStock(t, n)
         /\ opened' = opened \cup {t}
         /\ disturbed' = IF InFlight(t) = {} /\ n = stock[t]
                         THEN disturbed \ {t} ELSE disturbed \cup {t}
         /\ IF job[a].todo = {t} THEN Answer(a)
            ELSE Go(a, "init", [job[a] EXCEPT !.todo = @ \ {t}, !.seen = [@ EXCEPT ![t] = 0]])
    /\ UNCHANGED <<eventVars, bought, buyVars, stale, failed>>

-----------------------------------------------------------------------------
(* Purchases and returns.                                                  *)

Stand(b, s) ==
    /\ buy' = [buy EXCEPT ![b] = s]
    /\ want' = IF s = "idle" THEN [want EXCEPT ![b] = NoType] ELSE want

\* PurchaseTicket reads the event, which is on sale, and the ticket type.
CheckSale(b, t) ==
    /\ buy[b] = "idle"
    /\ status = "on_sale"
    /\ row[t] = "there"
    /\ buy' = [buy EXCEPT ![b] = "checked"]
    /\ want' = [want EXCEPT ![b] = t]
    /\ UNCHANGED <<eventVars, redisVars, workVars, stale, failed>>

\* Mutant: the script does not look at the stock.
SeckillAnswerAlways(b, t) == b \notin bought

\* The deduction script lets the purchase through.
SeckillAnswer(b, t) == redisStock[t] > 0 /\ b \notin bought

\* The script, and with a reservation the publication of the message.
Reserve(b) ==
    LET t == want[b] IN
    /\ buy[b] = "checked"
    /\ IF SeckillAnswer(b, t)
       THEN /\ redisStock' = [redisStock EXCEPT ![t] = @ - 1]
            /\ bought' = bought \cup {b}
            /\ Stand(b, "queued")
       ELSE /\ Stand(b, "idle")
            /\ UNCHANGED <<redisStock, bought>>
    /\ UNCHANGED <<eventVars, opened, disturbed, workVars, stale, failed>>

\* The handler of the message: a type that is not there is reported and nothing
\* undone; otherwise the guarded UPDATE and the ticket, or the refusal.
HandleMessage(b) ==
    LET t == want[b] IN
    /\ buy[b] = "queued"
    /\ IF t \in There /\ stock[t] > 0
       THEN stock' = [stock EXCEPT ![t] = @ - 1] /\ Stand(b, "ticket")
       ELSE /\ Stand(b, IF t \in There THEN "returned" ELSE "idle")
            /\ UNCHANGED stock
    /\ UNCHANGED <<status, row, configured, redisVars, workVars, stale, failed>>

\* The ticket ends, and its unit returns to the row of the type if it is there.
ReturnTicket(b) ==
    LET t == want[b] IN
    /\ buy[b] = "ticket"
    /\ stock' = IF t \in There THEN [stock EXCEPT ![t] = @ + 1] ELSE stock
    /\ Stand(b, "returned")
    /\ UNCHANGED <<status, row, configured, redisVars, workVars, stale, failed>>

\* The rollback script, after a refusal or a return.
SeckillRollback(b) ==
    /\ buy[b] = "returned"
    /\ redisStock' = [redisStock EXCEPT ![want[b]] = @ + 1]
    /\ bought' = bought \ {b}
    /\ Stand(b, "idle")
    /\ UNCHANGED <<eventVars, opened, disturbed, workVars, stale, failed>>

-----------------------------------------------------------------------------
Organize(a) ==
    \/ \E what \in {"edit", "create", "update", "delete"} : BeginEdit(a, what)
    \/ SaveEvent(a) \/ DeleteType(a)
    \/ \E t \in Types, n \in Stocks : SaveType(a, t, n)
    \/ \E to \in {"on_sale", "off_sale", "ended"} : BeginMove(a, to)
    \/ ReadTypes(a) \/ UpdateStatus(a) \/ InitType(a)
    \/ Fail(a)

Purchase(b) ==
    \/ \E t \in Types : CheckSale(b, t)
    \/ Reserve(b) \/ HandleMessage(b) \/ ReturnTicket(b) \/ SeckillRollback(b)

Next ==
    \/ \E a \in Admins : Organize(a)
    \/ \E b \in Buyers : Purchase(b)

Spec == Init /\ [][Next]_vars

-----------------------------------------------------------------------------
(* Properties.                                                             *)

\* A type that somebody is buying or holds a ticket of is there, unless a write
\* was stale: ticket types are changed only before the event is published.
SoldTypesAreThere ==
    ~ stale => \A b \in Buyers : buy[b] # "idle" => row[want[b]] = "there"

\* Unless a write was stale, what is left of a type and the tickets sold of it
\* make up the stock the organizers gave it, through every interruption and
\* resumption of the sale.
StockIsAsConfigured ==
    ~ stale => \A t \in There : stock[t] + Cardinality(Ticketed(t)) = configured[t]

\* Unless a publication stopped half way or a write was stale, an event on sale
\* whose publication has ended sells all its types.
OnSaleIsOpen ==
    /\ ~ stale /\ ~ failed /\ status = "on_sale"
    /\ \A a \in Admins : step[a] # "init"
    => There \subseteq opened

\* Redis lets through as many purchases as the database has units for: unless a
\* write was stale, a type whose field was last written while no message was in
\* flight has in Redis what the database has left, less what is in flight,
\* through refusals, returns and further publications.
RedisMatchesDatabase ==
    ~ stale => \A t \in opened \ disturbed :
        redisStock[t] + Cardinality(InFlight(t)) = stock[t]

=============================================================================
