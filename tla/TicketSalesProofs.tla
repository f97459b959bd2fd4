-------------------------- MODULE TicketSalesProofs --------------------------
(***************************************************************************)
(* The pipeline implements TicketSales, as long as no reply to a committed *)
(* statement of the database is lost: each step of TicketPurchase is a     *)
(* step of TicketSales, or changes neither the stock left nor the sales.   *)
(* The key invariant does the work: the consumer that creates a ticket is  *)
(* the only one past SetNX for its request, which has no ticket yet.       *)
(***************************************************************************)
EXTENDS TicketPurchaseProofs

USE RequestAssumption, StockAssumption

\* The state of TicketSales that TicketPurchase implements.
LeftOf(t) == IF dbStock[t] < 0 THEN 0 ELSE dbStock[t]
SaleOf(r) == IF Ticketed(r) THEN "sold" ELSE IF Creating(r) THEN "held" ELSE "open"
LeftMap == [t \in TicketTypes |-> LeftOf(t)]
SaleMap == [r \in Requests |-> SaleOf(r)]

\* Only c is past SetNX for its record, and the record has no ticket.
LEMMA SoleHolder ==
    ASSUME KeyInv, NEW c \in Consumers, NEW r \in Requests, Holds(c, r)
    PROVE  /\ ~ Ticketed(r)
           /\ \A d \in Consumers : d # c => ~ (pc[d] = "create" /\ cur[d] = r)
<1>1. ~ Ticketed(r)
  BY DEF KeyInv, Ticketed
<1>2. ASSUME NEW d \in Consumers, d # c PROVE ~ (pc[d] = "create" /\ cur[d] = r)
  BY <1>2 DEF KeyInv, Holds, Holding
<1>3. QED
  BY <1>1, <1>2

\* A step that starts and ends no creation and leaves the database alone is a
\* stutter of TicketSales.
LEMMA SalesStutter ==
    ASSUME UNCHANGED <<dbStock, tickets>>,
           \A d \in Consumers : \/ UNCHANGED <<pc[d], cur[d]>>
                                \/ pc[d] # "create" /\ pc'[d] # "create"
    PROVE  UNCHANGED Sales!salesVars
<1>1. \A r \in Requests : Ticketed(r)' = Ticketed(r) /\ (Creating(r)' <=> Creating(r))
  BY DEF Ticketed, Creating
<1>2. \A r \in Requests : SaleOf(r)' = SaleOf(r)
  BY <1>1 DEF SaleOf
<1>3. SaleMap' = SaleMap
  BY <1>2 DEF SaleMap
<1>4. LeftMap' = LeftMap
  BY DEF LeftMap, LeftOf
<1>5. QED
  BY <1>3, <1>4 DEF Sales!salesVars, SaleMap, LeftMap, SaleOf, LeftOf

\* When the creation of r ends, the sale of r takes its value and no other sale
\* changes.
LEMMA CreationEnds ==
    ASSUME TypeOK, KeyInv, NEW c \in Consumers, NEW r \in Requests,
           pc[c] = "create", cur[c] = r, pc'[c] # "create",
           \A d \in Consumers : d # c => UNCHANGED <<pc[d], cur[d]>>,
           UNCHANGED dbStock,
           \A s \in Requests : s # r => (Ticketed(s)' <=> Ticketed(s))
    PROVE  /\ SaleMap[r] = "held"
           /\ SaleMap' = [SaleMap EXCEPT ![r] = IF Ticketed(r)' THEN "sold" ELSE "open"]
           /\ LeftMap' = LeftMap
<1>1. Holds(c, r)
  BY DEF Holds, Holding
<1>2. ~ Ticketed(r) /\ Creating(r)
  BY <1>1, SoleHolder DEF Creating
<1>3. ~ Creating(r)'
  BY <1>1, SoleHolder DEF Creating
<1>4. SaleOf(r) = "held" /\ SaleOf(r)' = IF Ticketed(r)' THEN "sold" ELSE "open"
  BY <1>2, <1>3 DEF SaleOf
<1>5. ASSUME NEW s \in Requests, s # r PROVE SaleOf(s)' = SaleOf(s)
  <2>1. Creating(s)' <=> Creating(s)
    BY <1>5 DEF Creating
  <2>2. QED
    BY <1>5, <2>1 DEF SaleOf
<1>6. LeftMap' = LeftMap
  BY DEF LeftMap, LeftOf
<1>7. QED
  BY <1>4, <1>5, <1>6 DEF SaleMap

\* A creation that ends without its ticket gives the sale up.
LEMMA GiveUpStep ==
    ASSUME TypeOK, KeyInv, NEW c \in Consumers, NEW r \in Requests,
           pc[c] = "create", cur[c] = r, pc'[c] # "create",
           \A d \in Consumers : d # c => UNCHANGED <<pc[d], cur[d]>>,
           UNCHANGED <<dbStock, tickets>>
    PROVE  Sales!GiveUp(r)
<1>1. \A s \in Requests : Ticketed(s)' <=> Ticketed(s)
  BY DEF Ticketed
<1>2. ~ Ticketed(r)'
  BY <1>1, SoleHolder DEF Holds, Holding
<1>3. SaleMap[r] = "held" /\ SaleMap' = [SaleMap EXCEPT ![r] = "open"] /\ LeftMap' = LeftMap
  BY <1>1, <1>2, CreationEnds
<1>4. QED
  BY <1>3 DEF Sales!GiveUp, SaleMap, LeftMap, SaleOf, LeftOf

\* The insertion of the ticket sells the held units.
LEMMA SellStep ==
    ASSUME TypeOK, KeyInv, NEW c \in Consumers, NEW r \in Requests, r = cur[c],
           CreateTicket(c)
    PROVE  Sales!Sell(r)
<1>0. PICK x \in Ticket : x = [req |-> r, top |-> top[c]]
  BY DEF Ticket, TypeOK
<1>1. /\ pc[c] = "create" /\ tickets' = tickets \cup {x} /\ UNCHANGED dbStock
      /\ pc' = [pc EXCEPT ![c] = "next"] /\ cur' = [cur EXCEPT ![c] = NoRequest]
  BY <1>0 DEF CreateTicket, RecordDone
<1>2. Ticketed(r)' /\ \A s \in Requests : s # r => (Ticketed(s)' <=> Ticketed(s))
  BY <1>0, <1>1 DEF Ticketed
<1>3. pc'[c] # "create" /\ \A d \in Consumers : d # c => UNCHANGED <<pc[d], cur[d]>>
  BY <1>1 DEF TypeOK
<1>4. SaleMap[r] = "held" /\ SaleMap' = [SaleMap EXCEPT ![r] = "sold"] /\ LeftMap' = LeftMap
  BY <1>1, <1>2, <1>3, CreationEnds
<1>5. QED
  BY <1>4 DEF Sales!Sell, SaleMap, LeftMap, SaleOf, LeftOf

\* The guarded deduction holds the units of an open request.
LEMMA HoldStep ==
    ASSUME TypeOK, KeyInv, NEW c \in Consumers, NEW r \in Requests, r = cur[c],
           DeductStock(c)
    PROVE  Sales!Hold(r)
<1> DEFINE t == TypeOf[r]
           q == QuantityOf[r]
<1>1. /\ pc[c] = "deduct" /\ pc' = [pc EXCEPT ![c] = "create"] /\ UNCHANGED <<cur, tickets>>
      /\ dbStock[t] >= q /\ dbStock' = [dbStock EXCEPT ![t] = @ - q]
  BY DEF DeductStock, EnoughStock, UpdateStock, GoOn
<1>2. t \in TicketTypes /\ q \in Nat /\ dbStock[t] \in Int
  BY DEF TypeOK
<1>3. /\ ~ Ticketed(r)
      /\ \A d \in Consumers : d # c => ~ (pc[d] = "create" /\ cur[d] = r)
  BY <1>1, SoleHolder DEF Holds, Holding
<1>4. SaleOf(r) = "open" /\ SaleOf(r)' = "held"
  <2>1. ~ Creating(r) /\ Creating(r)' /\ ~ Ticketed(r)'
    BY <1>1, <1>3 DEF Creating, Ticketed, TypeOK
  <2>2. QED
    BY <1>3, <2>1 DEF SaleOf
<1>5. ASSUME NEW s \in Requests, s # r PROVE SaleOf(s)' = SaleOf(s)
  <2>1. (Creating(s)' <=> Creating(s)) /\ (Ticketed(s)' <=> Ticketed(s))
    BY <1>1, <1>5 DEF Creating, Ticketed, TypeOK
  <2>2. QED
    BY <2>1 DEF SaleOf
<1>6. SaleMap[r] = "open" /\ SaleMap' = [SaleMap EXCEPT ![r] = "held"]
  BY <1>4, <1>5 DEF SaleMap
<1>7. LeftOf(t) >= q /\ LeftOf(t)' = LeftOf(t) - q
  BY <1>1, <1>2 DEF LeftOf, TypeOK
<1>8. ASSUME NEW u \in TicketTypes, u # t PROVE LeftOf(u)' = LeftOf(u)
  BY <1>1, <1>8 DEF LeftOf, TypeOK
<1>9. LeftMap[t] >= q /\ LeftMap' = [LeftMap EXCEPT ![t] = @ - q]
  BY <1>2, <1>7, <1>8 DEF LeftMap
<1>10. QED
  BY <1>6, <1>9 DEF Sales!Hold, SaleMap, LeftMap, SaleOf, LeftOf

\* The subtraction that should undo a deduction forfeits units.
LEMMA ForfeitStep ==
    ASSUME TypeOK, NEW c \in Consumers, NEW r \in Requests, r = cur[c],
           UndoDeduction(c)
    PROVE  Sales!Forfeit(TypeOf[r])
<1> DEFINE t == TypeOf[r]
           q == QuantityOf[r]
<1>1. /\ pc[c] = "undo" /\ pc' = [pc EXCEPT ![c] = "rollback"] /\ UNCHANGED <<cur, tickets>>
      /\ UNCHANGED dbStock \/ dbStock' = [dbStock EXCEPT ![t] = @ - q]
  BY DEF UndoDeduction, UpdateStock, GoOn
<1>2. t \in TicketTypes /\ q \in Nat /\ dbStock[t] \in Int
  BY DEF TypeOK
<1>3. dbStock'[t] \in {dbStock[t], dbStock[t] - q}
  BY <1>1, <1>2 DEF TypeOK
<1>4. LeftOf(t)' \in 0 .. LeftOf(t)
  BY <1>2, <1>3 DEF LeftOf
<1>5. ASSUME NEW u \in TicketTypes, u # t PROVE LeftOf(u)' = LeftOf(u)
  BY <1>1, <1>5 DEF LeftOf, TypeOK
<1>6. LeftMap[t] = LeftOf(t) /\ LeftMap' = [LeftMap EXCEPT ![t] = LeftOf(t)']
  BY <1>2, <1>5 DEF LeftMap
<1>7. \A s \in Requests : (Creating(s)' <=> Creating(s)) /\ (Ticketed(s)' <=> Ticketed(s))
  BY <1>1 DEF Creating, Ticketed, TypeOK
<1>8. SaleMap' = SaleMap
  BY <1>7 DEF SaleMap, SaleOf
<1>9. QED
  BY <1>4, <1>6, <1>8 DEF Sales!Forfeit, SaleMap, LeftMap, SaleOf, LeftOf

\* Nothing is held or sold at the start.
LEMMA SalesStart == Init => Sales!SalesInit
<1> SUFFICES ASSUME Init PROVE Sales!SalesInit
  OBVIOUS
<1>1. \A r \in Requests : ~ Ticketed(r) /\ ~ Creating(r)
  BY DEF Init, Ticketed, Creating
<1>2. SaleMap = [r \in Requests |-> "open"]
  BY <1>1 DEF SaleMap, SaleOf
<1>3. LeftMap = InitialStock
  BY DEF Init, LeftMap, LeftOf
<1>4. QED
  BY <1>2, <1>3 DEF Sales!SalesInit, SaleMap, LeftMap, SaleOf, LeftOf

\* Every step of the pipeline is a step or a stutter of TicketSales.
LEMMA SalesStep ==
    ASSUME "db_lost_reply" \notin Faults, TypeOK, LogInv, KeyInv, [Next]_vars
    PROVE  Sales!SalesNext \/ UNCHANGED Sales!salesVars
<1>1. ASSUME NEW r \in Requests, Api(r) PROVE UNCHANGED Sales!salesVars
  <2>1. UNCHANGED <<dbStock, tickets, pc, cur>>
    BY <1>1 DEF Api, RefusePurchase, ReserveTicket, ReserveFails, PublishTicket,
       PublishFails, RollbackReservation, ApiCrash, consumerVars, dbVars
  <2>2. QED
    BY <2>1, SalesStutter
<1>2. ASSUME NEW c \in Consumers, Consume(c) PROVE UNCHANGED Sales!salesVars
  <2>1. UNCHANGED <<dbStock, tickets>>
    BY <1>2 DEF Consume, Poll, TakeRecord, CommitBatch, DeadLetter, dbVars
  <2>2. pc[c] # "create" /\ pc'[c] # "create"
        /\ \A d \in Consumers : d # c => UNCHANGED <<pc[d], cur[d]>>
    BY <1>2 DEF Consume, Poll, TakeRecord, CommitBatch, DeadLetter, RecordDone, TypeOK
  <2>3. QED
    BY <2>1, <2>2, SalesStutter
<1>3. CASE Group
  <2>1. CASE \E p \in Partitions, c \in Consumers : Rebalance(p, c)
    <3>1. UNCHANGED <<dbStock, tickets, pc, cur>>
      BY <2>1 DEF Rebalance, consumerVars, dbVars
    <3>2. QED
      BY <3>1, SalesStutter
  <2>2. ASSUME NEW c \in Consumers, ConsumerCrash(c)
        PROVE  Sales!SalesNext \/ UNCHANGED Sales!salesVars
    <3>1. /\ UNCHANGED <<dbStock, tickets>> /\ pc'[c] # "create"
          /\ \A d \in Consumers : d # c => UNCHANGED <<pc[d], cur[d]>>
      BY <2>2 DEF ConsumerCrash, dbVars, TypeOK
    <3>2. CASE pc[c] = "create"
      <4>1. PICK r \in Requests : cur[c] = r
        BY <3>2 DEF LogInv, HandsInv, InHand
      <4>2. Sales!GiveUp(r)
        BY <3>1, <3>2, <4>1, GiveUpStep
      <4>3. QED
        BY <4>2 DEF Sales!SalesNext
    <3>3. CASE pc[c] # "create"
      BY <3>1, <3>3, SalesStutter
    <3>4. QED
      BY <3>2, <3>3
  <2>3. QED
    BY <1>3, <2>1, <2>2 DEF Group
<1>4. ASSUME NEW c \in Consumers, Handle(c)
      PROVE  Sales!SalesNext \/ UNCHANGED Sales!salesVars
  <2>0. PICK r \in Requests : r = cur[c]
    BY <1>4 DEF Handle, MarkProcessed, SkipDuplicate, MarkFails, FindTypeFails,
       DeductStock, DeductRefused, CreateTicket, CreateFails, UndoDeduction,
       RollbackRedis, Unmark, LogInv, HandsInv, InHand
  <2>t. TypeOf[r] \in TicketTypes
    OBVIOUS
  <2>1. CASE MarkProcessed(c) \/ SkipDuplicate(c) \/ MarkFails(c) \/ FindTypeFails(c)
             \/ RollbackRedis(c) \/ Unmark(c) \/ DeductRefused(c)
    <3>1. UNCHANGED <<dbStock, tickets>>
      BY <2>1 DEF MarkProcessed, SkipDuplicate, MarkFails, FindTypeFails, RollbackRedis,
         Unmark, DeductRefused, dbVars, Fault
    <3>2. /\ pc[c] # "create" /\ pc'[c] # "create"
          /\ \A d \in Consumers : d # c => UNCHANGED <<pc[d], cur[d]>>
      BY <2>1 DEF MarkProcessed, SkipDuplicate, MarkFails, FindTypeFails, RollbackRedis,
         Unmark, DeductRefused, GoOn, RecordDone, AttemptFailed, TypeOK
    <3>3. QED
      BY <3>1, <3>2, SalesStutter
  <2>2. CASE DeductStock(c)
    BY <2>0, <2>2, HoldStep DEF Sales!SalesNext
  <2>3. CASE CreateTicket(c)
    BY <2>0, <2>3, SellStep DEF Sales!SalesNext
  <2>4. CASE CreateFails(c)
    <3>1. /\ pc[c] = "create" /\ UNCHANGED <<dbStock, tickets>> /\ pc'[c] # "create"
          /\ \A d \in Consumers : d # c => UNCHANGED <<pc[d], cur[d]>>
      BY <2>4 DEF CreateFails, GoOn, Fault, TypeOK
    <3>2. Sales!GiveUp(r)
      BY <2>0, <3>1, GiveUpStep
    <3>3. QED
      BY <3>2 DEF Sales!SalesNext
  <2>5. CASE UndoDeduction(c)
    BY <2>0, <2>t, <2>5, ForfeitStep DEF Sales!SalesNext
  <2>6. QED
    BY <1>4, <2>1, <2>2, <2>3, <2>4, <2>5 DEF Handle
<1>5. CASE UNCHANGED vars
  BY <1>5, SalesStutter DEF vars
<1>6. QED
  BY <1>1, <1>2, <1>3, <1>4, <1>5 DEF Next

\* The pipeline implements TicketSales unless the reply to a committed
\* statement is lost: units are held only while they are left, a request is
\* sold at most once and for good, and no unit returns to the stock.
THEOREM Implementation ==
    ASSUME "db_lost_reply" \notin Faults
    PROVE  Spec => ImplementsSales
<1>1. Init => Sales!SalesInit /\ KeyInv
  BY SalesStart, KeyInvInit
<1>2. TypeOK /\ LogInv /\ KeyInv /\ [Next]_vars => KeyInv'
  BY KeyInvNext
<1>3. TypeOK /\ LogInv /\ KeyInv /\ [Next]_vars => [Sales!SalesNext]_Sales!salesVars
  BY SalesStep
<1>4. QED
  BY <1>1, <1>2, <1>3, Typing, PTL DEF Spec, ImplementsSales, Sales!SalesSpec

=============================================================================
