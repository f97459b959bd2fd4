------------------------ MODULE TicketLifecycleProofs ------------------------
(***************************************************************************)
(* Proofs about TicketLifecycle for every number of users, tickets,        *)
(* request handlers and checkers, and every bound on the failures.         *)
(***************************************************************************)
EXTENDS TicketLifecycle, FiniteSetTheorems, TLAPS

USE TicketAssumption, WorkerAssumption

-----------------------------------------------------------------------------
(* Types.                                                                  *)

\* A worker that is neither idle nor between two rows has a ticket in hand.
HandInv == \A w \in Workers : step[w] \notin {"idle", "scan"} => hand[w] \in Tickets

\* The types and the hands at the start.
LEMMA TypeInit == Init => TypeOK /\ HandInv
<1> SUFFICES ASSUME Init PROVE TypeOK /\ HandInv
  OBVIOUS
<1>1. dbStock \in Int /\ redisStock \in Int /\ handlerFaults \in Nat /\ checkerFaults \in Nat
  BY DEF Init
<1>2. /\ status \in [Tickets -> Statuses \cup {"none"}]
      /\ step \in [Workers -> Steps] /\ hand \in [Workers -> Tickets \cup {NoTicket}]
  BY DEF Init, Steps
<1>3. found \in [Checkers -> SUBSET Tickets]
  BY DEF Init
<1>4. overdue \subseteq Tickets /\ bought \subseteq Users /\ paid \subseteq Tickets
      /\ stale \in BOOLEAN
  BY DEF Init
<1>5. HandInv
  BY DEF Init, HandInv
<1>6. QED
  BY <1>1, <1>2, <1>3, <1>4, <1>5 DEF TypeOK

\* Every step keeps the types and the hands.
LEMMA TypeNext == TypeOK /\ HandInv /\ [Next]_vars => (TypeOK /\ HandInv)'
<1> SUFFICES ASSUME TypeOK, HandInv, [Next]_vars PROVE TypeOK' /\ HandInv'
  OBVIOUS
<1> USE DEF TypeOK, HandInv, Statuses, Steps, Workers, NoFault, HandlerFault, CheckerFault,
            stockVars, faultVars
<1>1. ASSUME NEW t \in Tickets, Buy(t) \/ Age(t) PROVE TypeOK' /\ HandInv'
  BY <1>1 DEF Buy, Age
<1>2. ASSUME NEW h \in Handlers, Request(h) PROVE TypeOK' /\ HandInv'
  <2>1. ASSUME NEW t \in Tickets, NEW what \in {"pay", "use", "cancel"}, BeginRequest(h, t, what)
        PROVE  TypeOK' /\ HandInv'
    BY <2>1 DEF BeginRequest
  <2>2. ASSUME NEW what \in {"pay", "use"}, WriteStatus(h, what) PROVE TypeOK' /\ HandInv'
    <3>1. hand[h] \in Tickets /\ Target[what] \in Statuses
      BY <2>2 DEF WriteStatus, Target
    <3>2. QED
      BY <2>2, <3>1 DEF WriteStatus, UpdateStatus, Finish
  <2>3. CASE WriteCancelled(h)
    BY <2>3 DEF WriteCancelled, UpdateStatus
  <2>4. CASE CancelInRedis(h)
    BY <2>4 DEF CancelInRedis, SeckillRollback, Finish
  <2>5. CASE RequestFails(h)
    BY <2>5 DEF RequestFails, Finish
  <2>6. QED
    BY <1>2, <2>1, <2>2, <2>3, <2>4, <2>5 DEF Request
<1>3. ASSUME NEW k \in Checkers, Check(k) PROVE TypeOK' /\ HandInv'
  <2>1. CASE FindExpiredReserved(k)
    <3>1. /\ \E s \in {"scan", "idle"} : step' = [step EXCEPT ![k] = s]
          /\ found' \in [Checkers -> SUBSET Tickets]
      <4>1. ExpiredReserved \subseteq Tickets
        BY DEF ExpiredReserved
      <4>2. CASE ExpiredReserved = {}
        BY <2>1, <4>2 DEF FindExpiredReserved
      <4>3. CASE ExpiredReserved # {}
        <5>1. PICK rows \in SUBSET ExpiredReserved : found' = [found EXCEPT ![k] = rows]
          BY <2>1, <4>3 DEF FindExpiredReserved
        <5>2. step' = [step EXCEPT ![k] = "scan"]
          BY <2>1, <4>3 DEF FindExpiredReserved
        <5>3. QED
          BY <4>1, <5>1, <5>2
      <4>4. QED
        BY <4>2, <4>3
    <3>2. QED
      BY <2>1, <3>1 DEF FindExpiredReserved
  <2>2. CASE ExpireStatus(k)
    BY <2>2 DEF ExpireStatus, UpdateStatus
  <2>3. CASE ExpireStock(k)
    BY <2>3 DEF ExpireStock
  <2>4. CASE ExpireInRedis(k)
    BY <2>4 DEF ExpireInRedis, SeckillRollback, Finish
  <2>5. CASE ExpireFails(k)
    BY <2>5 DEF ExpireFails, Finish
  <2>6. CASE CheckerStops(k)
    BY <2>6 DEF CheckerStops, Finish
  <2>7. QED
    BY <1>3, <2>1, <2>2, <2>3, <2>4, <2>5, <2>6 DEF Check, ExpireStep
<1>4. CASE UNCHANGED vars
  BY <1>4 DEF vars
<1>5. QED
  BY <1>1, <1>2, <1>3, <1>4 DEF Next, Outside

\* Every variable keeps its type, whatever interleaves and fails.
THEOREM LifecycleTyping == Spec => [](TypeOK /\ HandInv)
<1>1. Init => TypeOK /\ HandInv
  BY TypeInit
<1>2. TypeOK /\ HandInv /\ [Next]_vars => (TypeOK /\ HandInv)'
  BY TypeNext
<1>3. QED
  BY <1>1, <1>2, PTL DEF Spec

-----------------------------------------------------------------------------
(* Only paid tickets are used.                                             *)

\* Paid and used tickets have been paid; a worker about to use a ticket holds
\* one that has been, and that is not unpaid again.
PaidInv ==
    /\ \A t \in Tickets : status[t] \in {"paid", "used"} => t \in paid
    /\ \A w \in Workers : step[w] = "use" =>
          hand[w] \in paid /\ status[hand[w]] \notin {"none", "reserved"}

\* A step that makes no ticket paid, used, unpaid or unsold and gives nobody a
\* ticket to use.
LEMMA PaidInvQuiet ==
    ASSUME TypeOK, HandInv, PaidInv, paid \subseteq paid',
           \A t \in Tickets : /\ status'[t] \in {"paid", "used"} => status[t] \in {"paid", "used"}
                              /\ status'[t] \in {"none", "reserved"} =>
                                    status[t] \in {"none", "reserved"},
           \A w \in Workers : step'[w] = "use" => step[w] = "use" /\ hand'[w] = hand[w]
    PROVE  PaidInv'
BY DEF PaidInv, HandInv, TypeOK

\* Every step keeps the invariant and leaves "reserved" as it should.
LEMMA PaidInvNext ==
    ASSUME TypeOK, HandInv, PaidInv, [Next]_vars
    PROVE  /\ PaidInv'
           /\ \A t \in Tickets :
                 /\ status[t] = "reserved" => status'[t] # "used"
                 /\ status'[t] = "reserved" => status[t] \in {"none", "reserved"}
<1> DEFINE Leaves == \A t \in Tickets :
                        /\ status[t] = "reserved" => status'[t] # "used"
                        /\ status'[t] = "reserved" => status[t] \in {"none", "reserved"}
<1> USE DEF Workers
<1>1. ASSUME NEW t \in Tickets, Buy(t) \/ Age(t) PROVE PaidInv' /\ Leaves
  <2>1. /\ UNCHANGED <<step, hand, paid>>
        /\ UNCHANGED status
           \/ (status[t] = "none" /\ status' = [status EXCEPT ![t] = "reserved"])
    BY <1>1 DEF Buy, Age
  <2>2. \A u \in Tickets : \/ status'[u] = status[u]
                           \/ status[u] = "none" /\ status'[u] = "reserved"
    BY <2>1 DEF TypeOK
  <2>3. PaidInv'
    BY <2>1, <2>2, PaidInvQuiet
  <2>4. QED
    BY <2>2, <2>3
<1>2. ASSUME NEW h \in Handlers, Request(h) PROVE PaidInv' /\ Leaves
  <2>1. ASSUME NEW t \in Tickets, NEW what \in {"pay", "use", "cancel"}, BeginRequest(h, t, what)
        PROVE  PaidInv' /\ Leaves
    <3>1. /\ UNCHANGED <<status, paid>>
          /\ step' = [step EXCEPT ![h] = what] /\ hand' = [hand EXCEPT ![h] = t]
      BY <2>1 DEF BeginRequest
    <3>2. CASE what # "use"
      <4>1. \A w \in Workers : step'[w] = "use" => step[w] = "use" /\ hand'[w] = hand[w]
        BY <3>1, <3>2 DEF TypeOK
      <4>2. QED
        BY <3>1, <4>1, PaidInvQuiet
    <3>3. CASE what = "use"
      <4>1. "used" \in ticketAllowedTransitions[status[t]]
        BY <2>1, <3>3 DEF BeginRequest, MayBegin, IsValidTicketTransition, Target
      <4>2. status[t] = "paid"
        BY <4>1 DEF ticketAllowedTransitions, TypeOK, Statuses
      <4>3. t \in paid /\ status[t] \notin {"none", "reserved"}
        BY <4>2 DEF PaidInv
      <4>4. ASSUME NEW w \in Workers, step'[w] = "use"
            PROVE  hand'[w] \in paid /\ status[hand'[w]] \notin {"none", "reserved"}
        <5>1. CASE w = h
          BY <3>1, <4>3, <5>1 DEF TypeOK
        <5>2. CASE w # h
          BY <3>1, <4>4, <5>2 DEF PaidInv, TypeOK
        <5>3. QED
          BY <5>1, <5>2
      <4>5. QED
        BY <3>1, <4>4 DEF PaidInv
    <3>4. QED
      BY <3>2, <3>3
  <2>2. ASSUME NEW what \in {"pay", "use"}, WriteStatus(h, what) PROVE PaidInv' /\ Leaves
    <3>1. PICK t \in Tickets : t = hand[h]
      BY <2>2 DEF WriteStatus, HandInv
    <3>2. /\ status' = [status EXCEPT ![t] = Target[what]]
          /\ step' = [step EXCEPT ![h] = "idle"] /\ hand' = [hand EXCEPT ![h] = NoTicket]
      BY <2>2, <3>1 DEF WriteStatus, UpdateStatus, Finish
    <3>3. Target[what] \in {"paid", "used"} /\ (Target[what] = "used" <=> what = "use")
      BY DEF Target
    <3>4. t \in paid' /\ paid \subseteq paid'
      <4>1. CASE what = "pay"
        BY <2>2, <3>1, <4>1 DEF WriteStatus, UpdateStatus, Target
      <4>2. CASE what = "use"
        BY <2>2, <3>1, <4>2 DEF WriteStatus, UpdateStatus, Target, PaidInv
      <4>3. QED
        BY <4>1, <4>2
    <3>5. \A u \in Tickets : u # t => status'[u] = status[u]
      BY <3>2 DEF TypeOK
    <3>6. status'[t] = Target[what]
      BY <3>2 DEF TypeOK
    <3>7. \A u \in Tickets : status'[u] \in {"paid", "used"} => u \in paid'
      BY <3>4, <3>5 DEF PaidInv
    <3>8. ASSUME NEW w \in Workers, step'[w] = "use"
          PROVE  hand'[w] \in paid' /\ status'[hand'[w]] \notin {"none", "reserved"}
      <4>1. w # h /\ step[w] = "use" /\ hand'[w] = hand[w]
        BY <3>2, <3>8 DEF TypeOK
      <4>2. hand[w] \in Tickets /\ hand[w] \in paid /\ status[hand[w]] \notin {"none", "reserved"}
        BY <4>1 DEF PaidInv, HandInv
      <4>3. QED
        BY <3>3, <3>4, <3>5, <3>6, <4>1, <4>2
    <3>9. PaidInv'
      BY <3>7, <3>8 DEF PaidInv
    <3>10. status[t] = "reserved" => what # "use"
      BY <2>2, <3>1 DEF PaidInv, WriteStatus
    <3>11. QED
      BY <3>3, <3>5, <3>6, <3>9, <3>10
  <2>3. CASE WriteCancelled(h)
    <3>1. PICK t \in Tickets : t = hand[h]
      BY <2>3 DEF WriteCancelled, HandInv
    <3>2. /\ status' = [status EXCEPT ![t] = "cancelled"] /\ UNCHANGED <<paid, hand>>
          /\ step' = [step EXCEPT ![h] = "redis"]
      BY <2>3, <3>1 DEF WriteCancelled, UpdateStatus
    <3>3. \A u \in Tickets : status'[u] = status[u] \/ status'[u] = "cancelled"
      BY <3>2 DEF TypeOK
    <3>4. \A w \in Workers : step'[w] = "use" => step[w] = "use"
      BY <3>2 DEF TypeOK
    <3>5. PaidInv'
      BY <3>2, <3>3, <3>4, PaidInvQuiet
    <3>6. QED
      BY <3>3, <3>5
  <2>4. CASE CancelInRedis(h) \/ RequestFails(h)
    <3>1. /\ UNCHANGED <<status, paid>>
          /\ step' = [step EXCEPT ![h] = "idle"] /\ hand' = [hand EXCEPT ![h] = NoTicket]
      BY <2>4 DEF CancelInRedis, RequestFails, Finish
    <3>2. \A w \in Workers : step'[w] = "use" => step[w] = "use" /\ hand'[w] = hand[w]
      BY <3>1 DEF TypeOK
    <3>3. QED
      BY <3>1, <3>2, PaidInvQuiet
  <2>5. QED
    BY <1>2, <2>1, <2>2, <2>3, <2>4 DEF Request
<1>3. ASSUME NEW k \in Checkers, Check(k) PROVE PaidInv' /\ Leaves
  <2>1. UNCHANGED paid
    BY <1>3 DEF Check, ExpireStep, FindExpiredReserved, ExpireStatus, ExpireStock,
       ExpireInRedis, ExpireFails, CheckerStops, UpdateStatus
  <2>2. \A w \in Workers : step'[w] = "use" => step[w] = "use" /\ hand'[w] = hand[w]
    <3>1. CASE FindExpiredReserved(k)
      BY <3>1 DEF FindExpiredReserved, TypeOK
    <3>2. CASE ExpireStatus(k)
      BY <3>2 DEF ExpireStatus, TypeOK
    <3>3. CASE ExpireStock(k) \/ ExpireInRedis(k) \/ ExpireFails(k) \/ CheckerStops(k)
      BY <3>3 DEF ExpireStock, ExpireInRedis, ExpireFails, CheckerStops, Finish, TypeOK
    <3>4. QED
      BY <1>3, <3>1, <3>2, <3>3 DEF Check, ExpireStep
  <2>3. \A u \in Tickets : status'[u] = status[u] \/ status'[u] = "expired"
    <3>1. CASE ExpireStatus(k)
      BY <3>1 DEF ExpireStatus, UpdateStatus, TypeOK
    <3>2. CASE ~ ExpireStatus(k)
      BY <1>3, <3>2 DEF Check, ExpireStep, FindExpiredReserved, ExpireStock,
         ExpireInRedis, ExpireFails, CheckerStops
    <3>3. QED
      BY <3>1, <3>2
  <2>4. PaidInv'
    BY <2>1, <2>2, <2>3, PaidInvQuiet
  <2>5. QED
    BY <2>3, <2>4
<1>4. CASE UNCHANGED vars
  BY <1>4, PaidInvQuiet DEF vars
<1>5. QED
  BY <1>1, <1>2, <1>3, <1>4 DEF Next, Outside

\* Nothing is sold, and nobody is at work.
LEMMA PaidInvInit == Init => PaidInv
BY DEF Init, PaidInv, Workers

\* No interleaving of requests and checkers lets an unpaid ticket be used.
THEOREM UsedOnlyPaid == Spec => []UsedWasPaid
<1>1. PaidInv => UsedWasPaid
  BY DEF PaidInv, UsedWasPaid
<1>2. TypeOK /\ HandInv /\ PaidInv /\ [Next]_vars => PaidInv'
  BY PaidInvNext
<1>3. QED
  BY <1>1, <1>2, PaidInvInit, LifecycleTyping, PTL DEF Spec

\* No interleaving turns a reserved ticket into a used one, or takes one back
\* to "reserved".
THEOREM ReservedLeftForGood == Spec => ReservedIsLeftForGood
<1>1. TypeOK /\ HandInv /\ PaidInv /\ [Next]_vars =>
        PaidInv' /\ [\A t \in Tickets :
                        /\ status[t] = "reserved" => status'[t] # "used"
                        /\ status'[t] = "reserved" => status[t] \in {"none", "reserved"}]_vars
  BY PaidInvNext
<1>2. QED
  BY <1>1, PaidInvInit, LifecycleTyping, PTL DEF Spec, ReservedIsLeftForGood

-----------------------------------------------------------------------------
(* A user has one live ticket.                                             *)

\* w has ended the ticket t and still has to return its unit to Redis.
Owes(w, t) == hand[w] = t /\ step[w] \in {"stock", "redis"}

IsLive(t) == status[t] \in {"reserved", "paid", "used"}

\* t keeps its owner in the set of buyers.
Claims(t) == IsLive(t) \/ \E w \in Workers : Owes(w, t)

\* Unless a status was overwritten: a worker that owes a unit owes it for a
\* ticket that has ended, and is the only one to owe it; the owner of a ticket
\* with a claim is in the set of buyers, and no other ticket of his has one.
ClaimParts ==
    /\ \A w \in Workers, t \in Tickets : Owes(w, t) => ~ IsLive(t) /\ status[t] # "none"
    /\ \A w, v \in Workers, t \in Tickets : Owes(w, t) /\ Owes(v, t) => w = v
    /\ \A t \in Tickets : Claims(t) => OwnerOf[t] \in bought
    /\ \A t, u \in Tickets : Claims(t) /\ Claims(u) /\ OwnerOf[t] = OwnerOf[u] => t = u

ClaimInv == ~ stale => ClaimParts

\* A step after which there is no claim that was not there before.
LEMMA ClaimQuiet ==
    ASSUME ClaimParts,
           \A t \in Tickets : IsLive(t)' => IsLive(t),
           \A w \in Workers, t \in Tickets :
               Owes(w, t)' => Owes(w, t) /\ ~ IsLive(t)' /\ status'[t] # "none",
           UNCHANGED bought
    PROVE  ClaimParts'
<1>1. \A t \in Tickets : Claims(t)' => Claims(t)
  BY DEF Claims
<1>2. QED
  BY <1>1 DEF ClaimParts

\* A purchase gives a claim to a user who has none.
LEMMA ClaimBuy ==
    ASSUME TypeOK, ClaimParts, NEW t \in Tickets, Buy(t)
    PROVE  ClaimParts'
<1>1. /\ status[t] = "none" /\ OwnerOf[t] \notin bought
      /\ bought' = bought \cup {OwnerOf[t]} /\ status' = [status EXCEPT ![t] = "reserved"]
      /\ UNCHANGED <<step, hand>>
  BY DEF Buy, MayBuy
<1>2. \A u \in Tickets : u # t => status'[u] = status[u]
  BY <1>1 DEF TypeOK
<1>3. \A w \in Workers, u \in Tickets : Owes(w, u)' <=> Owes(w, u)
  BY <1>1 DEF Owes
<1>4. \A w \in Workers : ~ Owes(w, t)
  BY <1>1 DEF ClaimParts
<1>5. \A u \in Tickets : Claims(u)' => Claims(u) \/ u = t
  BY <1>2, <1>3 DEF Claims, IsLive
<1>6. \A u \in Tickets : Claims(u) => OwnerOf[u] # OwnerOf[t]
  BY <1>1 DEF ClaimParts
<1>7. \A w \in Workers, u \in Tickets : Owes(w, u)' => ~ IsLive(u)' /\ status'[u] # "none"
  BY <1>2, <1>3, <1>4 DEF ClaimParts, IsLive
<1>8. \A w, v \in Workers, u \in Tickets : Owes(w, u)' /\ Owes(v, u)' => w = v
  BY <1>3 DEF ClaimParts
<1>9. \A u \in Tickets : Claims(u)' => OwnerOf[u] \in bought'
  BY <1>1, <1>5 DEF ClaimParts
<1>10. \A u, v \in Tickets : Claims(u)' /\ Claims(v)' /\ OwnerOf[u] = OwnerOf[v] => u = v
  BY <1>5, <1>6 DEF ClaimParts
<1>11. QED
  BY <1>7, <1>8, <1>9, <1>10 DEF ClaimParts

\* Ending a live ticket turns its claim into a debt of the worker that ends it.
LEMMA ClaimEnd ==
    ASSUME TypeOK, ClaimParts, NEW w \in Workers, NEW t \in Tickets, NEW s \in {"stock", "redis"},
           NEW new \in {"expired", "cancelled"}, IsLive(t), ~ \E u \in Tickets : Owes(w, u),
           status' = [status EXCEPT ![t] = new], step' = [step EXCEPT ![w] = s],
           hand'[w] = t, \A v \in Workers : v # w => hand'[v] = hand[v],
           UNCHANGED bought
    PROVE  ClaimParts'
<1>1. status'[t] = new /\ \A u \in Tickets : u # t => status'[u] = status[u]
  BY DEF TypeOK
<1>2. \A v \in Workers, u \in Tickets : Owes(v, u)' => Owes(v, u) \/ (v = w /\ u = t)
  BY DEF Owes, TypeOK
<1>3. \A v \in Workers : ~ Owes(v, t)
  BY DEF ClaimParts
<1>4. \A u \in Tickets : Claims(u)' => Claims(u)
  BY <1>1, <1>2 DEF Claims, IsLive
<1>5. \A v \in Workers, u \in Tickets : Owes(v, u)' => ~ IsLive(u)' /\ status'[u] # "none"
  BY <1>1, <1>2, <1>3 DEF ClaimParts, IsLive
<1>6. \A v, x \in Workers, u \in Tickets : Owes(v, u)' /\ Owes(x, u)' => v = x
  BY <1>2, <1>3 DEF ClaimParts
<1>7. QED
  BY <1>4, <1>5, <1>6 DEF ClaimParts

\* The rollback of Redis ends the only claim of its user.
LEMMA ClaimReturn ==
    ASSUME TypeOK, ClaimParts, NEW w \in Workers, NEW t \in Tickets, Owes(w, t),
           NEW s \in {"idle", "scan"}, SeckillRollback(t), Finish(w, s), UNCHANGED status
    PROVE  ClaimParts'
<1>1. /\ bought' = bought \ {OwnerOf[t]} /\ step' = [step EXCEPT ![w] = s]
      /\ hand' = [hand EXCEPT ![w] = NoTicket]
  BY DEF SeckillRollback, Finish
<1>2. \A v \in Workers, u \in Tickets : Owes(v, u)' => Owes(v, u) /\ v # w
  BY <1>1 DEF Owes, TypeOK
<1>3. \A u \in Tickets : Claims(u)' => Claims(u) /\ u # t
  BY <1>2 DEF Claims, IsLive, ClaimParts
<1>4. Claims(t)
  BY DEF Claims
<1>5. \A u \in Tickets : Claims(u)' => OwnerOf[u] # OwnerOf[t]
  BY <1>3, <1>4 DEF ClaimParts
<1>6. \A u \in Tickets : Claims(u)' => OwnerOf[u] \in bought'
  BY <1>1, <1>3, <1>5 DEF ClaimParts
<1>7. QED
  BY <1>2, <1>3, <1>6 DEF ClaimParts, IsLive

\* Every step keeps the claims in order unless it overwrites a status.
LEMMA ClaimInvNext ==
    ASSUME TypeOK, HandInv, ClaimInv, [Next]_vars
    PROVE  ClaimInv'
<1> SUFFICES ASSUME ~ stale' PROVE ClaimParts'
  BY DEF ClaimInv
<1> USE DEF Workers
<1>0. ~ stale
  BY DEF Next, Outside, Buy, Age, Request, BeginRequest, WriteStatus, WriteCancelled,
     CancelInRedis, RequestFails, Check, ExpireStep, FindExpiredReserved, ExpireStatus,
     ExpireStock, ExpireInRedis, ExpireFails, CheckerStops, UpdateStatus, vars
<1>c. ClaimParts
  BY <1>0 DEF ClaimInv
<1>1. ASSUME NEW t \in Tickets, Buy(t) PROVE ClaimParts'
  BY <1>c, <1>1, ClaimBuy
<1>2. ASSUME NEW t \in Tickets, Age(t) PROVE ClaimParts'
  BY <1>c, <1>2, ClaimQuiet DEF Age, stockVars, IsLive, Owes, ClaimParts
<1>3. ASSUME NEW h \in Handlers, Request(h) PROVE ClaimParts'
  <2>1. ASSUME NEW t \in Tickets, NEW what \in {"pay", "use", "cancel"}, BeginRequest(h, t, what)
        PROVE  ClaimParts'
    <3>1. /\ UNCHANGED <<status, bought>>
          /\ step' = [step EXCEPT ![h] = what] /\ hand' = [hand EXCEPT ![h] = t]
      BY <2>1 DEF BeginRequest, stockVars
    <3>2. \A w \in Workers, u \in Tickets : Owes(w, u)' => Owes(w, u)
      BY <3>1 DEF Owes, TypeOK
    <3>3. QED
      BY <1>c, <3>1, <3>2, ClaimQuiet DEF IsLive, ClaimParts
  <2>2. ASSUME NEW what \in {"pay", "use"}, WriteStatus(h, what) PROVE ClaimParts'
    <3>1. PICK t \in Tickets : t = hand[h]
      BY <2>2 DEF WriteStatus, HandInv
    <3>2. /\ step[h] = what /\ status' = [status EXCEPT ![t] = Target[what]] /\ UNCHANGED bought
          /\ step' = [step EXCEPT ![h] = "idle"] /\ hand' = [hand EXCEPT ![h] = NoTicket]
          /\ Target[what] \in ticketAllowedTransitions[status[t]]
      BY <2>2, <3>1 DEF WriteStatus, UpdateStatus, Finish, stockVars, IsValidTicketTransition
    <3>3. status[t] \in {"reserved", "paid"}
      BY <3>2 DEF ticketAllowedTransitions, TypeOK, Statuses, Target
    <3>4. \A u \in Tickets : u # t => status'[u] = status[u]
      BY <3>2 DEF TypeOK
    <3>5. \A w \in Workers, u \in Tickets : Owes(w, u)' => Owes(w, u)
      BY <3>2 DEF Owes, TypeOK
    <3>6. \A w \in Workers : ~ Owes(w, t)
      BY <1>c, <3>3 DEF ClaimParts, IsLive
    <3>7. QED
      BY <1>c, <3>2, <3>3, <3>4, <3>5, <3>6, ClaimQuiet DEF IsLive, ClaimParts
  <2>3. CASE WriteCancelled(h)
    <3>1. PICK t \in Tickets : t = hand[h]
      BY <2>3 DEF WriteCancelled, HandInv
    <3>2. /\ step[h] = "cancel" /\ status' = [status EXCEPT ![t] = "cancelled"]
          /\ step' = [step EXCEPT ![h] = "redis"] /\ UNCHANGED <<bought, hand>>
          /\ "cancelled" \in ticketAllowedTransitions[status[t]]
      BY <2>3, <3>1 DEF WriteCancelled, UpdateStatus, IsValidTicketTransition
    <3>3. IsLive(t)
      BY <3>2 DEF ticketAllowedTransitions, TypeOK, Statuses, IsLive
    <3>4. ~ \E u \in Tickets : Owes(h, u)
      BY <3>2 DEF Owes
    <3>5. QED
      BY <1>c, <3>1, <3>2, <3>3, <3>4, ClaimEnd
  <2>4. CASE CancelInRedis(h)
    <3>1. PICK t \in Tickets : t = hand[h]
      BY <2>4 DEF CancelInRedis, HandInv
    <3>2. Owes(h, t) /\ SeckillRollback(t) /\ Finish(h, "idle") /\ UNCHANGED status
      BY <2>4, <3>1 DEF CancelInRedis, Owes
    <3>3. QED
      BY <1>c, <3>2, ClaimReturn
  <2>5. CASE RequestFails(h)
    <3>1. /\ UNCHANGED <<status, bought>>
          /\ step' = [step EXCEPT ![h] = "idle"] /\ hand' = [hand EXCEPT ![h] = NoTicket]
      BY <2>5 DEF RequestFails, Finish, stockVars
    <3>2. \A w \in Workers, u \in Tickets : Owes(w, u)' => Owes(w, u)
      BY <3>1 DEF Owes, TypeOK
    <3>3. QED
      BY <1>c, <3>1, <3>2, ClaimQuiet DEF IsLive, ClaimParts
  <2>6. QED
    BY <1>3, <2>1, <2>2, <2>3, <2>4, <2>5 DEF Request
<1>4. ASSUME NEW k \in Checkers, Check(k) PROVE ClaimParts'
  <2>1. CASE FindExpiredReserved(k)
    <3>1. /\ UNCHANGED <<status, bought, hand>>
          /\ \E s \in {"scan", "idle"} : step' = [step EXCEPT ![k] = s]
      BY <2>1 DEF FindExpiredReserved, stockVars
    <3>2. \A w \in Workers, u \in Tickets : Owes(w, u)' => Owes(w, u)
      BY <3>1 DEF Owes, TypeOK
    <3>3. QED
      BY <1>c, <3>1, <3>2, ClaimQuiet DEF IsLive, ClaimParts
  <2>2. CASE ExpireStatus(k)
    <3>1. PICK t \in found[k] : UpdateStatus(t, "expired") /\ hand' = [hand EXCEPT ![k] = t]
      BY <2>2 DEF ExpireStatus
    <3>2. t \in Tickets
      BY <3>1 DEF TypeOK
    <3>3. /\ step[k] = "scan" /\ status' = [status EXCEPT ![t] = "expired"]
          /\ step' = [step EXCEPT ![k] = "stock"] /\ UNCHANGED bought
          /\ "expired" \in ticketAllowedTransitions[status[t]]
      BY <2>2, <3>1 DEF ExpireStatus, UpdateStatus, stockVars, IsValidTicketTransition
    <3>4. IsLive(t)
      BY <3>2, <3>3 DEF ticketAllowedTransitions, TypeOK, Statuses, IsLive
    <3>5. ~ \E u \in Tickets : Owes(k, u)
      BY <3>3 DEF Owes
    <3>6. hand'[k] = t /\ \A v \in Workers : v # k => hand'[v] = hand[v]
      BY <3>1 DEF TypeOK
    <3>7. QED
      BY <1>c, <3>2, <3>3, <3>4, <3>5, <3>6, ClaimEnd
  <2>3. CASE ExpireStock(k)
    <3>1. /\ UNCHANGED <<status, bought, hand>> /\ step[k] = "stock"
          /\ step' = [step EXCEPT ![k] = "redis"]
      BY <2>3 DEF ExpireStock
    <3>2. \A w \in Workers, u \in Tickets : Owes(w, u)' => Owes(w, u)
      BY <3>1 DEF Owes, TypeOK
    <3>3. QED
      BY <1>c, <3>1, <3>2, ClaimQuiet DEF IsLive, ClaimParts
  <2>4. CASE ExpireInRedis(k)
    <3>1. PICK t \in Tickets : t = hand[k]
      BY <2>4 DEF ExpireInRedis, HandInv
    <3>2. Owes(k, t) /\ SeckillRollback(t) /\ Finish(k, "scan") /\ UNCHANGED status
      BY <2>4, <3>1 DEF ExpireInRedis, Owes
    <3>3. QED
      BY <1>c, <3>2, ClaimReturn
  <2>5. CASE ExpireFails(k) \/ CheckerStops(k)
    <3>1. /\ UNCHANGED <<status, bought>> /\ hand' = [hand EXCEPT ![k] = NoTicket]
          /\ \E s \in {"scan", "idle"} : step' = [step EXCEPT ![k] = s]
      BY <2>5 DEF ExpireFails, CheckerStops, Finish, stockVars
    <3>2. \A w \in Workers, u \in Tickets : Owes(w, u)' => Owes(w, u)
      BY <3>1 DEF Owes, TypeOK
    <3>3. QED
      BY <1>c, <3>1, <3>2, ClaimQuiet DEF IsLive, ClaimParts
  <2>6. QED
    BY <1>4, <2>1, <2>2, <2>3, <2>4, <2>5 DEF Check, ExpireStep
<1>5. CASE UNCHANGED vars
  BY <1>c, <1>5, ClaimQuiet DEF vars, IsLive, Owes, ClaimParts
<1>6. QED
  BY <1>1, <1>2, <1>3, <1>4, <1>5 DEF Next, Outside

\* At the start there is no claim.
LEMMA ClaimInvInit == Init => ClaimInv
BY DEF Init, ClaimInv, ClaimParts, Claims, IsLive, Owes

\* Unless a status was overwritten against the table of transitions, no user
\* ever has two live tickets, although each one that ends lets him buy again
\* and the end and the rollback of Redis are separate steps that may fail.
THEOREM OneLive == Spec => []OneLiveTicketPerUser
<1>1. ClaimInv => OneLiveTicketPerUser
  BY DEF ClaimInv, ClaimParts, Claims, IsLive, OneLiveTicketPerUser, Live
<1>2. TypeOK /\ HandInv /\ ClaimInv /\ [Next]_vars => ClaimInv'
  BY ClaimInvNext
<1>3. QED
  BY <1>1, <1>2, ClaimInvInit, LifecycleTyping, PTL DEF Spec

-----------------------------------------------------------------------------
(* Sums.                                                                   *)

\* Nothing has no copies.
LEMMA TotalEmpty == ASSUME NEW q, DOMAIN q = {} PROVE IsFiniteSet(Copies(q)) /\ Total(q) = 0
<1>1. Copies(q) = {}
  BY DEF Copies
<1>2. QED
  BY <1>1, FS_EmptySet DEF Total

\* One thing more, and the sum grows by its number.
LEMMA TotalAdd ==
    ASSUME NEW p, NEW q, NEW x, x \notin DOMAIN p, DOMAIN q = DOMAIN p \cup {x},
           \A y \in DOMAIN p : q[y] = p[y], q[x] \in Nat, IsFiniteSet(Copies(p))
    PROVE  IsFiniteSet(Copies(q)) /\ Total(q) = Total(p) + q[x] /\ Total(p) \in Nat
<1> DEFINE New == {x} \X (1 .. q[x])
<1>1. Copies(q) = Copies(p) \cup New
  BY DEF Copies
<1>2. Copies(p) \cap New = {}
  BY DEF Copies
<1>3. IsFiniteSet({x}) /\ Cardinality({x}) = 1
  BY FS_Singleton
<1>4. IsFiniteSet(1 .. q[x]) /\ Cardinality(1 .. q[x]) = q[x]
  BY FS_Interval
<1>5. IsFiniteSet(New) /\ Cardinality(New) = q[x]
  <2>1. IsFiniteSet(New) /\ Cardinality(New) = Cardinality({x}) * Cardinality(1 .. q[x])
    BY <1>3, <1>4, FS_Product, Zenon
  <2>2. QED
    BY <1>3, <1>4, <2>1
<1> HIDE DEF New
<1>6. /\ IsFiniteSet(Copies(p) \cup New)
      /\ Cardinality(Copies(p) \cup New) = Cardinality(Copies(p)) + Cardinality(New) - Cardinality({})
  BY <1>2, <1>5, FS_Union
<1>7. Cardinality({}) = 0 /\ Cardinality(Copies(p)) \in Nat
  BY FS_EmptySet, FS_CardinalityType
<1>8. Total(q) = Total(p) + q[x]
  BY <1>1, <1>5, <1>6, <1>7 DEF Total
<1>9. QED
  BY <1>1, <1>6, <1>7, <1>8 DEF Total

\* One thing less.
LEMMA TotalRemove ==
    ASSUME NEW p, NEW q, NEW x, x \notin DOMAIN p, DOMAIN q = DOMAIN p \cup {x},
           \A y \in DOMAIN p : q[y] = p[y], q[x] \in Nat, IsFiniteSet(Copies(q))
    PROVE  IsFiniteSet(Copies(p)) /\ Total(p) = Total(q) - q[x] /\ Total(p) \in Nat
<1>1. Copies(p) \subseteq Copies(q)
  BY DEF Copies
<1>2. IsFiniteSet(Copies(p))
  BY <1>1, FS_Subset
<1>3. Total(p) \in Nat /\ Total(q) = Total(p) + q[x]
  BY <1>2, TotalAdd
<1>4. QED
  BY <1>2, <1>3

-----------------------------------------------------------------------------
(* The units of the database.                                              *)

\* Unless a status was overwritten: the books are finite and never show more
\* units than there were, nor fewer while no checker has failed.
Books ==
    /\ IsFiniteSet(Copies(Sold)) /\ IsFiniteSet(Copies(Owed))
    /\ Total(Sold) \in Nat /\ Total(Owed) \in Nat
    /\ dbStock + Total(Sold) + Total(Owed) <= InitialStock
    /\ checkerFaults = 0 => dbStock + Total(Sold) + Total(Owed) = InitialStock

BooksInv == ~ stale => Books

\* A ticket becomes live ...
LEMMA SoldMore ==
    ASSUME TypeOK, NEW t \in Tickets, t \notin Live, Live' = Live \cup {t},
           IsFiniteSet(Copies(Sold))
    PROVE  IsFiniteSet(Copies(Sold')) /\ Total(Sold') = Total(Sold) + QuantityOf[t]
<1>1. PICK p, q : p = Sold /\ q = Sold'
  OBVIOUS
<1>2. /\ t \notin DOMAIN p /\ DOMAIN q = DOMAIN p \cup {t}
      /\ \A y \in DOMAIN p : q[y] = p[y]
      /\ q[t] = QuantityOf[t] /\ q[t] \in Nat /\ IsFiniteSet(Copies(p))
  BY <1>1 DEF Sold
<1>3. QED
  BY <1>1, <1>2, TotalAdd

\* ... or is live no longer.
LEMMA SoldLess ==
    ASSUME TypeOK, NEW t \in Tickets, t \in Live, Live' = Live \ {t},
           IsFiniteSet(Copies(Sold))
    PROVE  /\ IsFiniteSet(Copies(Sold')) /\ Total(Sold') \in Nat
           /\ Total(Sold') = Total(Sold) - QuantityOf[t]
<1>1. PICK p, q : p = Sold' /\ q = Sold
  OBVIOUS
<1>2. /\ t \notin DOMAIN p /\ DOMAIN q = DOMAIN p \cup {t}
      /\ \A y \in DOMAIN p : q[y] = p[y]
      /\ q[t] = QuantityOf[t] /\ q[t] \in Nat /\ IsFiniteSet(Copies(q))
  BY <1>1 DEF Sold
<1>3. QED
  BY <1>1, <1>2, TotalRemove

\* A checker begins to owe the units of its ticket ...
LEMMA OwedMore ==
    ASSUME TypeOK, NEW k \in Checkers, k \notin OwingStock, OwingStock' = OwingStock \cup {k},
           \A j \in Checkers \ {k} : hand'[j] = hand[j],
           NEW t \in Tickets, hand'[k] = t, IsFiniteSet(Copies(Owed))
    PROVE  IsFiniteSet(Copies(Owed')) /\ Total(Owed') = Total(Owed) + QuantityOf[t]
<1>1. PICK p, q : p = Owed /\ q = Owed'
  OBVIOUS
<1>2. /\ k \notin DOMAIN p /\ DOMAIN q = DOMAIN p \cup {k}
      /\ \A y \in DOMAIN p : q[y] = p[y]
      /\ q[k] = QuantityOf[t] /\ q[k] \in Nat /\ IsFiniteSet(Copies(p))
  BY <1>1 DEF Owed, OwingStock
<1>3. QED
  BY <1>1, <1>2, TotalAdd

\* ... and owes them no longer.
LEMMA OwedLess ==
    ASSUME TypeOK, NEW k \in Checkers, k \in OwingStock, OwingStock' = OwingStock \ {k},
           \A j \in Checkers \ {k} : hand'[j] = hand[j],
           NEW t \in Tickets, hand[k] = t, IsFiniteSet(Copies(Owed))
    PROVE  /\ IsFiniteSet(Copies(Owed')) /\ Total(Owed') \in Nat
           /\ Total(Owed') = Total(Owed) - QuantityOf[t]
<1>1. PICK p, q : p = Owed' /\ q = Owed
  OBVIOUS
<1>2. /\ k \notin DOMAIN p /\ DOMAIN q = DOMAIN p \cup {k}
      /\ \A y \in DOMAIN p : q[y] = p[y]
      /\ q[k] = QuantityOf[t] /\ q[k] \in Nat /\ IsFiniteSet(Copies(q))
  BY <1>1 DEF Owed, OwingStock
<1>3. QED
  BY <1>1, <1>2, TotalRemove

\* The checkers owe what they did.
LEMMA OwedSame ==
    ASSUME OwingStock' = OwingStock, \A k \in OwingStock : hand'[k] = hand[k]
    PROVE  Owed' = Owed
BY DEF Owed

\* Nothing is entered in the books.
LEMMA BooksQuiet ==
    ASSUME Books, Live' = Live, Owed' = Owed, UNCHANGED dbStock,
           checkerFaults' = 0 => checkerFaults = 0
    PROVE  Books'
<1>1. Sold' = Sold
  BY DEF Sold
<1>2. QED
  BY <1>1 DEF Books

\* A worker that is no checker about to return units turns to something else.
LEMMA OthersOwe ==
    ASSUME TypeOK, NEW w \in Workers, NEW s \in Steps, NEW x,
           s # "stock" \/ w \in Handlers, step[w] # "stock" \/ w \in Handlers,
           step' = [step EXCEPT ![w] = s], hand' = [hand EXCEPT ![w] = x] \/ UNCHANGED hand
    PROVE  Owed' = Owed
<1>1. OwingStock' = OwingStock /\ w \notin OwingStock
  BY DEF OwingStock, TypeOK, Workers
<1>2. \A k \in OwingStock : hand'[k] = hand[k]
  BY <1>1 DEF OwingStock, TypeOK, Workers
<1>3. QED
  BY <1>1, <1>2, OwedSame

\* Every step keeps the books unless it overwrites a status.
LEMMA BooksNext ==
    ASSUME TypeOK, HandInv, BooksInv, [Next]_vars
    PROVE  BooksInv'
<1> SUFFICES ASSUME ~ stale' PROVE Books'
  BY DEF BooksInv
<1>0. ~ stale
  BY DEF Next, Outside, Buy, Age, Request, BeginRequest, WriteStatus, WriteCancelled,
     CancelInRedis, RequestFails, Check, ExpireStep, FindExpiredReserved, ExpireStatus,
     ExpireStock, ExpireInRedis, ExpireFails, CheckerStops, UpdateStatus, vars
<1>b. Books
  BY <1>0 DEF BooksInv
<1>i. dbStock \in Int /\ checkerFaults \in Nat /\ Total(Sold) \in Nat /\ Total(Owed) \in Nat
  BY <1>b DEF TypeOK, Books
<1>1. ASSUME NEW t \in Tickets, Buy(t) PROVE Books'
  <2>1. /\ status[t] = "none" /\ status' = [status EXCEPT ![t] = "reserved"]
        /\ dbStock' = dbStock - QuantityOf[t] /\ UNCHANGED <<step, hand, checkerFaults>>
    BY <1>1 DEF Buy, NoFault, faultVars
  <2>2. t \notin Live /\ Live' = Live \cup {t}
    BY <2>1 DEF Live, TypeOK
  <2>3. IsFiniteSet(Copies(Sold')) /\ Total(Sold') = Total(Sold) + QuantityOf[t]
    BY <1>b, <2>2, SoldMore DEF Books
  <2>4. Owed' = Owed
    BY <2>1 DEF Owed, OwingStock
  <2>5. QuantityOf[t] \in Nat
    OBVIOUS
  <2>6. QED
    BY <1>b, <1>i, <2>1, <2>3, <2>4, <2>5 DEF Books
<1>2. ASSUME NEW t \in Tickets, Age(t) PROVE Books'
  BY <1>b, <1>2, BooksQuiet DEF Age, stockVars, NoFault, faultVars, Live, Owed, OwingStock
<1>3. ASSUME NEW h \in Handlers, Request(h) PROVE Books'
  <2>1. ASSUME NEW t \in Tickets, NEW what \in {"pay", "use", "cancel"}, BeginRequest(h, t, what)
        PROVE  Books'
    <3>1. Owed' = Owed
      BY <2>1, OthersOwe DEF BeginRequest, Steps, Workers
    <3>2. QED
      BY <1>b, <2>1, <3>1, BooksQuiet DEF BeginRequest, stockVars, NoFault, faultVars, Live
  <2>2. ASSUME NEW what \in {"pay", "use"}, WriteStatus(h, what) PROVE Books'
    <3>1. PICK t \in Tickets : t = hand[h]
      BY <2>2 DEF WriteStatus, HandInv, Workers
    <3>2. /\ status' = [status EXCEPT ![t] = Target[what]]
          /\ Target[what] \in ticketAllowedTransitions[status[t]]
          /\ UNCHANGED <<dbStock, checkerFaults>>
      BY <2>2, <3>1 DEF WriteStatus, UpdateStatus, stockVars, NoFault, faultVars,
         IsValidTicketTransition
    <3>3. status[t] \in {"reserved", "paid"} /\ Target[what] \in {"paid", "used"}
      BY <3>2 DEF ticketAllowedTransitions, TypeOK, Statuses, Target
    <3>4. Live' = Live
      BY <3>2, <3>3 DEF Live, TypeOK
    <3>5. Owed' = Owed
      BY <2>2, OthersOwe DEF WriteStatus, Finish, Steps, Workers
    <3>6. QED
      BY <1>b, <3>2, <3>4, <3>5, BooksQuiet
  <2>3. CASE WriteCancelled(h)
    <3>1. PICK t \in Tickets : t = hand[h]
      BY <2>3 DEF WriteCancelled, HandInv, Workers
    <3>2. /\ status' = [status EXCEPT ![t] = "cancelled"]
          /\ "cancelled" \in ticketAllowedTransitions[status[t]]
          /\ dbStock' = dbStock + QuantityOf[t] /\ UNCHANGED checkerFaults
      BY <2>3, <3>1 DEF WriteCancelled, UpdateStatus, NoFault, faultVars,
         IsValidTicketTransition
    <3>3. status[t] \in {"reserved", "paid"}
      BY <3>2 DEF ticketAllowedTransitions, TypeOK, Statuses
    <3>4. t \in Live /\ Live' = Live \ {t}
      BY <3>2, <3>3 DEF Live, TypeOK
    <3>5. /\ IsFiniteSet(Copies(Sold')) /\ Total(Sold') \in Nat
          /\ Total(Sold') = Total(Sold) - QuantityOf[t]
      BY <1>b, <3>4, SoldLess DEF Books
    <3>6. Owed' = Owed
      BY <2>3, OthersOwe DEF WriteCancelled, Steps, Workers
    <3>7. QuantityOf[t] \in Nat
      OBVIOUS
    <3>8. QED
      BY <1>b, <1>i, <3>2, <3>5, <3>6, <3>7 DEF Books
  <2>4. CASE CancelInRedis(h) \/ RequestFails(h)
    <3>1. /\ step' = [step EXCEPT ![h] = "idle"] /\ hand' = [hand EXCEPT ![h] = NoTicket]
          /\ UNCHANGED <<status, dbStock, checkerFaults>>
      BY <2>4 DEF CancelInRedis, RequestFails, Finish, stockVars, NoFault, HandlerFault, faultVars
    <3>2. Owed' = Owed
      BY <3>1, OthersOwe DEF Steps, Workers
    <3>3. QED
      BY <1>b, <3>1, <3>2, BooksQuiet DEF Live
  <2>5. QED
    BY <1>3, <2>1, <2>2, <2>3, <2>4 DEF Request
<1>4. ASSUME NEW k \in Checkers, Check(k) PROVE Books'
  <2>1. CASE FindExpiredReserved(k)
    <3>1. /\ UNCHANGED <<status, dbStock, hand, checkerFaults>> /\ step[k] \in {"idle", "scan"}
          /\ \E s \in {"scan", "idle"} : step' = [step EXCEPT ![k] = s]
      BY <2>1 DEF FindExpiredReserved, stockVars, NoFault, faultVars
    <3>2. Owed' = Owed
      BY <3>1, OthersOwe DEF Steps, Workers
    <3>3. QED
      BY <1>b, <3>1, <3>2, BooksQuiet DEF Live
  <2>2. CASE ExpireStatus(k)
    <3>1. PICK t \in Tickets : /\ status' = [status EXCEPT ![t] = "expired"]
                               /\ "expired" \in ticketAllowedTransitions[status[t]]
                               /\ hand' = [hand EXCEPT ![k] = t]
      BY <2>2 DEF ExpireStatus, UpdateStatus, IsValidTicketTransition, TypeOK
    <3>2. /\ step[k] = "scan" /\ step' = [step EXCEPT ![k] = "stock"]
          /\ UNCHANGED <<dbStock, checkerFaults>>
      BY <2>2 DEF ExpireStatus, stockVars, NoFault, faultVars
    <3>3. status[t] = "reserved"
      BY <3>1 DEF ticketAllowedTransitions, TypeOK, Statuses
    <3>4. t \in Live /\ Live' = Live \ {t}
      BY <3>1, <3>3 DEF Live, TypeOK
    <3>5. /\ IsFiniteSet(Copies(Sold')) /\ Total(Sold') \in Nat
          /\ Total(Sold') = Total(Sold) - QuantityOf[t]
      BY <1>b, <3>4, SoldLess DEF Books
    <3>6. /\ k \notin OwingStock /\ OwingStock' = OwingStock \cup {k}
          /\ \A j \in Checkers \ {k} : hand'[j] = hand[j]
          /\ hand'[k] = t
      BY <3>1, <3>2 DEF OwingStock, TypeOK, Workers
    <3>7. IsFiniteSet(Copies(Owed')) /\ Total(Owed') = Total(Owed) + QuantityOf[t]
      BY <1>b, <3>6, OwedMore DEF Books
    <3>8. QuantityOf[t] \in Nat
      OBVIOUS
    <3>9. QED
      BY <1>b, <1>i, <3>2, <3>5, <3>7, <3>8 DEF Books
  <2>3. ASSUME step[k] = "stock", OwingStock' = OwingStock \ {k},
               \A j \in Checkers \ {k} : hand'[j] = hand[j], UNCHANGED status,
               \/ dbStock' = dbStock + QuantityOf[hand[k]] /\ UNCHANGED checkerFaults
               \/ dbStock' = dbStock /\ checkerFaults' # 0
        PROVE  Books'
    <3>1. PICK t \in Tickets : t = hand[k]
      BY <2>3 DEF HandInv, Workers
    <3>2. k \in OwingStock
      BY <2>3 DEF OwingStock
    <3>3. /\ IsFiniteSet(Copies(Owed')) /\ Total(Owed') \in Nat
          /\ Total(Owed') = Total(Owed) - QuantityOf[t]
      BY <1>b, <2>3, <3>1, <3>2, OwedLess DEF Books
    <3>4. Sold' = Sold
      BY <2>3 DEF Sold, Live
    <3>5. QuantityOf[t] \in Nat
      OBVIOUS
    <3>6. QED
      BY <1>b, <1>i, <2>3, <3>1, <3>3, <3>4, <3>5 DEF Books
  <2>4. CASE ExpireStock(k)
    <3>1. /\ step[k] = "stock" /\ step' = [step EXCEPT ![k] = "redis"]
          /\ dbStock' = dbStock + QuantityOf[hand[k]]
          /\ UNCHANGED <<status, hand, checkerFaults>>
      BY <2>4 DEF ExpireStock, NoFault, faultVars
    <3>2. OwingStock' = OwingStock \ {k}
      BY <3>1 DEF OwingStock, TypeOK, Workers
    <3>3. QED
      BY <2>3, <3>1, <3>2
  <2>5. CASE ExpireInRedis(k)
    <3>1. /\ step[k] = "redis" /\ step' = [step EXCEPT ![k] = "scan"]
          /\ hand' = [hand EXCEPT ![k] = NoTicket]
          /\ UNCHANGED <<status, dbStock, checkerFaults>>
      BY <2>5 DEF ExpireInRedis, Finish, NoFault, faultVars
    <3>2. Owed' = Owed
      BY <3>1, OthersOwe DEF Steps, Workers
    <3>3. QED
      BY <1>b, <3>1, <3>2, BooksQuiet DEF Live
  <2>6. CASE ExpireFails(k) \/ CheckerStops(k)
    <3>1. PICK s \in {"scan", "idle"} : step' = [step EXCEPT ![k] = s]
      BY <2>6 DEF ExpireFails, CheckerStops, Finish
    <3>2. /\ hand' = [hand EXCEPT ![k] = NoTicket] /\ UNCHANGED <<status, dbStock>>
          /\ checkerFaults' = checkerFaults + 1
      BY <2>6 DEF ExpireFails, CheckerStops, Finish, stockVars, CheckerFault
    <3>3. CASE step[k] = "stock"
      <4>1. OwingStock' = OwingStock \ {k} /\ \A j \in Checkers \ {k} : hand'[j] = hand[j]
        BY <3>1, <3>2 DEF OwingStock, TypeOK, Workers
      <4>2. QED
        BY <1>i, <2>3, <3>2, <3>3, <4>1
    <3>4. CASE step[k] # "stock"
      <4>1. Owed' = Owed
        BY <3>1, <3>2, <3>4, OthersOwe DEF Steps, Workers
      <4>2. QED
        BY <1>b, <1>i, <3>2, <4>1, BooksQuiet DEF Live
    <3>5. QED
      BY <3>3, <3>4
  <2>7. QED
    BY <1>4, <2>1, <2>2, <2>4, <2>5, <2>6 DEF Check, ExpireStep
<1>5. CASE UNCHANGED vars
  BY <1>b, <1>5, BooksQuiet DEF vars, Live, Owed, OwingStock
<1>6. QED
  BY <1>1, <1>2, <1>3, <1>4, <1>5 DEF Next, Outside

\* At the start all units are in the stock.
LEMMA BooksInit == Init => BooksInv
<1> SUFFICES ASSUME Init PROVE Books
  BY DEF BooksInv
<1>1. DOMAIN Sold = {} /\ DOMAIN Owed = {}
  BY DEF Init, Sold, Owed, Live, OwingStock, Workers
<1>2. /\ IsFiniteSet(Copies(Sold)) /\ Total(Sold) = 0
      /\ IsFiniteSet(Copies(Owed)) /\ Total(Owed) = 0
  BY <1>1, TotalEmpty
<1>3. QED
  BY <1>2 DEF Init, Books

\* Unless a status was overwritten, the units of the stock, of the live tickets
\* and of the checkers that are about to return some are never more than there
\* were, however many handlers and checkers interleave, and whatever fails.
THEOREM NothingInvented == Spec => []NoUnitInvented
<1>1. BooksInv => NoUnitInvented
  BY DEF BooksInv, Books, NoUnitInvented
<1>2. TypeOK /\ HandInv /\ BooksInv /\ [Next]_vars => BooksInv'
  BY BooksNext
<1>3. QED
  BY <1>1, <1>2, BooksInit, LifecycleTyping, PTL DEF Spec

\* They are never fewer as long as no checker has failed: interrupted requests
\* lose nothing in the database.
THEOREM NothingLost == Spec => []NoUnitLost
<1>1. TypeOK /\ BooksInv => NoUnitLost
  BY DEF BooksInv, Books, NoUnitLost, TypeOK
<1>2. TypeOK /\ HandInv /\ BooksInv /\ [Next]_vars => BooksInv'
  BY BooksNext
<1>3. QED
  BY <1>1, <1>2, BooksInit, LifecycleTyping, PTL DEF Spec

\* What the documents promise without a condition holds under one: tickets are
\* oversold only after a status was overwritten against the table.
THEOREM OversoldByOverwriting == Spec => [](~ stale => NoOversell)
<1>1. TypeOK /\ BooksInv /\ dbStock >= 0 => (~ stale => NoOversell)
  BY TicketAssumption DEF BooksInv, Books, NoOversell, TypeOK
<1>2. Init => dbStock >= 0
  BY TicketAssumption DEF Init
<1>3. TypeOK /\ HandInv /\ dbStock >= 0 /\ [Next]_vars => (dbStock >= 0)'
  <2> SUFFICES ASSUME TypeOK, HandInv, dbStock >= 0, [Next]_vars PROVE dbStock' >= 0
    OBVIOUS
  <2>1. \A t \in Tickets : QuantityOf[t] \in Nat
    BY TicketAssumption
  <2>2. ASSUME NEW t \in Tickets, Buy(t) PROVE dbStock' >= 0
    BY <2>1, <2>2 DEF Buy, TypeOK
  <2>3. ASSUME NEW w \in Workers, step[w] \in {"cancel", "stock"},
               dbStock' = dbStock + QuantityOf[hand[w]]
        PROVE  dbStock' >= 0
    <3>1. hand[w] \in Tickets
      BY <2>3 DEF HandInv
    <3>2. QED
      BY <2>1, <2>3, <3>1 DEF TypeOK
  <2>4. CASE UNCHANGED dbStock
    BY <2>4
  <2>5. ASSUME NEW h \in Handlers, Request(h) PROVE dbStock' >= 0
    BY <2>3, <2>4, <2>5
    DEF Request, BeginRequest, WriteStatus, WriteCancelled, CancelInRedis, RequestFails,
        stockVars, Workers
  <2>6. ASSUME NEW k \in Checkers, Check(k) PROVE dbStock' >= 0
    BY <2>3, <2>4, <2>6
    DEF Check, ExpireStep, FindExpiredReserved, ExpireStatus, ExpireStock, ExpireInRedis,
        ExpireFails, CheckerStops, stockVars, Workers
  <2>7. QED
    BY <2>2, <2>4, <2>5, <2>6 DEF Next, Outside, Age, vars, stockVars
<1>4. TypeOK /\ HandInv /\ BooksInv /\ [Next]_vars => BooksInv'
  BY BooksNext
<1>5. QED
  BY <1>1, <1>2, <1>3, <1>4, BooksInit, LifecycleTyping, PTL DEF Spec

-----------------------------------------------------------------------------
(* The units of Redis.                                                     *)

\* As long as nothing failed and no status was overwritten: who has a unit of
\* Redis can be counted, and the counts make up the initial stock.
RedisBooks ==
    /\ IsFiniteSet(Live) /\ IsFiniteSet(OwingRedis)
    /\ redisStock + Cardinality(Live) + Cardinality(OwingRedis) = InitialStock

RedisInv == ~ stale /\ checkerFaults + handlerFaults = 0 => RedisBooks

\* A worker that owes Redis nothing turns to something else.
LEMMA RedisQuiet ==
    ASSUME TypeOK, RedisBooks, Live' = Live, UNCHANGED redisStock,
           NEW w \in Workers, NEW s \in Steps, step' = [step EXCEPT ![w] = s],
           s \in {"stock", "redis"} <=> step[w] \in {"stock", "redis"}
    PROVE  RedisBooks'
<1>1. OwingRedis' = OwingRedis
  BY DEF OwingRedis, TypeOK
<1>2. QED
  BY <1>1 DEF RedisBooks

\* A ticket ends, and the worker that ends it owes its unit.
LEMMA RedisEnd ==
    ASSUME TypeOK, RedisBooks, NEW t \in Live, Live' = Live \ {t}, UNCHANGED redisStock,
           NEW w \in Workers, NEW s \in {"stock", "redis"}, step' = [step EXCEPT ![w] = s],
           step[w] \notin {"stock", "redis"}
    PROVE  RedisBooks'
<1>1. OwingRedis' = OwingRedis \cup {w} /\ w \notin OwingRedis
  BY DEF OwingRedis, TypeOK
<1>2. /\ IsFiniteSet(Live') /\ Cardinality(Live') = Cardinality(Live) - 1
      /\ Cardinality(Live) \in Nat
  BY FS_RemoveElement, FS_CardinalityType DEF RedisBooks
<1>3. /\ IsFiniteSet(OwingRedis') /\ Cardinality(OwingRedis') = Cardinality(OwingRedis) + 1
      /\ Cardinality(OwingRedis) \in Nat
  BY <1>1, FS_AddElement, FS_CardinalityType DEF RedisBooks
<1>4. QED
  BY <1>2, <1>3 DEF RedisBooks, TypeOK

\* The unit is returned.
LEMMA RedisReturn ==
    ASSUME TypeOK, RedisBooks, UNCHANGED status, NEW w \in Workers, step[w] = "redis",
           NEW s \in {"idle", "scan"}, SeckillRollback(hand[w]), Finish(w, s)
    PROVE  RedisBooks'
<1>1. OwingRedis' = OwingRedis \ {w} /\ w \in OwingRedis
  BY DEF OwingRedis, TypeOK, Finish
<1>2. /\ IsFiniteSet(OwingRedis') /\ Cardinality(OwingRedis') = Cardinality(OwingRedis) - 1
      /\ Cardinality(OwingRedis) \in Nat /\ Cardinality(Live) \in Nat
  BY <1>1, FS_RemoveElement, FS_CardinalityType DEF RedisBooks
<1>3. Live' = Live
  BY DEF Live
<1>4. redisStock' = redisStock + 1
  BY DEF SeckillRollback
<1>5. QED
  BY <1>2, <1>3, <1>4 DEF RedisBooks, TypeOK

\* Every step that is no failure keeps the count.
LEMMA RedisNext ==
    ASSUME TypeOK, HandInv, RedisInv, [Next]_vars
    PROVE  RedisInv'
<1> SUFFICES ASSUME ~ stale', checkerFaults' + handlerFaults' = 0 PROVE RedisBooks'
  BY DEF RedisInv
<1>0. ~ stale
  BY DEF Next, Outside, Buy, Age, Request, BeginRequest, WriteStatus, WriteCancelled,
     CancelInRedis, RequestFails, Check, ExpireStep, FindExpiredReserved, ExpireStatus,
     ExpireStock, ExpireInRedis, ExpireFails, CheckerStops, UpdateStatus, vars
<1>f. UNCHANGED faultVars \/ HandlerFault \/ CheckerFault
  BY DEF Next, Outside, Buy, Age, Request, BeginRequest, WriteStatus, WriteCancelled,
     CancelInRedis, RequestFails, Check, ExpireStep, FindExpiredReserved, ExpireStatus,
     ExpireStock, ExpireInRedis, ExpireFails, CheckerStops, NoFault, vars, faultVars
<1>n. ~ HandlerFault /\ ~ CheckerFault
  BY DEF HandlerFault, CheckerFault, TypeOK
<1>b. RedisBooks
  BY <1>0, <1>f, <1>n DEF RedisInv, faultVars
<1>1. ASSUME NEW t \in Tickets, Buy(t) PROVE RedisBooks'
  <2>1. /\ status[t] = "none" /\ status' = [status EXCEPT ![t] = "reserved"]
        /\ redisStock' = redisStock - 1 /\ UNCHANGED step
    BY <1>1 DEF Buy
  <2>2. t \notin Live /\ Live' = Live \cup {t}
    BY <2>1 DEF Live, TypeOK
  <2>3. /\ IsFiniteSet(Live') /\ Cardinality(Live') = Cardinality(Live) + 1
        /\ Cardinality(Live) \in Nat /\ Cardinality(OwingRedis) \in Nat
    BY <1>b, <2>2, FS_AddElement, FS_CardinalityType DEF RedisBooks
  <2>4. OwingRedis' = OwingRedis
    BY <2>1 DEF OwingRedis
  <2>5. QED
    BY <1>b, <2>1, <2>3, <2>4 DEF RedisBooks, TypeOK
<1>2. ASSUME NEW t \in Tickets, Age(t) PROVE RedisBooks'
  BY <1>b, <1>2 DEF Age, stockVars, Live, OwingRedis, RedisBooks
<1>3. ASSUME NEW h \in Handlers, Request(h) PROVE RedisBooks'
  <2>1. ASSUME NEW t \in Tickets, NEW what \in {"pay", "use", "cancel"}, BeginRequest(h, t, what)
        PROVE  RedisBooks'
    BY <1>b, <2>1, RedisQuiet DEF BeginRequest, stockVars, Live, Steps, Workers
  <2>2. ASSUME NEW what \in {"pay", "use"}, WriteStatus(h, what) PROVE RedisBooks'
    <3>1. PICK t \in Tickets : t = hand[h]
      BY <2>2 DEF WriteStatus, HandInv, Workers
    <3>2. /\ status' = [status EXCEPT ![t] = Target[what]]
          /\ Target[what] \in ticketAllowedTransitions[status[t]]
      BY <2>2, <3>1 DEF WriteStatus, UpdateStatus, IsValidTicketTransition
    <3>3. status[t] \in {"reserved", "paid"} /\ Target[what] \in {"paid", "used"}
      BY <3>2 DEF ticketAllowedTransitions, TypeOK, Statuses, Target
    <3>4. Live' = Live
      BY <3>2, <3>3 DEF Live, TypeOK
    <3>5. QED
      BY <1>b, <2>2, <3>4, RedisQuiet DEF WriteStatus, Finish, stockVars, Steps, Workers
  <2>3. CASE WriteCancelled(h)
    <3>1. PICK t \in Tickets : t = hand[h]
      BY <2>3 DEF WriteCancelled, HandInv, Workers
    <3>2. /\ status' = [status EXCEPT ![t] = "cancelled"]
          /\ "cancelled" \in ticketAllowedTransitions[status[t]]
      BY <2>3, <3>1 DEF WriteCancelled, UpdateStatus, IsValidTicketTransition
    <3>3. status[t] \in {"reserved", "paid"}
      BY <3>2 DEF ticketAllowedTransitions, TypeOK, Statuses
    <3>4. t \in Live /\ Live' = Live \ {t}
      BY <3>2, <3>3 DEF Live, TypeOK
    <3>5. QED
      BY <1>b, <2>3, <3>4, RedisEnd DEF WriteCancelled, Workers
  <2>4. CASE CancelInRedis(h)
    BY <1>b, <2>4, RedisReturn DEF CancelInRedis, Workers
  <2>5. CASE RequestFails(h)
    BY <1>n, <2>5 DEF RequestFails
  <2>6. QED
    BY <1>3, <2>1, <2>2, <2>3, <2>4, <2>5 DEF Request
<1>4. ASSUME NEW k \in Checkers, Check(k) PROVE RedisBooks'
  <2>1. CASE FindExpiredReserved(k)
    <3>1. PICK s \in {"scan", "idle"} : step' = [step EXCEPT ![k] = s]
      BY <2>1 DEF FindExpiredReserved
    <3>2. UNCHANGED <<status, redisStock>> /\ step[k] \in {"idle", "scan"}
      BY <2>1 DEF FindExpiredReserved, stockVars
    <3>3. QED
      BY <1>b, <3>1, <3>2, RedisQuiet DEF Live, Steps, Workers
  <2>2. CASE ExpireStatus(k)
    <3>1. PICK t \in Tickets : /\ status' = [status EXCEPT ![t] = "expired"]
                               /\ "expired" \in ticketAllowedTransitions[status[t]]
      BY <2>2 DEF ExpireStatus, UpdateStatus, IsValidTicketTransition, TypeOK
    <3>2. status[t] = "reserved"
      BY <3>1 DEF ticketAllowedTransitions, TypeOK, Statuses
    <3>3. t \in Live /\ Live' = Live \ {t}
      BY <3>1, <3>2 DEF Live, TypeOK
    <3>4. QED
      BY <1>b, <2>2, <3>3, RedisEnd DEF ExpireStatus, stockVars, Workers
  <2>3. CASE ExpireStock(k)
    BY <1>b, <2>3, RedisQuiet DEF ExpireStock, Live, Steps, Workers
  <2>4. CASE ExpireInRedis(k)
    BY <1>b, <2>4, RedisReturn DEF ExpireInRedis, Workers
  <2>5. CASE ExpireFails(k) \/ CheckerStops(k)
    BY <1>n, <2>5 DEF ExpireFails, CheckerStops
  <2>6. QED
    BY <1>4, <2>1, <2>2, <2>3, <2>4, <2>5 DEF Check, ExpireStep
<1>5. CASE UNCHANGED vars
  BY <1>b, <1>5 DEF vars, Live, OwingRedis, RedisBooks
<1>6. QED
  BY <1>1, <1>2, <1>3, <1>4, <1>5 DEF Next, Outside

\* At the start all units are in the hash.
LEMMA RedisInit == Init => RedisInv
<1> SUFFICES ASSUME Init PROVE RedisBooks
  BY DEF RedisInv
<1>1. Live = {} /\ OwingRedis = {}
  BY DEF Init, Live, OwingRedis, Workers
<1>2. QED
  BY <1>1, FS_EmptySet DEF Init, RedisBooks

\* Unless something failed or a status was overwritten, Redis gets back each
\* unit it gave out, one for a ticket, however many handlers and checkers run.
THEOREM RedisGetsBack == Spec => []RedisUnitsReturn
<1>1. RedisInv => RedisUnitsReturn
  BY DEF RedisInv, RedisBooks, RedisUnitsReturn
<1>2. TypeOK /\ HandInv /\ RedisInv /\ [Next]_vars => RedisInv'
  BY RedisNext
<1>3. QED
  BY <1>1, <1>2, RedisInit, LifecycleTyping, PTL DEF Spec

=============================================================================
