--------------------------- MODULE EventSaleProofs ---------------------------
(***************************************************************************)
(* Proofs about EventSale for every number of ticket types, organizers and *)
(* users, and every stock.                                                 *)
(***************************************************************************)
EXTENDS EventSale, FiniteSetTheorems, TLAPS

USE SaleAssumption

-----------------------------------------------------------------------------
(* Types.                                                                  *)

\* A session goes on with a well-typed job.
LEMMA TypeGo ==
    ASSUME TypeOK, NEW a \in Admins, NEW s \in Steps, NEW j \in Job, Go(a, s, j)
    PROVE  step' \in [Admins -> Steps] /\ job' \in [Admins -> Job]
  BY DEF Go, TypeOK

LEMMA NoJobType == NoJob \in Job
  BY DEF NoJob, Job, Unseen, Statuses

LEMMA TypeAnswer ==
    ASSUME TypeOK, NEW a \in Admins, Answer(a)
    PROVE  step' \in [Admins -> Steps] /\ job' \in [Admins -> Job]
  BY TypeGo, NoJobType DEF Answer, Steps

LEMMA TypeInit == Init => TypeOK
<1> SUFFICES ASSUME Init PROVE TypeOK
  OBVIOUS
<1>1. job \in [Admins -> Job]
  BY NoJobType DEF Init
<1>2. QED
  BY <1>1 DEF Init, TypeOK, Statuses, Steps

\* The organizers' steps keep the types.
LEMMA TypeOrganize ==
    ASSUME TypeOK, NEW a \in Admins, Organize(a)
    PROVE  TypeOK'
<1> USE DEF eventVars, redisVars, buyVars, Relied
<1>1. ASSUME NEW what \in {"edit", "create", "update", "delete"}, BeginEdit(a, what)
      PROVE  TypeOK'
  <2>1. \A t \in Types : [NoJob EXCEPT !.type = t] \in Job
    BY NoJobType DEF Job
  <2>2. step' \in [Admins -> Steps] /\ job' \in [Admins -> Job]
    BY <1>1, <2>1, NoJobType, TypeGo DEF BeginEdit, There, Steps
  <2>3. QED
    BY <1>1, <2>2 DEF BeginEdit, TypeOK
<1>2. CASE SaveEvent(a)
  BY <1>2, TypeAnswer DEF SaveEvent, TypeOK, Statuses
<1>3. ASSUME NEW t \in Types, NEW n \in Stocks, SaveType(a, t, n) PROVE TypeOK'
  BY <1>3, TypeAnswer DEF SaveType, TypeOK
<1>4. CASE DeleteType(a)
  BY <1>4, TypeAnswer DEF DeleteType, TypeOK
<1>5. ASSUME NEW to \in {"on_sale", "off_sale", "ended"}, BeginMove(a, to) PROVE TypeOK'
  <2>1. [NoJob EXCEPT !.to = to] \in Job
    BY NoJobType DEF Job, Statuses
  <2>2. (IF to = "on_sale" THEN "types" ELSE "move") \in Steps
    BY DEF Steps
  <2>3. step' \in [Admins -> Steps] /\ job' \in [Admins -> Job]
    BY <1>5, <2>1, <2>2, TypeGo DEF BeginMove
  <2>4. QED
    BY <1>5, <2>3 DEF BeginMove, TypeOK
<1>6. CASE ReadTypes(a)
  <2> DEFINE j == [job[a] EXCEPT !.todo = There,
                       !.seen = [t \in Types |-> IF t \in There THEN stock[t] ELSE 0]]
  <2>a. job[a] \in Job /\ There \in SUBSET Types
        /\ [t \in Types |-> IF t \in There THEN stock[t] ELSE 0] \in [Types -> Nat]
    BY DEF TypeOK, There
  <2>1. j \in Job
    BY <2>a DEF Job
  <2>2. Answer(a) \/ Go(a, "move", j)
    BY <1>6 DEF ReadTypes
  <2>3. step' \in [Admins -> Steps] /\ job' \in [Admins -> Job]
    BY <2>1, <2>2, TypeGo, TypeAnswer DEF Steps
  <2>4. QED
    BY <1>6, <2>3 DEF ReadTypes, TypeOK
<1>7. CASE UpdateStatus(a)
  <2>1. job[a] \in Job /\ job[a].to \in Statuses
    BY DEF TypeOK, Job
  <2>2. step' \in [Admins -> Steps] /\ job' \in [Admins -> Job]
    BY <1>7, <2>1, TypeGo, TypeAnswer DEF UpdateStatus, Steps
  <2>3. QED
    BY <1>7, <2>1, <2>2 DEF UpdateStatus, TypeOK
<1>8. CASE InitType(a)
  <2>1. PICK t \in job[a].todo :
          /\ InitSeckillStock(t, job[a].seen[t])
          /\ opened' = opened \cup {t}
          /\ disturbed' \subseteq disturbed \cup {t}
          /\ Answer(a) \/ Go(a, "init", [job[a] EXCEPT !.todo = @ \ {t}, !.seen = [@ EXCEPT ![t] = 0]])
    BY <1>8 DEF InitType
  <2>2. t \in Types /\ job[a].seen[t] \in Nat
    BY DEF TypeOK, Job
  <2>a. job[a] \in Job
    BY DEF TypeOK
  <2>b. [job[a].seen EXCEPT ![t] = 0] \in [Types -> Nat] /\ job[a].todo \ {t} \in SUBSET Types
    BY <2>a DEF Job
  <2>3. [job[a] EXCEPT !.todo = @ \ {t}, !.seen = [@ EXCEPT ![t] = 0]] \in Job
    BY <2>a, <2>b DEF Job
  <2>4. step' \in [Admins -> Steps] /\ job' \in [Admins -> Job]
    BY <2>1, <2>3, TypeGo, TypeAnswer DEF Steps
  <2>5. QED
    BY <1>8, <2>1, <2>2, <2>4 DEF InitType, InitSeckillStock, TypeOK
<1>9. CASE Fail(a)
  BY <1>9, TypeAnswer DEF Fail, TypeOK
<1>10. QED
  BY <1>1, <1>2, <1>3, <1>4, <1>5, <1>6, <1>7, <1>8, <1>9 DEF Organize

\* The users' steps keep the types.
LEMMA TypePurchase ==
    ASSUME TypeOK, NEW b \in Buyers, Purchase(b)
    PROVE  TypeOK'
<1> USE DEF TypeOK, eventVars, redisVars, workVars, Stand, There
<1>1. ASSUME NEW t \in Types, CheckSale(b, t) PROVE TypeOK'
  BY <1>1 DEF CheckSale
<1>2. CASE Reserve(b)
  <2>1. SeckillAnswer(b, want[b]) /\ want[b] \in Types => redisStock[want[b]] - 1 \in Nat
    BY DEF SeckillAnswer
  <2>2. redisStock' \in [Types -> Nat]
    BY <1>2, <2>1 DEF Reserve
  <2>3. QED
    BY <1>2, <2>2 DEF Reserve
<1>3. CASE HandleMessage(b)
  <2>1. stock' \in [Types -> Nat]
    BY <1>3 DEF HandleMessage
  <2>2. QED
    BY <1>3, <2>1 DEF HandleMessage
<1>4. CASE ReturnTicket(b)
  BY <1>4 DEF ReturnTicket
<1>5. CASE SeckillRollback(b)
  <2>1. redisStock' \in [Types -> Nat]
    <3>1. CASE want[b] \in Types
      BY <1>5, <3>1 DEF SeckillRollback
    <3>2. CASE want[b] \notin Types
      <4>1. redisStock' = redisStock
        BY <1>5, <3>2 DEF SeckillRollback
      <4>2. QED
        BY <4>1
    <3>3. QED
      BY <3>1, <3>2
  <2>2. bought' \in SUBSET Buyers /\ buy' \in [Buyers -> {"idle", "checked", "queued", "ticket", "returned"}]
        /\ want' \in [Buyers -> Types \cup {NoType}]
    BY <1>5 DEF SeckillRollback
  <2>3. QED
    BY <1>5, <2>1, <2>2 DEF SeckillRollback
<1>6. QED
  BY <1>1, <1>2, <1>3, <1>4, <1>5 DEF Purchase

LEMMA TypeNext == TypeOK /\ [Next]_vars => TypeOK'
<1>1. TypeOK /\ UNCHANGED vars => TypeOK'
  BY DEF TypeOK, vars
<1>2. QED
  BY <1>1, TypeOrganize, TypePurchase DEF Next

\* Every reachable state is well typed: in particular neither stock is ever
\* negative, whatever the organizers' sessions overwrite.
THEOREM SaleTyping == Spec => []TypeOK
<1>1. QED
  BY TypeInit, TypeNext, PTL DEF Spec

-----------------------------------------------------------------------------
(* Ticket types that are sold, and the stock they were given.              *)

\* What is changed only in a draft is changed before anybody buys: a draft has
\* no purchase, and nothing of it is in Redis or on the way there.
WantInv == \A b \in Buyers : buy[b] # "idle" => want[b] \in Types

DraftInv ==
    ~ stale /\ status = "draft" =>
        /\ \A b \in Buyers : buy[b] = "idle"
        /\ \A a \in Admins : step[a] # "init"
        /\ opened = {}

SaleInv == TypeOK /\ WantInv /\ DraftInv /\ SoldTypesAreThere

LEMMA SaleInit == Init => SaleInv
<1> SUFFICES ASSUME Init PROVE SaleInv
  OBVIOUS
<1>1. TypeOK
  BY TypeInit
<1>2. QED
  BY <1>1 DEF Init, SaleInv, WantInv, DraftInv, SoldTypesAreThere

\* The organizers' steps: a write to the row of a type that was not stale found
\* a draft, which nobody buys tickets of.
LEMMA SaleOrganize ==
    ASSUME SaleInv, NEW a \in Admins, Organize(a)
    PROVE  SaleInv'
<1> USE DEF SaleInv, WantInv, DraftInv, SoldTypesAreThere, eventVars, redisVars, buyVars, Relied
<1>t. TypeOK /\ TypeOK'
  BY TypeOrganize
<1>g. ASSUME NEW s \in Steps \ {"init"}, NEW j, Go(a, s, j)
      PROVE  \A c \in Admins : step'[c] = "init" => step[c] = "init"
  BY <1>t, <1>g DEF Go, TypeOK
<1>s. {"idle", "edit", "create", "update", "delete", "types", "move"} \subseteq Steps \ {"init"}
  BY DEF Steps
<1>1. ASSUME NEW what \in {"edit", "create", "update", "delete"}, BeginEdit(a, what)
      PROVE  SaleInv'
  <2>1. \A c \in Admins : step'[c] = "init" => step[c] = "init"
    BY <1>1, <1>g, <1>s DEF BeginEdit
  <2>2. QED
    BY <1>1, <1>t, <2>1 DEF BeginEdit
<1>2. CASE SaveEvent(a)
  <2>1. \A c \in Admins : step'[c] = "init" => step[c] = "init"
    BY <1>2, <1>g, <1>s DEF SaveEvent, Answer
  <2>2. QED
    BY <1>2, <1>t, <2>1 DEF SaveEvent, MayEdit
<1>3. ASSUME NEW t \in Types, NEW n \in Stocks, SaveType(a, t, n) PROVE SaleInv'
  <2>1. \A c \in Admins : step'[c] = "init" => step[c] = "init"
    BY <1>3, <1>g, <1>s DEF SaveType, Answer
  <2>2. ~ stale' => \A b \in Buyers : buy[b] = "idle"
    BY <1>3 DEF SaveType, MayEdit
  <2>3. QED
    BY <1>3, <1>t, <2>1, <2>2 DEF SaveType
<1>4. CASE DeleteType(a)
  <2>1. \A c \in Admins : step'[c] = "init" => step[c] = "init"
    BY <1>4, <1>g, <1>s DEF DeleteType, Answer
  <2>2. ~ stale' => \A b \in Buyers : buy[b] = "idle"
    BY <1>4 DEF DeleteType, MayEdit
  <2>3. QED
    BY <1>4, <1>t, <2>1, <2>2 DEF DeleteType
<1>5. ASSUME NEW to \in {"on_sale", "off_sale", "ended"}, BeginMove(a, to) PROVE SaleInv'
  <2>1. \A c \in Admins : step'[c] = "init" => step[c] = "init"
    BY <1>5, <1>g, <1>s DEF BeginMove
  <2>2. QED
    BY <1>5, <1>t, <2>1 DEF BeginMove
<1>6. CASE ReadTypes(a)
  <2>1. \A c \in Admins : step'[c] = "init" => step[c] = "init"
    BY <1>6, <1>g, <1>s DEF ReadTypes, Answer
  <2>2. QED
    BY <1>6, <1>t, <2>1 DEF ReadTypes
<1>7. CASE UpdateStatus(a)
  <2>a. \A from \in Statuses : ~ IsValidEventTransition(from, "draft")
    BY DEF IsValidEventTransition, eventAllowedTransitions, Statuses
  <2>b. ~ stale' => IsValidEventTransition(status, job[a].to)
    BY <1>7 DEF UpdateStatus
  <2>1. ~ stale' => status' # "draft"
    BY <1>7, <1>t, <2>a, <2>b DEF UpdateStatus, TypeOK
  <2>2. QED
    BY <1>7, <1>t, <2>1 DEF UpdateStatus
<1>8. CASE InitType(a)
  <2>1. step[a] = "init" /\ UNCHANGED <<status, row, stale, buy, want>>
    BY <1>8 DEF InitType
  <2>2. QED
    BY <1>t, <2>1
<1>9. CASE Fail(a)
  <2>1. \A c \in Admins : step'[c] = "init" => step[c] = "init"
    BY <1>9, <1>g, <1>s DEF Fail, Answer
  <2>2. QED
    BY <1>9, <1>t, <2>1 DEF Fail
<1>10. QED
  BY <1>1, <1>2, <1>3, <1>4, <1>5, <1>6, <1>7, <1>8, <1>9 DEF Organize

\* The users' steps: a purchase begins on sale, with a type that is there, and
\* keeps the type until it is over.
LEMMA SalePurchase ==
    ASSUME SaleInv, NEW b \in Buyers, Purchase(b)
    PROVE  SaleInv'
<1> USE DEF SaleInv, WantInv, DraftInv, SoldTypesAreThere, eventVars, redisVars, workVars
<1>t. TypeOK /\ TypeOK'
  BY TypePurchase
<1>1. ASSUME NEW t \in Types, CheckSale(b, t) PROVE SaleInv'
  BY <1>1, <1>t DEF CheckSale, TypeOK
<1>2. CASE Reserve(b)
  BY <1>2, <1>t DEF Reserve, Stand, TypeOK
<1>3. CASE HandleMessage(b)
  BY <1>3, <1>t DEF HandleMessage, Stand, TypeOK
<1>4. CASE ReturnTicket(b)
  BY <1>4, <1>t DEF ReturnTicket, Stand, TypeOK
<1>5. CASE SeckillRollback(b)
  BY <1>5, <1>t DEF SeckillRollback, Stand, TypeOK
<1>6. QED
  BY <1>1, <1>2, <1>3, <1>4, <1>5 DEF Purchase

LEMMA SaleNext == SaleInv /\ [Next]_vars => SaleInv'
<1>1. SaleInv /\ UNCHANGED vars => SaleInv'
  BY DEF SaleInv, WantInv, DraftInv, SoldTypesAreThere, TypeOK, vars
<1>2. QED
  BY <1>1, SaleOrganize, SalePurchase DEF Next

LEMMA SaleSafe == Spec => []SaleInv
  BY SaleInit, SaleNext, PTL DEF Spec

\* A type that somebody is buying or holds a ticket of is there, as long as no
\* write was stale: no test of the status has to be made again by a purchase.
THEOREM SoldTypes == Spec => []SoldTypesAreThere
<1>1. SaleInv => SoldTypesAreThere
  BY DEF SaleInv
<1>2. QED
  BY SaleSafe, <1>1, PTL

-----------------------------------------------------------------------------
(* What a type was given is what is left of it and what was sold of it.    *)

\* One user more or less.
LEMMA Counts ==
    ASSUME NEW S \in SUBSET Buyers, NEW b \in Buyers
    PROVE  /\ Cardinality(S) \in Nat
           /\ b \notin S => Cardinality(S \cup {b}) = Cardinality(S) + 1
           /\ b \in S => Cardinality(S \ {b}) = Cardinality(S) - 1
           /\ S = {} => Cardinality(S) = 0
<1>1. IsFiniteSet(S)
  BY FS_Subset
<1>2. QED
  BY <1>1, FS_CardinalityType, FS_AddElement, FS_RemoveElement, FS_EmptySet

BookInv ==
    /\ SaleInv
    /\ StockIsAsConfigured
    /\ RedisMatchesDatabase

LEMMA BookInit == Init => BookInv
<1> SUFFICES ASSUME Init PROVE BookInv
  OBVIOUS
<1>1. There = {} /\ opened = {}
  BY DEF Init, There
<1>2. QED
  BY <1>1, SaleInit DEF BookInv, StockIsAsConfigured, RedisMatchesDatabase

\* A step that changes neither stock nor the purchases keeps the books.
LEMMA BooksUnchanged ==
    ASSUME BookInv, stale' = FALSE => stale = FALSE, UNCHANGED <<stock, buy, want>>,
           There' \subseteq There, configured' = configured
    PROVE  /\ stale' \in BOOLEAN => StockIsAsConfigured'
           /\ (stale' \in BOOLEAN /\ UNCHANGED redisVars) => RedisMatchesDatabase'
<1>1. \A t \in Types : Ticketed(t)' = Ticketed(t) /\ InFlight(t)' = InFlight(t)
  BY DEF Ticketed, InFlight
<1>2. There \subseteq Types /\ opened \subseteq Types
  BY DEF There, BookInv, SaleInv, TypeOK
<1>3. QED
  BY <1>1, <1>2 DEF BookInv, StockIsAsConfigured, RedisMatchesDatabase, redisVars

LEMMA BookOrganize ==
    ASSUME BookInv, NEW a \in Admins, Organize(a)
    PROVE  BookInv'
<1> USE DEF eventVars, redisVars, buyVars, Relied
<1>t. TypeOK /\ SaleInv /\ SaleInv' /\ TypeOK' /\ stale \in BOOLEAN /\ stale' \in BOOLEAN
  BY SaleOrganize DEF BookInv, SaleInv, TypeOK
<1>1. ASSUME NEW what \in {"edit", "create", "update", "delete"}, BeginEdit(a, what)
      PROVE  BookInv'
  BY <1>1, <1>t, BooksUnchanged DEF BeginEdit, BookInv, There
<1>2. CASE SaveEvent(a)
  BY <1>2, <1>t, BooksUnchanged DEF SaveEvent, BookInv, There
<1>3. ASSUME NEW t \in Types, NEW n \in Stocks, SaveType(a, t, n) PROVE BookInv'
  <2>1. stale' = FALSE => /\ \A b \in Buyers : buy[b] = "idle"
                         /\ opened = {}
                         /\ stale = FALSE
    BY <1>3, <1>t DEF SaveType, MayEdit, SaleInv, DraftInv
  <2>2. stale' = FALSE => Ticketed(t)' = {}
    BY <1>3, <2>1 DEF SaveType, Ticketed
  <2>3. \A u \in Types : Ticketed(u)' = Ticketed(u)
    BY <1>3 DEF SaveType, Ticketed
  <2>4. \A u \in There' : u # t => u \in There /\ stock'[u] = stock[u] /\ configured'[u] = configured[u]
    BY <1>3, <1>t DEF SaveType, There, TypeOK
  <2>5. stock'[t] = n /\ configured'[t] = n
    BY <1>3, <1>t DEF SaveType, TypeOK
  <2>6. stale' = FALSE => stock'[t] + Cardinality(Ticketed(t)') = configured'[t]
    BY <2>2, <2>5, FS_EmptySet
  <2>7. StockIsAsConfigured'
    <3> SUFFICES ASSUME stale' = FALSE, NEW u \in There'
                 PROVE  stock'[u] + Cardinality(Ticketed(u)') = configured'[u]
      BY <1>t DEF StockIsAsConfigured
    <3>1. CASE u = t
      BY <3>1, <2>6
    <3>2. CASE u # t
      BY <3>2, <2>1, <2>3, <2>4 DEF BookInv, StockIsAsConfigured, There
    <3>3. QED
      BY <3>1, <3>2
  <2>8. RedisMatchesDatabase'
    BY <1>3, <1>t, <2>1 DEF SaveType, RedisMatchesDatabase
  <2>9. QED
    BY <1>t, <2>7, <2>8 DEF BookInv
<1>4. CASE DeleteType(a)
  <2>1. There' \subseteq There
    BY <1>4, <1>t DEF DeleteType, There, TypeOK
  <2>2. QED
    BY <1>4, <1>t, <2>1, BooksUnchanged DEF DeleteType, BookInv
<1>5. ASSUME NEW to \in {"on_sale", "off_sale", "ended"}, BeginMove(a, to) PROVE BookInv'
  BY <1>5, <1>t, BooksUnchanged DEF BeginMove, BookInv, There
<1>6. CASE ReadTypes(a)
  BY <1>6, <1>t, BooksUnchanged DEF ReadTypes, BookInv, There
<1>7. CASE UpdateStatus(a)
  BY <1>7, <1>t, BooksUnchanged DEF UpdateStatus, BookInv, There
<1>8. CASE InitType(a)
  <2>1. PICK t \in job[a].todo :
          /\ InitSeckillStock(t, job[a].seen[t])
          /\ opened' = opened \cup {t}
          /\ disturbed' = IF InFlight(t) = {} /\ job[a].seen[t] = stock[t]
                          THEN disturbed \ {t} ELSE disturbed \cup {t}
    BY <1>8 DEF InitType
  <2>2. UNCHANGED <<status, row, stock, configured, buy, want, stale>>
    BY <1>8 DEF InitType
  <2>3. t \in Types /\ job[a].seen[t] \in Nat
    BY <1>t DEF TypeOK, Job
  <2>4. StockIsAsConfigured'
    BY <1>t, <2>2, BooksUnchanged DEF There
  <2>5. \A u \in Types : InFlight(u)' = InFlight(u)
    BY <2>2 DEF InFlight
  <2>6. opened' \ disturbed' \subseteq Types
    BY <1>t DEF TypeOK
  <2>7. RedisMatchesDatabase'
    <3> SUFFICES ASSUME stale = FALSE, NEW u \in opened' \ disturbed'
                 PROVE  redisStock'[u] + Cardinality(InFlight(u)) = stock[u]
      BY <1>t, <2>2, <2>5, <2>6 DEF RedisMatchesDatabase
    <3>1. CASE u = t
      <4>1. InFlight(t) = {} /\ job[a].seen[t] = stock[t]
        BY <2>1, <3>1
      <4>2. redisStock'[t] = stock[t]
        BY <1>t, <2>1, <2>3, <4>1 DEF InitSeckillStock, TypeOK
      <4>3. stock[t] \in Nat
        BY <1>t, <2>3 DEF TypeOK
      <4>4. QED
        BY <3>1, <4>1, <4>2, <4>3, FS_EmptySet
    <3>2. CASE u # t
      <4>1. u \in opened \ disturbed
        BY <2>1, <3>2
      <4>2. redisStock'[u] = redisStock[u]
        BY <1>t, <2>1, <3>2, <4>1 DEF InitSeckillStock, TypeOK
      <4>3. QED
        BY <4>1, <4>2 DEF BookInv, RedisMatchesDatabase
    <3>3. QED
      BY <3>1, <3>2
  <2>8. QED
    BY <1>t, <2>4, <2>7 DEF BookInv
<1>9. CASE Fail(a)
  BY <1>9, <1>t, BooksUnchanged DEF Fail, BookInv, There
<1>10. QED
  BY <1>1, <1>2, <1>3, <1>4, <1>5, <1>6, <1>7, <1>8, <1>9 DEF Organize

\* The user's next step, read as units: what Redis gives up goes in flight,
\* what the database gives up becomes a ticket, and back.
LEMMA BookPurchase ==
    ASSUME BookInv, NEW b \in Buyers, Purchase(b)
    PROVE  BookInv'
<1> DEFINE t == want[b]
<1>t. TypeOK /\ SaleInv /\ SaleInv' /\ TypeOK' /\ stale \in BOOLEAN
  BY SalePurchase DEF BookInv, SaleInv, TypeOK
<1>u. UNCHANGED <<row, configured, opened, disturbed, stale>> /\ There' = There
  BY DEF Purchase, CheckSale, Reserve, HandleMessage, ReturnTicket, SeckillRollback,
         eventVars, redisVars, There
<1>w. buy[b] # "idle" => t \in Types
  BY <1>t DEF SaleInv, WantInv
<1>v. ~ stale /\ buy[b] # "idle" => t \in There
  BY <1>t, <1>w DEF SaleInv, SoldTypesAreThere, There
<1>c. \A s \in Types : /\ InFlight(s) \in SUBSET Buyers
                       /\ Ticketed(s) \in SUBSET Buyers
                       /\ Cardinality(InFlight(s)) \in Nat
                       /\ Cardinality(Ticketed(s)) \in Nat
                       /\ b \notin InFlight(s) =>
                            Cardinality(InFlight(s) \cup {b}) = Cardinality(InFlight(s)) + 1
                       /\ b \in InFlight(s) =>
                            Cardinality(InFlight(s) \ {b}) = Cardinality(InFlight(s)) - 1
                       /\ b \notin Ticketed(s) =>
                            Cardinality(Ticketed(s) \cup {b}) = Cardinality(Ticketed(s)) + 1
                       /\ b \in Ticketed(s) =>
                            Cardinality(Ticketed(s) \ {b}) = Cardinality(Ticketed(s)) - 1
  <2> SUFFICES ASSUME NEW s \in Types
               PROVE  InFlight(s) \in SUBSET Buyers /\ Ticketed(s) \in SUBSET Buyers
    BY Counts
  <2>1. QED
    BY DEF InFlight, Ticketed
<1>n. \A s \in Types : stock[s] \in Nat /\ redisStock[s] \in Nat
  BY <1>t DEF TypeOK
<1>d. \A s \in Types : Cardinality(InFlight(s)) \in Nat /\ Cardinality(Ticketed(s)) \in Nat
  BY <1>c
<1>e. \A s \in Types : Cardinality(InFlight(s)') \in Nat
  <2>1. \A s \in Types : InFlight(s)' \in SUBSET Buyers
    BY DEF InFlight
  <2>2. QED
    BY <2>1, Counts
<1>b. ASSUME ~ stale => \A s \in Types : stock'[s] + Cardinality(Ticketed(s)')
                              = stock[s] + Cardinality(Ticketed(s)),
             ~ stale => \A s \in Types : stock'[s] - redisStock'[s] - Cardinality(InFlight(s)')
                              = stock[s] - redisStock[s] - Cardinality(InFlight(s))
      PROVE  BookInv'
  <2>1. StockIsAsConfigured'
    BY <1>b, <1>u DEF BookInv, StockIsAsConfigured, There
  <2>2. RedisMatchesDatabase'
    <3> SUFFICES ASSUME ~ stale, NEW s \in opened \ disturbed
                 PROVE  redisStock'[s] + Cardinality(InFlight(s)') = stock'[s]
      BY <1>u DEF RedisMatchesDatabase
    <3>1. s \in Types /\ stock[s] \in Nat /\ redisStock[s] \in Nat
          /\ stock'[s] \in Nat /\ redisStock'[s] \in Nat
      BY <1>t DEF TypeOK
    <3>2. redisStock[s] + Cardinality(InFlight(s)) = stock[s]
      BY DEF BookInv, RedisMatchesDatabase
    <3>3. /\ Cardinality(InFlight(s)) \in Nat
          /\ Cardinality(InFlight(s)') \in Nat
          /\ stock'[s] - redisStock'[s] - Cardinality(InFlight(s)')
               = stock[s] - redisStock[s] - Cardinality(InFlight(s))
      BY <1>b, <1>d, <1>e, <3>1
    <3>4. QED
      BY <3>1, <3>2, <3>3
  <2>3. QED
    BY <1>t, <2>1, <2>2 DEF BookInv
<1>1. ASSUME NEW u \in Types, CheckSale(b, u) PROVE BookInv'
  <2>1. \A s \in Types : InFlight(s)' = InFlight(s) /\ Ticketed(s)' = Ticketed(s)
    BY <1>1, <1>t DEF CheckSale, InFlight, Ticketed, TypeOK
  <2>2. UNCHANGED <<stock, redisStock>>
    BY <1>1 DEF CheckSale, eventVars, redisVars
  <2>3. QED
    BY <1>b, <1>c, <2>1, <2>2
<1>2. CASE Reserve(b)
  <2>1. t \in Types /\ UNCHANGED stock
    BY <1>2, <1>w DEF Reserve, eventVars
  <2>2. CASE SeckillAnswer(b, t)
    <3>1. \A s \in Types : /\ InFlight(s)' = IF s = t THEN InFlight(s) \cup {b} ELSE InFlight(s)
                           /\ b \notin InFlight(s)
                           /\ Ticketed(s)' = Ticketed(s)
      BY <1>2, <1>t, <2>2 DEF Reserve, Stand, InFlight, Ticketed, TypeOK
    <3>2. redisStock' = [redisStock EXCEPT ![t] = @ - 1]
      BY <1>2, <2>2 DEF Reserve
    <3>3. \A s \in Types : redisStock'[s] = IF s = t THEN redisStock[s] - 1 ELSE redisStock[s]
      BY <1>t, <3>2 DEF TypeOK
    <3>4. \A s \in Types : Cardinality(InFlight(s)')
              = IF s = t THEN Cardinality(InFlight(s)) + 1 ELSE Cardinality(InFlight(s))
      BY <1>c, <3>1
    <3>5. \A s \in Types : stock'[s] + Cardinality(Ticketed(s)') = stock[s] + Cardinality(Ticketed(s))
      BY <2>1, <3>1
    <3>6. \A s \in Types : stock'[s] - redisStock'[s] - Cardinality(InFlight(s)')
                              = stock[s] - redisStock[s] - Cardinality(InFlight(s))
      BY <1>d, <1>n, <2>1, <3>3, <3>4
    <3>7. QED
      BY <1>b, <3>5, <3>6
  <2>3. CASE ~ SeckillAnswer(b, t)
    <3>1. \A s \in Types : InFlight(s)' = InFlight(s) /\ Ticketed(s)' = Ticketed(s)
      BY <1>2, <1>t, <2>3 DEF Reserve, Stand, InFlight, Ticketed, TypeOK
    <3>2. UNCHANGED redisStock
      BY <1>2, <2>3 DEF Reserve
    <3>3. QED
      BY <1>b, <1>c, <2>1, <3>1, <3>2
  <2>4. QED
    BY <2>2, <2>3
<1>3. CASE HandleMessage(b)
  <2>1. t \in Types /\ UNCHANGED redisStock /\ buy[b] = "queued"
    BY <1>3, <1>w DEF HandleMessage, redisVars
  <2>2. CASE t \in There /\ stock[t] > 0
    <3>1. \A s \in Types : /\ InFlight(s)' = IF s = t THEN InFlight(s) \ {b} ELSE InFlight(s)
                           /\ Ticketed(s)' = IF s = t THEN Ticketed(s) \cup {b} ELSE Ticketed(s)
                           /\ s = t => b \in InFlight(s)
                           /\ b \notin Ticketed(s)
      BY <1>3, <1>t, <2>1, <2>2 DEF HandleMessage, Stand, InFlight, Ticketed, TypeOK
    <3>2. stock' = [stock EXCEPT ![t] = @ - 1]
      BY <1>3, <2>2 DEF HandleMessage
    <3>3. \A s \in Types : stock'[s] = IF s = t THEN stock[s] - 1 ELSE stock[s]
      BY <1>t, <3>2 DEF TypeOK
    <3>4. \A s \in Types :
            /\ Cardinality(InFlight(s)')
                 = IF s = t THEN Cardinality(InFlight(s)) - 1 ELSE Cardinality(InFlight(s))
            /\ Cardinality(Ticketed(s)')
                 = IF s = t THEN Cardinality(Ticketed(s)) + 1 ELSE Cardinality(Ticketed(s))
      BY <1>c, <3>1
    <3>5. \A s \in Types : stock'[s] + Cardinality(Ticketed(s)') = stock[s] + Cardinality(Ticketed(s))
      BY <1>d, <1>n, <3>3, <3>4
    <3>6. \A s \in Types : stock'[s] - redisStock'[s] - Cardinality(InFlight(s)')
                              = stock[s] - redisStock[s] - Cardinality(InFlight(s))
      BY <1>d, <1>n, <2>1, <3>3, <3>4
    <3>7. QED
      BY <1>b, <3>5, <3>6
  <2>3. CASE t \in There /\ ~ (stock[t] > 0)
    <3>1. \A s \in Types : InFlight(s)' = InFlight(s) /\ Ticketed(s)' = Ticketed(s)
      BY <1>3, <1>t, <2>1, <2>3 DEF HandleMessage, Stand, InFlight, Ticketed, TypeOK
    <3>2. UNCHANGED stock
      BY <1>3, <2>3 DEF HandleMessage
    <3>3. QED
      BY <1>b, <1>c, <2>1, <3>1, <3>2
  <2>4. CASE t \notin There
    <3>1. stale
      BY <1>v, <2>1, <2>4
    <3>2. QED
      BY <1>b, <3>1
  <2>5. QED
    BY <2>2, <2>3, <2>4
<1>4. CASE ReturnTicket(b)
  <2>1. t \in Types /\ UNCHANGED redisStock /\ buy[b] = "ticket"
    BY <1>4, <1>w DEF ReturnTicket, redisVars
  <2>2. \A s \in Types : /\ InFlight(s)' = IF s = t THEN InFlight(s) \cup {b} ELSE InFlight(s)
                         /\ Ticketed(s)' = IF s = t THEN Ticketed(s) \ {b} ELSE Ticketed(s)
                         /\ s = t => b \in Ticketed(s)
                         /\ b \notin InFlight(s)
    BY <1>4, <1>t, <2>1 DEF ReturnTicket, Stand, InFlight, Ticketed, TypeOK
  <2>3. ~ stale => \A s \in Types : stock'[s] = IF s = t THEN stock[s] + 1 ELSE stock[s]
    BY <1>4, <1>t, <1>v DEF ReturnTicket, TypeOK
  <2>4. \A s \in Types :
          /\ Cardinality(InFlight(s)')
               = IF s = t THEN Cardinality(InFlight(s)) + 1 ELSE Cardinality(InFlight(s))
          /\ Cardinality(Ticketed(s)')
               = IF s = t THEN Cardinality(Ticketed(s)) - 1 ELSE Cardinality(Ticketed(s))
    BY <1>c, <2>2
  <2>5. ~ stale => \A s \in Types : stock'[s] + Cardinality(Ticketed(s)')
                                   = stock[s] + Cardinality(Ticketed(s))
    BY <1>d, <1>n, <2>3, <2>4
  <2>6. ~ stale => \A s \in Types : stock'[s] - redisStock'[s] - Cardinality(InFlight(s)')
                                   = stock[s] - redisStock[s] - Cardinality(InFlight(s))
    BY <1>d, <1>n, <2>1, <2>3, <2>4
  <2>7. QED
    BY <1>b, <2>5, <2>6
<1>5. CASE SeckillRollback(b)
  <2>1. t \in Types /\ UNCHANGED stock /\ buy[b] = "returned"
    BY <1>5, <1>w DEF SeckillRollback, eventVars
  <2>2. \A s \in Types : /\ InFlight(s)' = IF s = t THEN InFlight(s) \ {b} ELSE InFlight(s)
                         /\ s = t => b \in InFlight(s)
                         /\ Ticketed(s)' = Ticketed(s)
    BY <1>5, <1>t, <2>1 DEF SeckillRollback, Stand, InFlight, Ticketed, TypeOK
  <2>3. \A s \in Types : redisStock'[s] = IF s = t THEN redisStock[s] + 1 ELSE redisStock[s]
    BY <1>5, <1>t DEF SeckillRollback, TypeOK
  <2>4. \A s \in Types :
          /\ Cardinality(InFlight(s)')
               = IF s = t THEN Cardinality(InFlight(s)) - 1 ELSE Cardinality(InFlight(s))
    BY <1>c, <2>2
  <2>5. \A s \in Types : stock'[s] + Cardinality(Ticketed(s)') = stock[s] + Cardinality(Ticketed(s))
    BY <2>1, <2>2
  <2>6. \A s \in Types : stock'[s] - redisStock'[s] - Cardinality(InFlight(s)')
                              = stock[s] - redisStock[s] - Cardinality(InFlight(s))
    BY <1>d, <1>n, <2>1, <2>3, <2>4
  <2>7. QED
    BY <1>b, <2>5, <2>6
<1>6. QED
  BY <1>1, <1>2, <1>3, <1>4, <1>5 DEF Purchase

LEMMA BookNext == BookInv /\ [Next]_vars => BookInv'
<1>1. BookInv /\ UNCHANGED vars => BookInv'
  <2> SUFFICES ASSUME BookInv, UNCHANGED vars PROVE BookInv'
    OBVIOUS
  <2>1. SaleInv'
    BY SaleNext DEF BookInv
  <2>2. There' = There /\ \A t : InFlight(t)' = InFlight(t) /\ Ticketed(t)' = Ticketed(t)
    BY DEF vars, There, InFlight, Ticketed
  <2>3. QED
    BY <2>1, <2>2 DEF BookInv, StockIsAsConfigured, RedisMatchesDatabase, vars
<1>2. QED
  BY <1>1, BookOrganize, BookPurchase DEF Next

LEMMA BookSafe == Spec => []BookInv
  BY BookInit, BookNext, PTL DEF Spec

\* As long as no write was stale, what is left of a type and the tickets sold of
\* it make up the stock the organizers gave it.
THEOREM StockAsConfigured == Spec => []StockIsAsConfigured
<1>1. BookInv => StockIsAsConfigured
  BY DEF BookInv
<1>2. QED
  BY BookSafe, <1>1, PTL

\* As long as no write was stale, the stock in Redis of a type that was last
\* published while no purchase of it was in flight follows the database.
THEOREM RedisInStep == Spec => []RedisMatchesDatabase
<1>1. BookInv => RedisMatchesDatabase
  BY DEF BookInv
<1>2. QED
  BY BookSafe, <1>1, PTL

-----------------------------------------------------------------------------
(* A published event sells all its types.                                  *)

\* Session a has still to set the field of type t.
Opens(a, t) == step[a] = "init" /\ t \in job[a].todo

\* Unless a write was stale or a publication stopped half way, every type of an
\* event that is no draft has its field, or some publication will set it.
OpenInv ==
    ~ stale /\ ~ failed /\ status # "draft"
        => \A t \in There : t \in opened \/ \E a \in Admins : Opens(a, t)

\* The other sessions go on with what they were about.
LEMMA OthersOpen ==
    ASSUME TypeOK, NEW a \in Admins, NEW s, NEW j, Go(a, s, j),
           NEW d \in Admins, d # a, NEW t, Opens(d, t)
    PROVE  Opens(d, t)'
BY DEF TypeOK, Go, Opens

\* A session that is not setting fields turns to something else.
LEMMA OpenKeeps ==
    ASSUME TypeOK, OpenInv, NEW a \in Admins, NEW s, NEW j, Go(a, s, j), step[a] # "init",
           UNCHANGED <<status, row, opened, stale, failed>>
    PROVE  OpenInv'
<1> SUFFICES ASSUME ~ stale', ~ failed', status' # "draft", NEW t \in There', t \notin opened'
             PROVE  \E d \in Admins : Opens(d, t)'
  BY DEF OpenInv
<1>1. ~ stale /\ ~ failed /\ status # "draft" /\ t \in There /\ t \notin opened
  BY DEF TypeOK, There
<1>2. PICK d \in Admins : Opens(d, t)
  BY <1>1 DEF OpenInv
<1>3. d # a
  BY <1>2 DEF Opens
<1>4. QED
  BY <1>2, <1>3, OthersOpen

LEMMA OpenOrganize ==
    ASSUME TypeOK, OpenInv, NEW a \in Admins, Organize(a) PROVE OpenInv'
<1>1. ASSUME NEW what, BeginEdit(a, what) PROVE OpenInv'
  <2>1. PICK s, j : Go(a, s, j)
    BY <1>1 DEF BeginEdit
  <2>2. QED
    BY <1>1, <2>1, OpenKeeps DEF BeginEdit, eventVars, redisVars
<1>2. CASE SaveEvent(a)
  BY <1>2 DEF SaveEvent, OpenInv
<1>3. CASE DeleteType(a) \/ \E t \in Types, n \in Stocks : SaveType(a, t, n)
  <2>1. status' = status /\ (~ stale' => status = "draft")
    BY <1>3 DEF DeleteType, SaveType, Relied, MayEdit
  <2>2. QED
    BY <2>1 DEF OpenInv
<1>4. ASSUME NEW to, BeginMove(a, to) PROVE OpenInv'
  <2>1. PICK s, j : Go(a, s, j)
    BY <1>4 DEF BeginMove
  <2>2. QED
    BY <1>4, <2>1, OpenKeeps DEF BeginMove, eventVars, redisVars
<1>5. CASE ReadTypes(a)
  <2>1. PICK s, j : Go(a, s, j)
    BY <1>5 DEF ReadTypes, Answer
  <2>2. QED
    BY <1>5, <2>1, OpenKeeps DEF ReadTypes, eventVars, redisVars
<1>6. CASE UpdateStatus(a)
  <2> SUFFICES ASSUME ~ stale', ~ failed', status' # "draft", NEW t \in There', t \notin opened'
               PROVE  \E d \in Admins : Opens(d, t)'
    BY DEF OpenInv
  <2>1. ~ stale /\ ~ failed /\ t \in There /\ t \notin opened
    BY <1>6 DEF UpdateStatus, Relied, redisVars, There
  <2>2. CASE status = "draft"
    <3>1. IsValidEventTransition(status, job[a].to) /\ job[a].todo = There
      BY <1>6, <2>2 DEF UpdateStatus, Relied
    <3>2. job[a].to = "on_sale"
      BY <2>2, <3>1 DEF IsValidEventTransition, eventAllowedTransitions
    <3>3. Go(a, "init", job[a])
      BY <1>6, <3>2 DEF UpdateStatus
    <3>4. step'[a] = "init" /\ job'[a] = job[a]
      BY <3>3 DEF Go, TypeOK
    <3>5. Opens(a, t)'
      BY <2>1, <3>1, <3>4 DEF Opens
    <3>6. QED
      BY <3>5
  <2>3. CASE status # "draft"
    <3>1. PICK d \in Admins : Opens(d, t)
      BY <2>1, <2>3 DEF OpenInv
    <3>2. d # a
      BY <1>6, <3>1 DEF Opens, UpdateStatus
    <3>3. PICK s, j : Go(a, s, j)
      BY <1>6 DEF UpdateStatus, Answer
    <3>4. QED
      BY <3>1, <3>2, <3>3, OthersOpen
  <2>4. QED
    BY <2>2, <2>3
<1>7. CASE InitType(a)
  <2> SUFFICES ASSUME ~ stale', ~ failed', status' # "draft", NEW t \in There', t \notin opened'
               PROVE  \E d \in Admins : Opens(d, t)'
    BY DEF OpenInv
  <2>1. ~ stale /\ ~ failed /\ status # "draft" /\ t \in There
    BY <1>7 DEF InitType, eventVars, There
  <2>2. PICK u \in job[a].todo :
           /\ opened' = opened \cup {u}
           /\ IF job[a].todo = {u} THEN Answer(a)
              ELSE Go(a, "init", [job[a] EXCEPT !.todo = @ \ {u}, !.seen = [@ EXCEPT ![u] = 0]])
    BY <1>7 DEF InitType
  <2>3. t # u /\ t \notin opened
    BY <2>2
  <2>4. PICK d \in Admins : Opens(d, t)
    BY <2>1, <2>3 DEF OpenInv
  <2>5. CASE d # a
    <3>1. PICK s, j : Go(a, s, j)
      BY <2>2 DEF Answer
    <3>2. QED
      BY <2>4, <2>5, <3>1, OthersOpen
  <2>6. CASE d = a
    <3>1. t \in job[a].todo /\ job[a].todo # {u}
      BY <2>3, <2>4, <2>6 DEF Opens
    <3>2. job[a] \in Job
      BY DEF TypeOK
    <3>3. /\ step'[a] = "init"
          /\ job'[a] = [job[a] EXCEPT !.todo = @ \ {u}, !.seen = [@ EXCEPT ![u] = 0]]
      BY <2>2, <3>1 DEF Go, TypeOK
    <3>4. job'[a].todo = job[a].todo \ {u}
      BY <3>2, <3>3 DEF Job
    <3>5. Opens(a, t)'
      BY <2>3, <3>1, <3>3, <3>4 DEF Opens
    <3>6. QED
      BY <3>5
  <2>7. QED
    BY <2>5, <2>6
<1>8. CASE Fail(a)
  <2>1. CASE step[a] = "init"
    BY <1>8, <2>1 DEF Fail, OpenInv
  <2>2. CASE step[a] # "init"
    <3>1. Go(a, "idle", NoJob) /\ UNCHANGED <<status, row, opened, stale, failed>>
      BY <1>8, <2>2 DEF Fail, Answer, eventVars, redisVars, TypeOK
    <3>2. QED
      BY <2>2, <3>1, OpenKeeps
  <2>3. QED
    BY <2>1, <2>2
<1>9. QED
  BY <1>1, <1>2, <1>3, <1>4, <1>5, <1>6, <1>7, <1>8 DEF Organize

\* Purchases change nothing of this.
LEMMA OpenNext == TypeOK /\ OpenInv /\ [Next]_vars => OpenInv'
<1> SUFFICES ASSUME TypeOK, OpenInv, [Next]_vars PROVE OpenInv'
  OBVIOUS
<1>1. CASE (\E b \in Buyers : Purchase(b)) \/ UNCHANGED vars
  <2>1. UNCHANGED <<status, row, opened, step, job, stale, failed>>
    <3>1. ASSUME NEW b \in Buyers, Purchase(b)
          PROVE  UNCHANGED <<status, row, opened, step, job, stale, failed>>
      BY <3>1 DEF Purchase, CheckSale, Reserve, HandleMessage, ReturnTicket, SeckillRollback,
         eventVars, redisVars, workVars
    <3>2. QED
      BY <1>1, <3>1 DEF vars
  <2>2. QED
    BY <2>1 DEF OpenInv, Opens, There
<1>2. QED
  BY <1>1, OpenOrganize DEF Next

\* For any number of types and of sessions that publish, interrupt and resume
\* the sale: once no publication is writing, all types are sold, unless a write
\* was stale or a publication stopped half way.
THEOREM AllTypesOpen == Spec => []OnSaleIsOpen
<1>1. Init => OpenInv
  BY DEF Init, OpenInv
<1>2. TypeOK /\ OpenInv /\ [Next]_vars => TypeOK' /\ OpenInv'
  BY TypeNext, OpenNext
<1>3. OpenInv => OnSaleIsOpen
  BY DEF OpenInv, Opens, OnSaleIsOpen
<1>4. QED
  BY <1>1, <1>2, <1>3, TypeInit, PTL DEF Spec

=============================================================================
