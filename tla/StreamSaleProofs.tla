-------------------------- MODULE StreamSaleProofs --------------------------
(***************************************************************************)
(* Proofs about StreamSale for every number of users, types, requests and  *)
(* consumers, every stock, every size of the batches and every bound on    *)
(* the failures, of all kinds.                                             *)
(***************************************************************************)
EXTENDS StreamSale, FiniteSetTheorems, SequenceTheorems, TLAPS

USE RequestAssumption, StockAssumption, BoundAssumption

-----------------------------------------------------------------------------
(* Types.                                                                  *)

LEMMA StockTypes == InitialStock \in [TicketTypes -> Int]
<1>1. \A t \in TicketTypes : InitialStock[t] \in Nat
  OBVIOUS
<1>2. \A t \in TicketTypes : InitialStock[t] \in Int
  BY <1>1
<1>3. QED
  BY <1>2

LEMMA TypeInit == Init => TypeOK
<1> SUFFICES ASSUME Init PROVE TypeOK
  OBVIOUS
<1>1. ApiTypes
  BY StockTypes DEF Init, ApiTypes, CallStates
<1>2. StreamTypes
  <2>0. stream = << >> /\ group = FALSE
    BY DEF Init
  <2>1. stream \in Seq(Requests) /\ Len(stream) = 0 /\ group \in BOOLEAN
    BY <2>0, EmptySeq
  <2>2. delivered = 0 /\ pending = {} /\ \A c \in Consumers : pc[c] = "start"
    BY DEF Init
  <2>3. pc \in [Consumers -> ConsumerSteps]
    BY DEF Init, ConsumerSteps
  <2>4. at \in [Consumers -> Nat] /\ upto \in [Consumers -> 0 .. 0]
    BY DEF Init
  <2>5. QED
    BY <2>1, <2>2, <2>3, <2>4 DEF StreamTypes
<1>3. WorkTypes
  <2>1. top \in [Consumers -> Int] /\ faults \in Nat /\ tickets \in SUBSET Ticket
    BY DEF Init
  <2>2. key \in [Requests -> BOOLEAN]
    BY DEF Init
  <2>3. outcome \in [Requests -> SUBSET Outcomes]
    BY DEF Init
  <2>4. dbStock \in [TicketTypes -> Int]
    BY StockTypes DEF Init
  <2>5. QED
    BY <2>1, <2>2, <2>3, <2>4 DEF WorkTypes
<1>4. QED
  BY <1>1, <1>2, <1>3 DEF TypeOK

\* The place of the consumers in the stream, and what they do, does not change
\* by itself.
LEMMA SamePlaces ==
    ASSUME StreamTypes, UNCHANGED <<stream, group, delivered, pending, pc, at, upto>>
    PROVE  StreamTypes'
BY DEF StreamTypes

LEMMA SameWork ==
    ASSUME WorkTypes, UNCHANGED <<top, key, dbStock, tickets, outcome>>, faults' \in Nat
    PROVE  WorkTypes'
BY DEF WorkTypes

\* A consumer in the middle of its batch is at an entry of the stream.
LEMMA CurType ==
    ASSUME TypeOK, NEW c \in Consumers, pc[c] \notin {"start", "read"}
    PROVE  /\ at[c] \in 1 .. Len(stream)
           /\ Cur(c) \in Requests
           /\ TypeOf[Cur(c)] \in TicketTypes /\ UserOf[Cur(c)] \in Users
           /\ QuantityOf[Cur(c)] \in Nat
<1>1. at[c] \in 1 .. Len(stream)
  BY DEF TypeOK, StreamTypes
<1>2. Cur(c) \in Requests
  BY <1>1 DEF TypeOK, StreamTypes, Cur
<1>3. QED
  BY <1>1, <1>2

\* The entries a consumer may be at stay in the stream when one is added.
LEMMA AppendKeeps ==
    ASSUME NEW s \in Seq(Requests), NEW r \in Requests
    PROVE  /\ Append(s, r) \in Seq(Requests)
           /\ Len(Append(s, r)) = Len(s) + 1
           /\ \A i \in 1 .. Len(s) : Append(s, r)[i] = s[i]
           /\ Append(s, r)[Len(s) + 1] = r
OBVIOUS

\* What PurchaseTicket does to the stream: up to two new entries of its own.
LEMMA PublishedStream ==
    ASSUME TypeOK, NEW r \in Requests,
           \/ stream' = Append(stream, r)
           \/ stream' = Append(Append(stream, r), r)
           \/ stream' = stream
    PROVE  /\ stream' \in Seq(Requests)
           /\ Len(stream') >= Len(stream)
           /\ \A i \in 1 .. Len(stream) : stream'[i] = stream[i]
           /\ \A i \in 1 .. Len(stream') : i > Len(stream) => stream'[i] = r
<1>0. stream \in Seq(Requests) /\ Len(stream) \in Nat
  BY DEF TypeOK, StreamTypes
<1>1. CASE stream' = stream
  BY <1>0, <1>1
<1>2. CASE stream' = Append(stream, r)
  <2>1. \A i \in 1 .. Len(stream) + 1 : i > Len(stream) => i = Len(stream) + 1
    BY <1>0
  <2>2. QED
    BY <1>0, <1>2, <2>1, AppendKeeps
<1>3. CASE stream' = Append(Append(stream, r), r)
  <2> DEFINE s == Append(stream, r)
  <2>1. /\ s \in Seq(Requests) /\ Len(s) = Len(stream) + 1
        /\ \A i \in 1 .. Len(stream) : s[i] = stream[i]
        /\ s[Len(stream) + 1] = r
    BY <1>0, AppendKeeps
  <2>a. stream' = Append(s, r)
    BY <1>3
  <2> HIDE DEF s
  <2>2. /\ stream' \in Seq(Requests) /\ Len(stream') = Len(s) + 1
        /\ \A i \in 1 .. Len(s) : stream'[i] = s[i]
        /\ stream'[Len(s) + 1] = r
    BY <2>a, <2>1, AppendKeeps
  <2>3. \A i \in 1 .. Len(stream') : i > Len(stream)
            => i = Len(s) + 1 \/ i = Len(stream) + 1
    <3>1. \A n \in Nat : \A i \in 1 .. n + 2 : i > n => i = n + 1 + 1 \/ i = n + 1
      OBVIOUS
    <3>2. Len(stream') = Len(stream) + 2
      BY <1>0, <2>1, <2>2
    <3>3. Len(s) + 1 = Len(stream) + 1 + 1
      BY <1>0, <2>1
    <3>4. QED
      BY <1>0, <3>1, <3>2, <3>3
  <2>4. \A i \in 1 .. Len(stream) : i \in 1 .. Len(s)
    BY <1>0, <2>1
  <2>5. Len(stream) + 1 \in 1 .. Len(s)
    BY <1>0, <2>1
  <2>6. \A i \in 1 .. Len(stream) : stream'[i] = stream[i]
    BY <2>1, <2>2, <2>4
  <2>7. \A i \in 1 .. Len(stream') : i > Len(stream) => stream'[i] = r
    BY <2>1, <2>2, <2>3, <2>5
  <2>8. QED
    BY <1>0, <2>1, <2>2, <2>6, <2>7
<1>4. QED
  BY <1>1, <1>2, <1>3

\* A step counts at most one failure.
LEMMA FaultTypes ==
    ASSUME TypeOK, NoFault \/ (\E k \in FaultKinds : Fault(k))
    PROVE  faults' \in Nat
BY DEF TypeOK, WorkTypes, NoFault, Fault

\* The API's handling of a request keeps the types.
LEMMA ApiKeepsTypes ==
    ASSUME TypeOK, NEW r \in Requests, Api(r) PROVE TypeOK'
<1>0. ApiTypes /\ StreamTypes /\ WorkTypes
  BY DEF TypeOK
<1>1. CASE PurchaseTicket(r)
  <2>1. ApiTypes'
    <3>1. call' \in [Requests -> CallStates]
      BY <1>0, <1>1 DEF PurchaseTicket, ApiTypes, CallStates
    <3>2. UNCHANGED redisVars \/ Take(r)
      BY <1>1 DEF PurchaseTicket
    <3>3. QED
      BY <1>0, <3>1, <3>2 DEF Take, ApiTypes, redisVars
  <2>2. UNCHANGED <<streamVars, consumerVars, key, dbVars, outcome>>
    BY <1>1 DEF PurchaseTicket
  <2>3. faults' \in Nat
    BY <1>1, FaultTypes DEF PurchaseTicket, FaultKinds
  <2>4. QED
    BY <1>0, <2>1, <2>2, <2>3, SamePlaces, SameWork DEF TypeOK, streamVars, consumerVars, dbVars
<1>2. CASE PublishTicket(r) \/ PublishFails(r)
  <2>1. ApiTypes'
    BY <1>0, <1>2 DEF PublishTicket, PublishFails, ApiTypes, CallStates, redisVars
  <2>2. stream' \in Seq(Requests) /\ Len(stream') >= Len(stream) /\ Len(stream') \in Nat
    BY <1>2, PublishedStream DEF PublishTicket, PublishFails
  <2>3. UNCHANGED <<group, delivered, pending, consumerVars, key, dbVars, outcome>>
    BY <1>2 DEF PublishTicket, PublishFails
  <2>4. Len(stream) \in Nat
    BY <1>0 DEF StreamTypes
  <2>5. delivered' \in 0 .. Len(stream')
    BY <1>0, <2>2, <2>3, <2>4 DEF StreamTypes
  <2>6. StreamTypes'
    BY <1>0, <2>2, <2>3, <2>5 DEF StreamTypes, consumerVars
  <2>7. faults' \in Nat
    BY <1>2, FaultTypes DEF PublishTicket, PublishFails, FaultKinds
  <2>8. QED
    BY <1>0, <2>1, <2>3, <2>6, <2>7, SameWork DEF TypeOK, consumerVars, dbVars
<1>3. CASE RollbackReservation(r)
  <2>1. ApiTypes'
    BY <1>0, <1>3 DEF RollbackReservation, ApiTypes, CallStates, redisVars
  <2>2. UNCHANGED <<streamVars, consumerVars, key, dbVars, outcome>>
    BY <1>3 DEF RollbackReservation
  <2>3. faults' \in Nat
    BY <1>3, FaultTypes DEF RollbackReservation, FaultKinds
  <2>4. QED
    BY <1>0, <2>1, <2>2, <2>3, SamePlaces, SameWork DEF TypeOK, streamVars, consumerVars, dbVars
<1>4. CASE ApiCrash(r)
  <2>1. ApiTypes'
    BY <1>0, <1>4 DEF ApiCrash, ApiTypes, CallStates, redisVars
  <2>2. UNCHANGED <<streamVars, consumerVars, key, dbVars, outcome>>
    BY <1>4 DEF ApiCrash
  <2>3. faults' \in Nat
    BY <1>4, FaultTypes DEF ApiCrash, FaultKinds
  <2>4. QED
    BY <1>0, <2>1, <2>2, <2>3, SamePlaces, SameWork DEF TypeOK, streamVars, consumerVars, dbVars
<1>5. QED
  BY <1>1, <1>2, <1>3, <1>4 DEF Api

\* A consumer that goes on, or returns from processTicket, keeps its place.
LEMMA GoOnTypes ==
    ASSUME StreamTypes, NEW c \in Consumers, NEW next \in ConsumerSteps,
           next = "read" \/ pc[c] \notin {"start", "read"},
           pc' = [pc EXCEPT ![c] = next],
           UNCHANGED <<stream, delivered, pending, at, upto>>, group' \in BOOLEAN
    PROVE  StreamTypes'
<1>1. pc' \in [Consumers -> ConsumerSteps]
  BY DEF StreamTypes
<1>2. \A d \in Consumers : pc'[d] \notin {"start", "read"} => at[d] \in 1 .. upto[d]
  BY DEF StreamTypes
<1>3. QED
  BY <1>1, <1>2 DEF StreamTypes

\* The result of processTicket is one of the outcomes.
LEMMA ReturnTypes ==
    ASSUME WorkTypes, NEW c \in Consumers, NEW res \in Outcomes, Return(c, res)
    PROVE  outcome' \in [Requests -> SUBSET Outcomes]
<1>1. \A r \in Requests : outcome[r] \cup {res} \in SUBSET Outcomes
  BY DEF WorkTypes
<1>2. QED
  BY <1>1 DEF WorkTypes, Return

\* A consumer at the end of its batch.
LEMMA EndBatchTypes ==
    ASSUME StreamTypes, NEW c \in Consumers, NEW next \in {"start", "read"},
           EndBatch(c, next), UNCHANGED <<stream, group, delivered>>,
           pending' \in SUBSET pending
    PROVE  StreamTypes'
<1>0. delivered \in Nat
  BY DEF StreamTypes
<1>1. pc' \in [Consumers -> ConsumerSteps]
  BY DEF StreamTypes, EndBatch, ConsumerSteps
<1>2. at' \in [Consumers -> Nat] /\ upto' \in [Consumers -> 0 .. delivered]
  BY <1>0 DEF StreamTypes, EndBatch
<1>3. \A d \in Consumers : pc'[d] \notin {"start", "read"} => at'[d] \in 1 .. upto'[d]
  BY DEF StreamTypes, EndBatch
<1>4. QED
  BY <1>1, <1>2, <1>3 DEF StreamTypes

\* The consume loop keeps the types.
LEMMA ReadTypes ==
    ASSUME TypeOK, NEW c \in Consumers, Read(c) PROVE TypeOK'
<1>0. ApiTypes /\ StreamTypes /\ WorkTypes
  BY DEF TypeOK
<1> DEFINE last == IF delivered + BatchSize < Len(stream)
                   THEN delivered + BatchSize ELSE Len(stream)
<1>1. /\ delivered \in Nat /\ Len(stream) \in Nat /\ delivered < Len(stream)
      /\ last \in delivered + 1 .. Len(stream) /\ delivered' = last
      /\ pending' = pending \cup (delivered + 1 .. last)
  <2>1. delivered \in Nat /\ Len(stream) \in Nat
    BY <1>0 DEF StreamTypes
  <2>2. delivered < Len(stream) /\ delivered' = last
        /\ pending' = pending \cup (delivered + 1 .. last)
    BY DEF Read
  <2>3. \A l \in Nat, n \in Nat, b \in Nat \ {0} : n < l =>
            (IF n + b < l THEN n + b ELSE l) \in n + 1 .. l
    OBVIOUS
  <2>4. QED
    BY <2>1, <2>2, <2>3
<1>2. UNCHANGED <<call, redisVars, stream, group, top, key, dbVars>>
  BY DEF Read
<1>3. CASE /\ at' = [at EXCEPT ![c] = delivered + 1]
           /\ upto' = [upto EXCEPT ![c] = last]
           /\ pc' = [pc EXCEPT ![c] = "setnx"]
           /\ NoFault /\ UNCHANGED outcome
  <2> HIDE DEF last
  <2>1. at' \in [Consumers -> Nat]
    BY <1>0, <1>1, <1>3 DEF StreamTypes
  <2>2. upto' \in [Consumers -> 0 .. last]
    BY <1>0, <1>1, <1>3 DEF StreamTypes
  <2>3. pc' \in [Consumers -> ConsumerSteps]
    BY <1>0, <1>3 DEF StreamTypes, ConsumerSteps
  <2>4. \A d \in Consumers : pc'[d] \notin {"start", "read"} => at'[d] \in 1 .. upto'[d]
    BY <1>0, <1>1, <1>3 DEF StreamTypes
  <2>5. pending' \in SUBSET (1 .. last)
    BY <1>0, <1>1 DEF StreamTypes
  <2>6. StreamTypes'
    BY <1>0, <1>1, <1>2, <2>1, <2>2, <2>3, <2>4, <2>5 DEF StreamTypes
  <2>7. ApiTypes' /\ WorkTypes'
    BY <1>0, <1>2, <1>3 DEF ApiTypes, WorkTypes, redisVars, dbVars, NoFault
  <2>8. QED
    BY <2>6, <2>7 DEF TypeOK
<1>4. CASE /\ outcome' = [r \in Requests |->
                  IF \E i \in delivered + 1 .. last : stream[i] = r
                  THEN outcome[r] \cup {"lost"} ELSE outcome[r]]
           /\ Fault("redis_lost") /\ UNCHANGED <<pc, at, upto>>
  <2> HIDE DEF last
  <2>1. pending' \in SUBSET (1 .. last) /\ upto \in [Consumers -> 0 .. last]
    BY <1>0, <1>1 DEF StreamTypes
  <2>2. StreamTypes'
    BY <1>0, <1>1, <1>2, <1>4, <2>1 DEF StreamTypes
  <2>3. outcome' \in [Requests -> SUBSET Outcomes]
    <3>1. \A r \in Requests : outcome[r] \cup {"lost"} \in SUBSET Outcomes
                              /\ outcome[r] \in SUBSET Outcomes
      BY <1>0 DEF WorkTypes, Outcomes
    <3>2. QED
      BY <1>4, <3>1
  <2>4. ApiTypes' /\ WorkTypes'
    BY <1>0, <1>2, <1>4, <2>3 DEF ApiTypes, WorkTypes, redisVars, dbVars, Fault
  <2>5. QED
    BY <2>2, <2>4 DEF TypeOK
<1>5. QED
  BY <1>3, <1>4 DEF Read

LEMMA LoopTypes ==
    ASSUME TypeOK, NEW c \in Consumers, Start(c) \/ Ack(c) \/ ConsumerCrash(c)
    PROVE  TypeOK'
<1>0. ApiTypes /\ StreamTypes /\ WorkTypes
  BY DEF TypeOK
<1>1. CASE Start(c)
  <2>0. group' \in BOOLEAN
    BY <1>0, <1>1 DEF Start, StreamTypes
  <2>1. faults' \in Nat
    BY <1>0, <1>1 DEF Start, WorkTypes, NoFault, Fault
  <2>2. StreamTypes'
    BY <1>0, <1>1, <2>0, GoOnTypes DEF Start, ConsumerSteps
  <2>3. ApiTypes' /\ WorkTypes'
    BY <1>0, <1>1, <2>1 DEF Start, ApiTypes, WorkTypes, redisVars, dbVars
  <2>4. QED
    BY <2>2, <2>3 DEF TypeOK
<1>2. CASE Ack(c)
  <2>1. faults' \in Nat /\ pending' \in SUBSET pending
    BY <1>0, <1>2 DEF Ack, WorkTypes, NoFault, Fault
  <2>2. top' \in [Consumers -> Int]
    BY <1>0, <1>2 DEF Ack, WorkTypes
  <2>3. ApiTypes' /\ WorkTypes'
    BY <1>0, <1>2, <2>1, <2>2 DEF Ack, ApiTypes, WorkTypes, redisVars, dbVars
  <2>4. CASE at[c] = upto[c] /\ EndBatch(c, "read")
    BY <1>0, <1>2, <2>1, <2>3, <2>4, EndBatchTypes DEF Ack, TypeOK
  <2>5. CASE at[c] < upto[c] /\ NextEntry(c)
    <3>0. delivered \in Nat /\ upto[c] \in 0 .. delivered /\ at[c] \in Nat
          /\ at \in [Consumers -> Nat] /\ pc \in [Consumers -> ConsumerSteps]
      BY <1>0 DEF StreamTypes
    <3>1. /\ at' = [at EXCEPT ![c] = at[c] + 1] /\ pc' = [pc EXCEPT ![c] = "setnx"]
          /\ upto' = upto
      BY <2>5 DEF NextEntry
    <3>2. at' \in [Consumers -> Nat] /\ pc' \in [Consumers -> ConsumerSteps]
      BY <3>0, <3>1 DEF ConsumerSteps
    <3>3. \A d \in Consumers : pc'[d] \notin {"start", "read"} => at'[d] \in 1 .. upto'[d]
      <4>1. at'[c] \in 1 .. upto'[c]
        BY <2>5, <3>0, <3>1
      <4>2. \A d \in Consumers \ {c} : at'[d] = at[d] /\ pc'[d] = pc[d]
        BY <3>0, <3>1
      <4>3. QED
        BY <1>0, <3>1, <4>1, <4>2 DEF StreamTypes
    <3>4. pending' \in SUBSET (1 .. delivered)
      BY <1>0, <2>1 DEF StreamTypes
    <3>5. StreamTypes'
      BY <1>0, <1>2, <3>1, <3>2, <3>3, <3>4 DEF StreamTypes, Ack
    <3>6. QED
      BY <2>3, <3>5 DEF TypeOK
  <2>6. QED
    BY <1>2, <2>4, <2>5 DEF Ack
<1>3. CASE ConsumerCrash(c)
  <2>1. outcome' \in [Requests -> SUBSET Outcomes]
    <3>1. \A r \in Requests : outcome[r] \cup {"lost"} \in SUBSET Outcomes
                              /\ outcome[r] \in SUBSET Outcomes
      BY <1>0 DEF WorkTypes, Outcomes
    <3>2. QED
      BY <1>3, <3>1 DEF ConsumerCrash
  <2>2. top' \in [Consumers -> Int]
    BY <1>0, <1>3 DEF ConsumerCrash, WorkTypes
  <2>3. ApiTypes' /\ WorkTypes'
    BY <1>0, <1>3, <2>1, <2>2 DEF ConsumerCrash, ApiTypes, WorkTypes, redisVars, dbVars, Fault
  <2>4. StreamTypes'
    BY <1>0, <1>3, EndBatchTypes DEF ConsumerCrash, streamVars
  <2>5. QED
    BY <2>3, <2>4 DEF TypeOK
<1>4. QED
  BY <1>1, <1>2, <1>3

\* processTicket keeps the types.
LEMMA ProcessTypes ==
    ASSUME TypeOK, NEW c \in Consumers, ProcessTicket(c) PROVE TypeOK'
<1>0. ApiTypes /\ StreamTypes /\ WorkTypes
  BY DEF TypeOK
<1>1. /\ pc[c] \notin {"start", "read"} /\ UNCHANGED <<streamVars, at, upto>>
      /\ UNCHANGED call
      /\ UNCHANGED <<redisStock, bought>>
  BY DEF ProcessTicket, Mark, Skip, MarkFails, FindTypeFails, DeductStock, DeductRefused,
         CreateTicket, CreateFails, UndoDeduction, RollbackRedis, Unmark, Return, GoOn,
         redisVars
<1>2. /\ Cur(c) \in Requests
      /\ TypeOf[Cur(c)] \in TicketTypes
      /\ QuantityOf[Cur(c)] \in Nat
  BY <1>1, CurType
<1>3. StreamTypes'
  <2>1. \E next \in ConsumerSteps : pc' = [pc EXCEPT ![c] = next]
    BY DEF ProcessTicket, Mark, Skip, MarkFails, FindTypeFails, DeductStock, DeductRefused,
           CreateTicket, CreateFails, UndoDeduction, RollbackRedis, Unmark, Return, GoOn,
           ConsumerSteps
  <2>2. group' \in BOOLEAN
    BY <1>0, <1>1 DEF StreamTypes, streamVars
  <2>3. QED
    BY <1>0, <1>1, <2>1, <2>2, GoOnTypes DEF streamVars
<1>4. stray' \in [TicketTypes -> Int]
  <2>1. stray' = stray \/ \E n \in Int : stray' = [stray EXCEPT ![TypeOf[Cur(c)]] = n]
    <3>1. stray[TypeOf[Cur(c)]] \in Int
      BY <1>0, <1>2 DEF ApiTypes
    <3>2. QED
      BY <3>1 DEF ProcessTicket, Mark, Skip, MarkFails, FindTypeFails, DeductStock, DeductRefused,
           CreateTicket, CreateFails, UndoDeduction, RollbackRedis, Unmark, redisVars
  <2>2. QED
    BY <1>0, <2>1 DEF ApiTypes
<1>5. faults' \in Nat
  <2>1. NoFault \/ \E k \in FaultKinds : Fault(k)
    BY DEF ProcessTicket, Mark, Skip, MarkFails, FindTypeFails, DeductStock, DeductRefused,
           CreateTicket, CreateFails, UndoDeduction, RollbackRedis, Unmark, FaultKinds
  <2>2. QED
    BY <2>1, FaultTypes
<1>6. outcome' \in [Requests -> SUBSET Outcomes]
  <2>1. outcome' = outcome \/ \E res \in Outcomes : Return(c, res)
    BY DEF ProcessTicket, Mark, Skip, MarkFails, FindTypeFails, DeductStock, DeductRefused,
           CreateTicket, CreateFails, UndoDeduction, RollbackRedis, Unmark, Outcomes
  <2>2. QED
    BY <1>0, <2>1, ReturnTypes DEF WorkTypes
<1>7. key' \in [Requests -> BOOLEAN]
  <2>1. key' = key \/ \E b \in BOOLEAN : key' = [key EXCEPT ![Cur(c)] = b]
    BY DEF ProcessTicket, Mark, Skip, MarkFails, FindTypeFails, DeductStock, DeductRefused,
           CreateTicket, CreateFails, UndoDeduction, RollbackRedis, Unmark, dbVars
  <2>2. QED
    BY <1>0, <2>1 DEF WorkTypes
<1>8. dbStock' \in [TicketTypes -> Int]
  <2>1. dbStock' = dbStock \/ \E n \in Int : dbStock' = [dbStock EXCEPT ![TypeOf[Cur(c)]] = n]
    <3>1. dbStock[TypeOf[Cur(c)]] - QuantityOf[Cur(c)] \in Int
      BY <1>0, <1>2 DEF WorkTypes
    <3>2. QED
      BY <3>1 DEF ProcessTicket, Mark, Skip, MarkFails, FindTypeFails, DeductStock, DeductRefused,
           CreateTicket, CreateFails, UndoDeduction, RollbackRedis, Unmark, dbVars, UpdateStock
  <2>2. QED
    BY <1>0, <2>1 DEF WorkTypes
<1>9. top' \in [Consumers -> Int]
  <2>1. top' = top \/ top' = [top EXCEPT ![c] = dbStock[TypeOf[Cur(c)]]]
    BY DEF ProcessTicket, Mark, Skip, MarkFails, FindTypeFails, DeductStock, DeductRefused,
           CreateTicket, CreateFails, UndoDeduction, RollbackRedis, Unmark, Return
  <2>2. dbStock[TypeOf[Cur(c)]] \in Int
    BY <1>0, <1>2 DEF WorkTypes
  <2>3. QED
    BY <1>0, <2>1, <2>2 DEF WorkTypes
<1>10. tickets' \in SUBSET Ticket
  <2>1. tickets' = tickets \/ \E b \in BOOLEAN :
            tickets' = tickets \cup {[req |-> Cur(c), top |-> top[c], told |-> b]}
    BY DEF ProcessTicket, Mark, Skip, MarkFails, FindTypeFails, DeductStock, DeductRefused,
           CreateTicket, CreateFails, UndoDeduction, RollbackRedis, Unmark, dbVars
  <2>2. top[c] \in Int
    BY <1>0 DEF WorkTypes
  <2>3. \A b \in BOOLEAN : [req |-> Cur(c), top |-> top[c], told |-> b] \in Ticket
    BY <1>2, <2>2 DEF Ticket
  <2>4. QED
    BY <1>0, <2>1, <2>3 DEF WorkTypes
<1>11. ApiTypes'
  BY <1>0, <1>1, <1>4 DEF ApiTypes
<1>12. WorkTypes'
  BY <1>5, <1>6, <1>7, <1>8, <1>9, <1>10 DEF WorkTypes
<1>13. QED
  BY <1>3, <1>11, <1>12 DEF TypeOK

LEMMA TypeNext == TypeOK /\ [Next]_vars => TypeOK'
<1> SUFFICES ASSUME TypeOK, [Next]_vars PROVE TypeOK'
  OBVIOUS
<1>1. CASE UNCHANGED vars
  BY <1>1 DEF vars, TypeOK, ApiTypes, StreamTypes, WorkTypes
<1>2. CASE \E r \in Requests : Api(r)
  BY <1>2, ApiKeepsTypes
<1>3. CASE \E c \in Consumers : Consume(c) \/ ConsumerCrash(c)
  BY <1>3, ReadTypes, LoopTypes, ProcessTypes DEF Consume
<1>4. QED
  BY <1>1, <1>2, <1>3 DEF Next

\* Whatever fails, the consumers are at entries of the stream that were
\* delivered, and every variable keeps its type.
THEOREM StreamTyping == Spec => []TypeOK
BY TypeInit, TypeNext, PTL DEF Spec

-----------------------------------------------------------------------------
(* The key of a request.                                                   *)

\* The steps between SETNX and the ticket or the deletion of the key.
Holding == {"deduct", "create", "undo", "rollback", "unmark"}
Holds(c, r) == pc[c] \in Holding /\ Cur(c) = r

\* One consumer at a time is past SETNX for a request, the key is set while it
\* is, and stays set once the insertion of a ticket was reported.
KeyInv ==
    /\ \A c, d \in Consumers, r \in Requests : Holds(c, r) /\ Holds(d, r) => c = d
    /\ \A c \in Consumers, r \in Requests : Holds(c, r) => key[r]
    /\ \A x \in tickets : x.told => key[x.req] /\ \A c \in Consumers : ~ Holds(c, x.req)
    /\ \A x, y \in tickets : x.told /\ y.told /\ x.req = y.req => x = y

LEMMA KeyInit == Init => KeyInv
BY DEF Init, KeyInv, Holds, Holding

\* A call of the API leaves every consumer at its entry.
LEMMA ApiFrame ==
    ASSUME TypeOK, NEW r \in Requests, Api(r)
    PROVE  /\ UNCHANGED <<pc, at, upto, top, key, dbStock, tickets, outcome>>
           /\ \A c \in Consumers : pc[c] \notin {"start", "read"} => Cur(c)' = Cur(c)
<1>1. UNCHANGED <<pc, at, upto, top, key, dbStock, tickets, outcome>>
  BY DEF Api, PurchaseTicket, PublishTicket, PublishFails, RollbackReservation, ApiCrash,
         consumerVars, dbVars
<1>2. \/ stream' = Append(stream, r)
      \/ stream' = Append(Append(stream, r), r)
      \/ stream' = stream
  BY DEF Api, PurchaseTicket, PublishTicket, PublishFails, RollbackReservation, ApiCrash,
         streamVars
<1>3. \A i \in 1 .. Len(stream) : stream'[i] = stream[i]
  BY <1>2, PublishedStream
<1>4. ASSUME NEW c \in Consumers, pc[c] \notin {"start", "read"}
      PROVE  Cur(c)' = Cur(c)
  BY <1>1, <1>3, <1>4, CurType DEF Cur
<1>5. QED
  BY <1>1, <1>4

\* A step of one consumer leaves the others, and the entries, alone.
LEMMA ConsumerFrame ==
    ASSUME TypeOK, NEW c \in Consumers, Consume(c) \/ ConsumerCrash(c)
    PROVE  /\ UNCHANGED <<stream, call, redisStock, bought>>
           /\ \A d \in Consumers : d # c => UNCHANGED <<pc[d], at[d], Cur(d)>>
<1>1. UNCHANGED <<stream, call, redisStock, bought>>
  BY DEF Consume, Start, Read, Ack, ConsumerCrash, ProcessTicket, Mark, Skip, MarkFails,
         FindTypeFails, DeductStock, DeductRefused, CreateTicket, CreateFails, UndoDeduction,
         RollbackRedis, Unmark, streamVars, redisVars
<1>2. /\ pc' = pc \/ \E v \in ConsumerSteps : pc' = [pc EXCEPT ![c] = v]
      /\ at' = at \/ \E v : at' = [at EXCEPT ![c] = v]
  BY DEF Consume, Start, Read, Ack, ConsumerCrash, ProcessTicket, Mark, Skip, MarkFails,
         FindTypeFails, DeductStock, DeductRefused, CreateTicket, CreateFails, UndoDeduction,
         RollbackRedis, Unmark, Return, GoOn, NextEntry, EndBatch, ConsumerSteps
<1>3. \A d \in Consumers : d # c => UNCHANGED <<pc[d], at[d]>>
  BY <1>2 DEF TypeOK, StreamTypes
<1>4. QED
  BY <1>1, <1>3 DEF Cur

\* The steps that neither create a ticket nor go past SETNX.
LEMMA KeyQuiet ==
    ASSUME TypeOK, KeyInv,
           \A x \in tickets' : x.told => x \in tickets,
           \A r \in Requests : key[r] => key'[r],
           \A c \in Consumers, r \in Requests : Holds(c, r)' => Holds(c, r)
    PROVE  KeyInv'
<1>1. \A x \in tickets : x.req \in Requests
  BY DEF TypeOK, WorkTypes, Ticket
<1>2. QED
  BY <1>1 DEF KeyInv

\* Where a consumer that holds no request goes on to hold none, or holds the
\* same, none is held that was not.
LEMMA HoldsFrame ==
    ASSUME TypeOK, NEW c \in Consumers, Consume(c) \/ ConsumerCrash(c),
           pc'[c] \in Holding => pc[c] \in Holding /\ UNCHANGED at
    PROVE  \A d \in Consumers, r \in Requests : Holds(d, r)' => Holds(d, r)
<1>1. \A d \in Consumers : d # c => UNCHANGED <<pc[d], at[d], Cur(d)>>
  BY ConsumerFrame
<1>2. UNCHANGED at => UNCHANGED Cur(c)
  BY ConsumerFrame DEF Cur
<1>3. QED
  BY <1>1, <1>2 DEF Holds

LEMMA KeyNext == TypeOK /\ KeyInv /\ [Next]_vars => KeyInv'
<1> SUFFICES ASSUME TypeOK, KeyInv, [Next]_vars PROVE KeyInv'
  OBVIOUS
<1>t. pc \in [Consumers -> ConsumerSteps] /\ key \in [Requests -> BOOLEAN]
      /\ \A x \in tickets : x.req \in Requests
  BY DEF TypeOK, StreamTypes, WorkTypes, Ticket
<1>1. CASE UNCHANGED vars
  BY <1>1 DEF vars, KeyInv, Holds, Cur
<1>2. ASSUME NEW r \in Requests, Api(r) PROVE KeyInv'
  <2>1. \A c \in Consumers, s \in Requests : Holds(c, s)' => Holds(c, s)
    BY <1>2, ApiFrame DEF Holds, Holding
  <2>2. QED
    BY <1>2, <2>1, ApiFrame, KeyQuiet
<1>3. ASSUME NEW c \in Consumers,
             \/ Start(c) \/ Read(c) \/ Ack(c) \/ ConsumerCrash(c) \/ Skip(c)
             \/ MarkFails(c) \/ FindTypeFails(c) \/ DeductStock(c) \/ DeductRefused(c)
             \/ CreateFails(c) \/ UndoDeduction(c) \/ RollbackRedis(c)
      PROVE  KeyInv'
  <2>1. pc'[c] \in Holding => pc[c] \in Holding /\ UNCHANGED at
    BY <1>t, <1>3 DEF Holding, Start, Read, Ack, ConsumerCrash, Skip, MarkFails, FindTypeFails,
           DeductStock, DeductRefused, CreateFails, UndoDeduction, RollbackRedis, Return, GoOn,
           NextEntry, EndBatch
  <2>2. \A d \in Consumers, s \in Requests : Holds(d, s)' => Holds(d, s)
    BY <1>3, <2>1, HoldsFrame DEF Consume, ProcessTicket
  <2>3. \A s \in Requests : key[s] => key'[s]
    BY <1>t, <1>3 DEF Start, Read, Ack, ConsumerCrash, Skip, MarkFails, FindTypeFails,
           DeductStock, DeductRefused, CreateFails, UndoDeduction, RollbackRedis
  <2>4. \A x \in tickets' : x.told => x \in tickets
    BY <1>3 DEF Start, Read, Ack, ConsumerCrash, Skip, MarkFails, FindTypeFails,
           DeductStock, DeductRefused, CreateFails, UndoDeduction, RollbackRedis, dbVars
  <2>5. QED
    BY <2>2, <2>3, <2>4, KeyQuiet
<1>4. ASSUME NEW c \in Consumers, Mark(c) PROVE KeyInv'
  <2>0. PICK r \in Requests : r = Cur(c)
    BY <1>4, CurType DEF Mark
  <2>1. /\ pc[c] = "setnx" /\ ~ key[r] /\ UNCHANGED <<tickets, at, stream>>
        /\ key' = [key EXCEPT ![r] = TRUE]
    BY <1>4, <2>0 DEF Mark, GoOn, dbVars, streamVars
  <2>2. \A d \in Consumers : d # c => UNCHANGED <<pc[d], at[d], Cur(d)>>
    BY <1>4, ConsumerFrame DEF Consume, ProcessTicket
  <2>3. \A d \in Consumers, s \in Requests :
            Holds(d, s)' => Holds(d, s) \/ (d = c /\ s = r)
    BY <2>0, <2>1, <2>2 DEF Holds, Cur
  <2>4. \A d \in Consumers : ~ Holds(d, r)
    BY <2>1 DEF KeyInv
  <2>5. \A x \in tickets : x.told => x.req # r
    BY <2>1 DEF KeyInv
  <2>6. \A s \in Requests : key'[s] <=> key[s] \/ s = r
    BY <1>t, <2>1
  <2>7. \A d, e \in Consumers, s \in Requests : Holds(d, s)' /\ Holds(e, s)' => d = e
    BY <2>3, <2>4 DEF KeyInv
  <2>8. \A x \in tickets : x.told => key'[x.req] /\ \A d \in Consumers : ~ Holds(d, x.req)'
    BY <1>t, <2>3, <2>5, <2>6 DEF KeyInv
  <2>9. QED
    BY <2>1, <2>3, <2>6, <2>7, <2>8 DEF KeyInv
<1>5. ASSUME NEW c \in Consumers, CreateTicket(c) PROVE KeyInv'
  <2>0. PICK r \in Requests : r = Cur(c)
    BY <1>5, CurType DEF CreateTicket
  <2>1. PICK x : x = [req |-> r, top |-> top[c], told |-> TRUE]
    OBVIOUS
  <2>2. pc[c] = "create" /\ tickets' = tickets \cup {x} /\ UNCHANGED key
        /\ pc' = [pc EXCEPT ![c] = "ack"]
    BY <1>5, <2>0, <2>1 DEF CreateTicket, Return
  <2>3. Holds(c, r)
    BY <2>0, <2>2 DEF Holds, Holding
  <2>4. \A d \in Consumers, s \in Requests : Holds(d, s)' => Holds(d, s) /\ d # c
    <3>1. pc'[c] \notin Holding
      BY <1>t, <2>2 DEF Holding
    <3>2. QED
      BY <1>5, <3>1, HoldsFrame DEF Consume, ProcessTicket, Holds
  <2>5. \A y \in tickets : y.told => y.req # r
    BY <2>3 DEF KeyInv
  <2>6. \A d \in Consumers : ~ Holds(d, r)'
    BY <2>3, <2>4 DEF KeyInv
  <2>7. \A y, z \in tickets' : y.told /\ z.told /\ y.req = z.req => y = z
    <3>1. x.req = r
      BY <2>1
    <3>2. \A y, z \in tickets : y.told /\ z.told /\ y.req = z.req => y = z
      BY DEF KeyInv
    <3>3. QED
      BY <2>2, <2>5, <3>1, <3>2
  <2>8. \A y \in tickets' : y.told => key'[y.req] /\ \A d \in Consumers : ~ Holds(d, y.req)'
    BY <1>t, <2>1, <2>2, <2>3, <2>4, <2>6 DEF KeyInv
  <2>9. QED
    BY <2>2, <2>4, <2>7, <2>8 DEF KeyInv
<1>6. ASSUME NEW c \in Consumers, Unmark(c) PROVE KeyInv'
  <2>0. PICK r \in Requests : r = Cur(c)
    BY <1>6, CurType DEF Unmark
  <2>1. /\ pc[c] = "unmark" /\ UNCHANGED tickets /\ pc' = [pc EXCEPT ![c] = "ack"]
        /\ key' = [key EXCEPT ![r] = FALSE] \/ UNCHANGED key
    BY <1>6, <2>0 DEF Unmark, Return, dbVars
  <2>2. Holds(c, r)
    BY <2>0, <2>1 DEF Holds, Holding
  <2>3. \A d \in Consumers, s \in Requests : Holds(d, s)' => Holds(d, s) /\ d # c
    <3>1. pc'[c] \notin Holding
      BY <1>t, <2>1 DEF Holding
    <3>2. QED
      BY <1>6, <3>1, HoldsFrame DEF Consume, ProcessTicket, Holds
  <2>4. \A d \in Consumers, s \in Requests : Holds(d, s)' => s # r
    BY <2>2, <2>3 DEF KeyInv
  <2>5. \A x \in tickets : x.told => x.req # r
    BY <2>2 DEF KeyInv
  <2>6. \A s \in Requests : s # r => key'[s] = key[s]
    BY <1>t, <2>1
  <2>7. \A d \in Consumers, s \in Requests : Holds(d, s)' => key'[s]
    BY <2>3, <2>4, <2>6 DEF KeyInv
  <2>8. \A x \in tickets : x.told => key'[x.req] /\ \A d \in Consumers : ~ Holds(d, x.req)'
    BY <1>t, <2>3, <2>5, <2>6 DEF KeyInv
  <2>9. QED
    BY <2>1, <2>3, <2>7, <2>8 DEF KeyInv
<1>7. QED
  BY <1>1, <1>2, <1>3, <1>4, <1>5, <1>6 DEF Next, Consume, ProcessTicket

-----------------------------------------------------------------------------
(* The refinement of TicketSales.                                          *)

\* The state of TicketSales that StreamSale implements, and its value while no
\* request is sold twice.
LeftOf(t) == IF dbStock[t] < 0 THEN 0 ELSE dbStock[t]
SaleOf(r) == IF \E x, y \in Reported(r) : x # y THEN "sold twice"
             ELSE IF Reported(r) # {} THEN "sold"
             ELSE IF Creating(r) THEN "held"
             ELSE "open"
LeftMap == [t \in TicketTypes |-> LeftOf(t)]
SaleMap == [r \in Requests |-> SaleOf(r)]

LEMMA SaleKept ==
    ASSUME NEW r \in Requests, Reported(r)' = Reported(r), Creating(r)' <=> Creating(r)
    PROVE  SaleOf(r)' = SaleOf(r)
<1>1. CASE \E x, y \in Reported(r) : x # y
  <2>1. SaleOf(r) = "sold twice" /\ SaleOf(r)' = "sold twice"
    BY <1>1 DEF SaleOf
  <2>2. QED
    BY <2>1
<1>2. CASE ~ \E x, y \in Reported(r) : x # y
  <2>1. ~ \E x, y \in Reported(r)' : x # y
    BY <1>2
  <2>2. QED
    BY <1>2, <2>1 DEF SaleOf
<1>3. QED
  BY <1>1, <1>2

LEMMA SoldOnce ==
    ASSUME KeyInv, NEW r \in Requests
    PROVE  SaleOf(r) = IF Reported(r) # {} THEN "sold"
                       ELSE IF Creating(r) THEN "held" ELSE "open"
<1>1. \A x, y \in Reported(r) : x = y
  BY DEF Reported, KeyInv
<1>2. QED
  BY <1>1 DEF SaleOf

LEMMA SoldOnceNext ==
    ASSUME KeyInv', NEW r \in Requests
    PROVE  SaleOf(r)' = IF Reported(r)' # {} THEN "sold"
                        ELSE IF Creating(r)' THEN "held" ELSE "open"
<1>1. \A x, y \in Reported(r)' : x = y
  BY DEF Reported, KeyInv
<1>2. QED
  BY <1>1 DEF SaleOf

\* Only c is past SETNX for its request, and no insertion was reported for it.
LEMMA SoleHolder ==
    ASSUME KeyInv, NEW c \in Consumers, NEW r \in Requests, Holds(c, r)
    PROVE  /\ Reported(r) = {}
           /\ \A d \in Consumers : d # c => ~ (pc[d] = "create" /\ Cur(d) = r)
<1>1. Reported(r) = {}
  BY DEF KeyInv, Reported
<1>2. ASSUME NEW d \in Consumers, d # c PROVE ~ (pc[d] = "create" /\ Cur(d) = r)
  BY <1>2 DEF KeyInv, Holds, Holding
<1>3. QED
  BY <1>1, <1>2

\* A step that starts and ends no creation and leaves the database alone is a
\* stutter of TicketSales.
LEMMA SalesStutter ==
    ASSUME UNCHANGED <<dbStock, tickets>>,
           \A d \in Consumers : \/ UNCHANGED <<pc[d], Cur(d)>>
                                \/ pc[d] # "create" /\ pc'[d] # "create"
    PROVE  UNCHANGED Sales!salesVars
<1>1. \A r \in Requests : Reported(r)' = Reported(r) /\ (Creating(r)' <=> Creating(r))
  BY DEF Reported, Creating
<1>2. \A r \in Requests : SaleOf(r)' = SaleOf(r)
  BY <1>1, SaleKept
<1>3. SaleMap' = SaleMap
  BY <1>2 DEF SaleMap
<1>4. LeftMap' = LeftMap
  BY DEF LeftMap, LeftOf
<1>5. QED
  BY <1>3, <1>4 DEF Sales!salesVars, SaleMap, LeftMap, SaleOf, LeftOf

\* When the creation of r ends, the sale of r takes its value and no other sale
\* changes.
LEMMA CreationEnds ==
    ASSUME TypeOK, KeyInv, KeyInv', NEW c \in Consumers, NEW r \in Requests,
           pc[c] = "create", Cur(c) = r, pc'[c] # "create",
           \A d \in Consumers : d # c => UNCHANGED <<pc[d], Cur(d)>>,
           UNCHANGED dbStock,
           \A s \in Requests : s # r => Reported(s)' = Reported(s)
    PROVE  /\ SaleMap[r] = "held"
           /\ SaleMap' = [SaleMap EXCEPT ![r] = IF Reported(r)' # {} THEN "sold" ELSE "open"]
           /\ LeftMap' = LeftMap
<1>1. Holds(c, r)
  BY DEF Holds, Holding
<1>2. Reported(r) = {} /\ Creating(r)
  BY <1>1, SoleHolder DEF Creating
<1>3. ~ Creating(r)'
  BY <1>1, SoleHolder DEF Creating
<1>4. SaleOf(r) = "held" /\ SaleOf(r)' = IF Reported(r)' # {} THEN "sold" ELSE "open"
  BY <1>2, <1>3, SoldOnce, SoldOnceNext
<1>5. ASSUME NEW s \in Requests, s # r PROVE SaleOf(s)' = SaleOf(s)
  <2>1. Creating(s)' <=> Creating(s)
    BY <1>5 DEF Creating
  <2>2. QED
    BY <1>5, <2>1, SoldOnce, SoldOnceNext
<1>6. LeftMap' = LeftMap
  BY DEF LeftMap, LeftOf
<1>7. QED
  BY <1>4, <1>5, <1>6 DEF SaleMap

\* A creation that ends without a reported insertion gives the sale up.
LEMMA GiveUpStep ==
    ASSUME TypeOK, KeyInv, KeyInv', NEW c \in Consumers, NEW r \in Requests,
           pc[c] = "create", Cur(c) = r, pc'[c] # "create",
           \A d \in Consumers : d # c => UNCHANGED <<pc[d], Cur(d)>>,
           UNCHANGED dbStock, \A s \in Requests : Reported(s)' = Reported(s)
    PROVE  Sales!GiveUp(r)
<1>1. Reported(r)' = {}
  BY SoleHolder DEF Holds, Holding
<1>2. SaleMap[r] = "held" /\ SaleMap' = [SaleMap EXCEPT ![r] = "open"] /\ LeftMap' = LeftMap
  BY <1>1, CreationEnds
<1>3. QED
  BY <1>2 DEF Sales!GiveUp, SaleMap, LeftMap, SaleOf, LeftOf

\* The reported insertion of the ticket sells the held units.
LEMMA SellStep ==
    ASSUME TypeOK, KeyInv, KeyInv', NEW c \in Consumers, NEW r \in Requests,
           r = Cur(c), CreateTicket(c)
    PROVE  Sales!Sell(r)
<1>0. PICK x : x = [req |-> r, top |-> top[c], told |-> TRUE]
  OBVIOUS
<1>1. /\ pc[c] = "create" /\ tickets' = tickets \cup {x} /\ UNCHANGED dbStock
      /\ pc' = [pc EXCEPT ![c] = "ack"]
  BY <1>0 DEF CreateTicket, Return
<1>2. x.req = r /\ x.told
  BY <1>0
<1>3. Reported(r)' # {} /\ \A s \in Requests : s # r => Reported(s)' = Reported(s)
  BY <1>1, <1>2 DEF Reported
<1>4. pc'[c] # "create"
  BY <1>1 DEF TypeOK, StreamTypes
<1>5. \A d \in Consumers : d # c => UNCHANGED <<pc[d], Cur(d)>>
  BY ConsumerFrame DEF Consume, ProcessTicket
<1>6. SaleMap[r] = "held" /\ SaleMap' = [SaleMap EXCEPT ![r] = "sold"] /\ LeftMap' = LeftMap
  BY <1>1, <1>3, <1>4, <1>5, CreationEnds
<1>7. QED
  BY <1>6 DEF Sales!Sell, SaleMap, LeftMap, SaleOf, LeftOf

\* The guarded deduction holds the units of an open request.
LEMMA HoldStep ==
    ASSUME TypeOK, KeyInv, KeyInv', NEW c \in Consumers, NEW r \in Requests,
           r = Cur(c), DeductStock(c)
    PROVE  Sales!Hold(r)
<1> DEFINE t == TypeOf[r]
           q == QuantityOf[r]
<1>1. /\ pc[c] = "deduct" /\ pc' = [pc EXCEPT ![c] = "create"]
      /\ UNCHANGED <<at, stream, tickets>>
      /\ dbStock[t] >= q /\ dbStock' = [dbStock EXCEPT ![t] = @ - q]
  BY DEF DeductStock, UpdateStock, GoOn, streamVars
<1>2. t \in TicketTypes /\ q \in Nat /\ dbStock[t] \in Int
  BY DEF TypeOK, WorkTypes
<1>3. /\ Reported(r) = {}
      /\ \A d \in Consumers : d # c => ~ (pc[d] = "create" /\ Cur(d) = r)
  BY <1>1, SoleHolder DEF Holds, Holding
<1>f. \A d \in Consumers : UNCHANGED Cur(d)
  BY <1>1 DEF Cur
<1>p. pc'[c] = "create" /\ \A d \in Consumers : d # c => pc'[d] = pc[d]
  BY <1>1 DEF TypeOK, StreamTypes
<1>4. SaleOf(r) = "open" /\ SaleOf(r)' = "held"
  <2>1. ~ Creating(r) /\ Creating(r)' /\ Reported(r)' = {}
    BY <1>1, <1>3, <1>f, <1>p DEF Creating, Reported
  <2>2. QED
    BY <1>3, <2>1, SoldOnce, SoldOnceNext
<1>5. ASSUME NEW s \in Requests, s # r PROVE SaleOf(s)' = SaleOf(s)
  <2>1. (Creating(s)' <=> Creating(s)) /\ Reported(s)' = Reported(s)
    BY <1>1, <1>f, <1>p, <1>5 DEF Creating, Reported
  <2>2. QED
    BY <2>1, SoldOnce, SoldOnceNext
<1>6. SaleMap[r] = "open" /\ SaleMap' = [SaleMap EXCEPT ![r] = "held"]
  BY <1>4, <1>5 DEF SaleMap
<1>7. LeftOf(t) >= q /\ LeftOf(t)' = LeftOf(t) - q
  BY <1>1, <1>2 DEF LeftOf, TypeOK, WorkTypes
<1>8. ASSUME NEW u \in TicketTypes, u # t PROVE LeftOf(u)' = LeftOf(u)
  BY <1>1, <1>8 DEF LeftOf, TypeOK, WorkTypes
<1>9. LeftMap[t] >= q /\ LeftMap' = [LeftMap EXCEPT ![t] = @ - q]
  BY <1>2, <1>7, <1>8 DEF LeftMap
<1>10. QED
  BY <1>6, <1>9 DEF Sales!Hold, SaleMap, LeftMap, SaleOf, LeftOf

\* Units that are subtracted and not held are forfeited: by the subtraction
\* that should undo a deduction, or by a deduction whose reply is lost.
LEMMA ForfeitStep ==
    ASSUME TypeOK, NEW t \in TicketTypes, NEW q \in Nat,
           UNCHANGED tickets,
           UNCHANGED dbStock \/ UpdateStock(t, q),
           \A d \in Consumers : \/ UNCHANGED <<pc[d], Cur(d)>>
                                \/ pc[d] # "create" /\ pc'[d] # "create"
    PROVE  Sales!Forfeit(t)
<1>2. dbStock[t] \in Int
  BY DEF TypeOK, WorkTypes
<1>3. dbStock'[t] \in {dbStock[t], dbStock[t] - q}
  BY <1>2 DEF TypeOK, WorkTypes, UpdateStock
<1>4. LeftOf(t)' \in 0 .. LeftOf(t)
  BY <1>2, <1>3 DEF LeftOf
<1>5. ASSUME NEW u \in TicketTypes, u # t PROVE LeftOf(u)' = LeftOf(u)
  BY <1>5 DEF LeftOf, TypeOK, WorkTypes, UpdateStock
<1>6. LeftMap[t] = LeftOf(t) /\ LeftMap' = [LeftMap EXCEPT ![t] = LeftOf(t)']
  BY <1>2, <1>5 DEF LeftMap
<1>7. \A s \in Requests : (Creating(s)' <=> Creating(s)) /\ Reported(s)' = Reported(s)
  BY DEF Creating, Reported
<1>8. SaleMap' = SaleMap
  BY <1>7, SaleKept DEF SaleMap
<1>9. QED
  BY <1>4, <1>6, <1>8 DEF Sales!Forfeit, SaleMap, LeftMap, SaleOf, LeftOf

\* Nothing is held or sold at the start.
LEMMA SalesStart == Init => Sales!SalesInit
<1> SUFFICES ASSUME Init PROVE Sales!SalesInit
  OBVIOUS
<1>1. \A r \in Requests : Reported(r) = {} /\ ~ Creating(r)
  BY DEF Init, Reported, Creating
<1>2. SaleMap = [r \in Requests |-> "open"]
  BY <1>1 DEF SaleMap, SaleOf
<1>3. LeftMap = InitialStock
  BY DEF Init, LeftMap, LeftOf
<1>4. QED
  BY <1>2, <1>3 DEF Sales!SalesInit, SaleMap, LeftMap, SaleOf, LeftOf

\* Every step of the pipeline is a step or a stutter of TicketSales.
LEMMA SalesStep ==
    ASSUME TypeOK, KeyInv, KeyInv', [Next]_vars
    PROVE  Sales!SalesNext \/ UNCHANGED Sales!salesVars
<1>t. pc \in [Consumers -> ConsumerSteps]
  BY DEF TypeOK, StreamTypes
<1>1. ASSUME NEW r \in Requests, Api(r) PROVE UNCHANGED Sales!salesVars
  BY <1>1, ApiFrame, SalesStutter
<1>2. ASSUME NEW c \in Consumers,
             \/ Start(c) \/ Read(c) \/ Ack(c) \/ Mark(c) \/ Skip(c) \/ MarkFails(c)
             \/ FindTypeFails(c) \/ RollbackRedis(c) \/ Unmark(c)
      PROVE  UNCHANGED Sales!salesVars
  <2>1. UNCHANGED <<dbStock, tickets>>
    BY <1>2 DEF Start, Read, Ack, Mark, Skip, MarkFails, FindTypeFails, RollbackRedis,
           Unmark, dbVars
  <2>2. (pc[c] # "create" /\ pc'[c] # "create") \/ UNCHANGED <<pc[c], at[c]>>
    BY <1>t, <1>2 DEF Start, Read, Ack, Mark, Skip, MarkFails, FindTypeFails, RollbackRedis,
           Unmark, Return, GoOn, NextEntry, EndBatch
  <2>3. UNCHANGED stream /\ \A d \in Consumers : d # c => UNCHANGED <<pc[d], at[d], Cur(d)>>
    BY <1>2, ConsumerFrame DEF Consume, ProcessTicket
  <2>4. UNCHANGED at[c] => UNCHANGED Cur(c)
    BY <2>3 DEF Cur
  <2>5. QED
    BY <2>1, <2>2, <2>3, <2>4, SalesStutter
<1>3. ASSUME NEW c \in Consumers, CreateFails(c) \/ ConsumerCrash(c)
      PROVE  Sales!SalesNext \/ UNCHANGED Sales!salesVars
  <2>1. pc[c] \notin {"start", "read"} /\ pc'[c] # "create" /\ UNCHANGED dbStock
    BY <1>t, <1>3 DEF CreateFails, ConsumerCrash, GoOn, EndBatch, dbVars
  <2>2. \A d \in Consumers : d # c => UNCHANGED <<pc[d], Cur(d)>>
    BY <1>3, ConsumerFrame DEF Consume, ProcessTicket
  <2>3. PICK r \in Requests : r = Cur(c)
    BY <2>1, CurType
  <2>4. \A s \in Requests : Reported(s)' = Reported(s)
    <3>1. \A x \in tickets' \ tickets : ~ x.told
      BY <1>3 DEF CreateFails, ConsumerCrash, dbVars
    <3>2. tickets \subseteq tickets'
      BY <1>3 DEF CreateFails, ConsumerCrash, dbVars
    <3>3. QED
      BY <3>1, <3>2 DEF Reported
  <2>5. CASE pc[c] = "create"
    <3>1. Sales!GiveUp(r)
      BY <2>1, <2>2, <2>3, <2>4, <2>5, GiveUpStep
    <3>2. QED
      BY <3>1 DEF Sales!SalesNext
  <2>6. CASE pc[c] # "create"
    <3>1. UNCHANGED tickets
      BY <1>3, <2>6 DEF CreateFails, ConsumerCrash, dbVars
    <3>2. QED
      BY <2>1, <2>2, <2>6, <3>1, SalesStutter
  <2>7. QED
    BY <2>5, <2>6
<1>4. ASSUME NEW c \in Consumers, DeductRefused(c) \/ UndoDeduction(c)
      PROVE  Sales!SalesNext
  <2>1. pc[c] \in {"deduct", "undo"} /\ pc'[c] # "create" /\ UNCHANGED tickets
    BY <1>t, <1>4 DEF DeductRefused, UndoDeduction, GoOn
  <2>2. \A d \in Consumers : d # c => UNCHANGED <<pc[d], Cur(d)>>
    BY <1>4, ConsumerFrame DEF Consume, ProcessTicket
  <2>3. PICK r \in Requests : r = Cur(c)
    BY <2>1, CurType
  <2>4. UNCHANGED dbStock \/ UpdateStock(TypeOf[r], QuantityOf[r])
    BY <1>4, <2>3 DEF DeductRefused, UndoDeduction
  <2>5. TypeOf[r] \in TicketTypes /\ QuantityOf[r] \in Nat
    OBVIOUS
  <2>6. Sales!Forfeit(TypeOf[r])
    BY <2>1, <2>2, <2>4, <2>5, ForfeitStep
  <2>7. QED
    BY <2>5, <2>6 DEF Sales!SalesNext
<1>5. ASSUME NEW c \in Consumers, DeductStock(c) \/ CreateTicket(c)
      PROVE  Sales!SalesNext
  <2>1. PICK r \in Requests : r = Cur(c)
    BY <1>5, CurType DEF DeductStock, CreateTicket
  <2>2. QED
    BY <1>5, <2>1, HoldStep, SellStep DEF Sales!SalesNext
<1>6. CASE UNCHANGED vars
  BY <1>6, SalesStutter DEF vars, Cur
<1>7. QED
  BY <1>1, <1>2, <1>3, <1>4, <1>5, <1>6 DEF Next, Consume, ProcessTicket

\* Whatever fails, be an entry in the stream twice or handled by two consumers
\* at a time: units are held only while they are left, no request has two
\* reported tickets, a sale is final, and no unit returns to the stock.
THEOREM StreamImplementation == Spec => ImplementsSales
<1>1. Init => Sales!SalesInit /\ KeyInv /\ TypeOK
  BY SalesStart, KeyInit, TypeInit
<1>2. TypeOK /\ KeyInv /\ [Next]_vars => TypeOK' /\ KeyInv'
  BY KeyNext, TypeNext
<1>3. TypeOK /\ KeyInv /\ KeyInv' /\ [Next]_vars => [Sales!SalesNext]_Sales!salesVars
  BY SalesStep
<1>4. QED
  BY <1>1, <1>2, <1>3, PTL DEF Spec, ImplementsSales, Sales!SalesSpec

-----------------------------------------------------------------------------
(* The second ticket of a user.                                            *)

\* The calls that have reserved and not rolled back, and those after XADD.
LiveStates == {"reserved", "undo", "queued", "dead"}
SentStates == {"undo", "queued", "failed", "dead"}
Live(r) == call[r] \in LiveStates

\* Entries and tickets belong to calls that have gone past the reservation; the
\* user of a call that keeps its reservation is among the buyers, and has no
\* other such call.
BuyerInv ==
    /\ \A i \in 1 .. Len(stream) : call[stream[i]] \in SentStates
    /\ \A x \in tickets : call[x.req] \in SentStates
    /\ \A r \in Requests : Live(r) => UserOf[r] \in bought
    /\ \A r, s \in Requests : Live(r) /\ Live(s) /\ UserOf[r] = UserOf[s] => r = s

LEMMA BuyerInit == Init => BuyerInv
BY DEF Init, BuyerInv, Live, LiveStates

\* The steps of the API.  A reservation is new to the buyers; a call ends and
\* its user leaves them together.
LEMMA BuyerApi ==
    ASSUME TypeOK, BuyerInv, NEW r \in Requests, Api(r) PROVE BuyerInv'
<1>t. /\ call \in [Requests -> CallStates] /\ stream \in Seq(Requests)
      /\ \A x \in tickets : x.req \in Requests
  BY DEF TypeOK, ApiTypes, StreamTypes, WorkTypes, Ticket
<1>e. \A i \in 1 .. Len(stream) : stream[i] \in Requests
  BY <1>t
<1>1. UNCHANGED tickets
  BY ApiFrame
<1>2. \A s \in Requests : s # r => call'[s] = call[s]
  BY <1>t DEF Api, PurchaseTicket, PublishTicket, PublishFails, RollbackReservation, ApiCrash
<1>3. call[r] \in SentStates => call'[r] \in SentStates
  BY <1>t DEF Api, PurchaseTicket, PublishTicket, PublishFails, RollbackReservation, ApiCrash,
         SentStates
<1>4. \A s \in Requests : call[s] \in SentStates => call'[s] \in SentStates
  BY <1>2, <1>3
<1>5. \A i \in 1 .. Len(stream)' : call'[stream'[i]] \in SentStates
  <2>1. CASE PublishTicket(r) \/ PublishFails(r)
    <3>1. call'[r] \in SentStates
      BY <1>t, <2>1 DEF PublishTicket, PublishFails, SentStates
    <3>2. /\ Len(stream') >= Len(stream)
          /\ \A i \in 1 .. Len(stream) : stream'[i] = stream[i]
          /\ \A i \in 1 .. Len(stream') : i > Len(stream) => stream'[i] = r
      BY <2>1, PublishedStream DEF PublishTicket, PublishFails
    <3>3. \A i \in 1 .. Len(stream) : call'[stream'[i]] \in SentStates
      BY <1>e, <1>4, <3>2 DEF BuyerInv
    <3>4. \A i \in 1 .. Len(stream') : i > Len(stream) \/ i \in 1 .. Len(stream)
      BY <1>t
    <3>5. QED
      BY <3>1, <3>2, <3>3, <3>4
  <2>2. CASE UNCHANGED stream
    BY <1>e, <1>4, <2>2 DEF BuyerInv
  <2>3. QED
    BY <2>1, <2>2 DEF Api, PurchaseTicket, RollbackReservation, ApiCrash, streamVars
<1>6. \A x \in tickets' : call'[x.req] \in SentStates
  BY <1>t, <1>1, <1>4 DEF BuyerInv
<1>7. (\A s \in Requests : Live(s)' => UserOf[s] \in bought')
      /\ \A s, u \in Requests : Live(s)' /\ Live(u)' /\ UserOf[s] = UserOf[u] => s = u
  <2>1. CASE PurchaseTicket(r)
    <3>1. CASE Live(r)'
      <4>1. UserOf[r] \notin bought /\ bought' = bought \cup {UserOf[r]}
        BY <1>t, <2>1, <3>1 DEF PurchaseTicket, Take, MayTake, Live, LiveStates
      <4>2. \A s \in Requests : Live(s)' => s = r \/ (Live(s) /\ UserOf[s] # UserOf[r])
        BY <1>2, <4>1 DEF Live, BuyerInv
      <4>3. QED
        BY <4>1, <4>2 DEF BuyerInv
    <3>2. CASE ~ Live(r)'
      <4>1. bought \subseteq bought'
        BY <2>1 DEF PurchaseTicket, Take, redisVars
      <4>2. \A s \in Requests : Live(s)' => Live(s)
        BY <1>2, <3>2 DEF Live
      <4>3. QED
        BY <4>1, <4>2 DEF BuyerInv
    <3>3. QED
      BY <3>1, <3>2
  <2>2. CASE PublishTicket(r) \/ PublishFails(r) \/ ApiCrash(r)
    <3>1. bought' = bought /\ Live(r)
      BY <1>t, <2>2 DEF PublishTicket, PublishFails, ApiCrash, redisVars, Live, LiveStates
    <3>2. \A s \in Requests : Live(s)' => Live(s)
      BY <1>2, <3>1 DEF Live
    <3>3. QED
      BY <3>1, <3>2 DEF BuyerInv
  <2>3. CASE RollbackReservation(r)
    <3>1. /\ Live(r) /\ ~ Live(r)'
          /\ bought' = bought \ {UserOf[r]} \/ bought' = bought
      BY <1>t, <2>3 DEF RollbackReservation, redisVars, Live, LiveStates
    <3>2. \A s \in Requests : Live(s)' => Live(s) /\ UserOf[s] # UserOf[r]
      BY <1>2, <3>1 DEF Live, BuyerInv
    <3>3. QED
      BY <3>1, <3>2 DEF BuyerInv
  <2>4. QED
    BY <2>1, <2>2, <2>3 DEF Api
<1>8. QED
  BY <1>5, <1>6, <1>7 DEF BuyerInv

\* A consumer changes neither calls nor buyers, and makes tickets of entries.
LEMMA BuyerConsumer ==
    ASSUME TypeOK, BuyerInv, NEW c \in Consumers, Consume(c) \/ ConsumerCrash(c)
    PROVE  BuyerInv'
<1>1. UNCHANGED <<stream, call, bought>>
  BY ConsumerFrame
<1>2. \A x \in tickets' : x \in tickets \/ (pc[c] = "create" /\ x.req = Cur(c))
  BY DEF Consume, Start, Read, Ack, ConsumerCrash, ProcessTicket, Mark, Skip, MarkFails,
         FindTypeFails, DeductStock, DeductRefused, CreateTicket, CreateFails, UndoDeduction,
         RollbackRedis, Unmark, dbVars
<1>3. pc[c] = "create" => call[Cur(c)] \in SentStates
  BY CurType DEF BuyerInv, Cur
<1>4. \A x \in tickets' : call'[x.req] \in SentStates
  BY <1>1, <1>2, <1>3 DEF BuyerInv
<1>5. QED
  BY <1>1, <1>4 DEF BuyerInv, Live

LEMMA BuyerNext == TypeOK /\ BuyerInv /\ [Next]_vars => BuyerInv'
<1> SUFFICES ASSUME TypeOK, BuyerInv, [Next]_vars PROVE BuyerInv'
  OBVIOUS
<1>1. CASE UNCHANGED vars
  BY <1>1 DEF vars, BuyerInv, Live
<1>2. QED
  BY <1>1, BuyerApi, BuyerConsumer DEF Next

\* Two tickets of one user for different calls: one of them was answered with
\* a failure although its entry was in the stream.
THEOREM StreamBuyers == Spec => []SecondTicketAfterFailure
<1>1. TypeOK /\ BuyerInv => SecondTicketAfterFailure
  <2> SUFFICES ASSUME TypeOK, BuyerInv, NEW x \in tickets, NEW y \in tickets,
                      UserOf[x.req] = UserOf[y.req], x.req # y.req
               PROVE  "failed" \in {call[x.req], call[y.req]}
    BY DEF SecondTicketAfterFailure
  <2>1. x.req \in Requests /\ y.req \in Requests
    BY DEF TypeOK, WorkTypes, Ticket
  <2>2. ~ (Live(x.req) /\ Live(y.req))
    BY <2>1 DEF BuyerInv
  <2>3. QED
    BY <2>2 DEF BuyerInv, SentStates, Live, LiveStates
<1>2. QED
  BY <1>1, TypeInit, TypeNext, BuyerInit, BuyerNext, PTL DEF Spec

-----------------------------------------------------------------------------
(* The stock: which units are taken.                                       *)

\* The units a - QuantityOf[r] + 1 .. a of r's type are units of the initial
\* stock and lie above what is left of it.
Above(r, a) ==
    /\ a <= InitialStock[TypeOf[r]]
    /\ dbStock[TypeOf[r]] <= a - QuantityOf[r]
    /\ 0 <= a - QuantityOf[r]

\* The units a request r takes below a, and those s takes below b, differ.
Apart(r, a, s, b) ==
    TypeOf[r] = TypeOf[s] => a <= b - QuantityOf[s] \/ b <= a - QuantityOf[r]

\* The stock only sinks; the units of the rows of tickets, and those of the
\* consumers that are about to insert one, are distinct units above it.
UnitInv ==
    /\ \A t \in TicketTypes : dbStock[t] <= InitialStock[t]
    /\ \A x \in tickets : Above(x.req, x.top)
    /\ \A c \in Consumers : pc[c] = "create" => Above(Cur(c), top[c])
    /\ \A x, y \in tickets : x # y => Apart(x.req, x.top, y.req, y.top)
    /\ \A c \in Consumers, x \in tickets :
          pc[c] = "create" => Apart(Cur(c), top[c], x.req, x.top)
    /\ \A c, d \in Consumers :
          c # d /\ pc[c] = "create" /\ pc[d] = "create"
              => Apart(Cur(c), top[c], Cur(d), top[d])

\* At the start the whole stock is in the database.
LEMMA UnitInit == Init => UnitInv
BY DEF Init, UnitInv

\* The types that matter here.
LEMMA UnitTypes ==
    ASSUME TypeOK
    PROVE  /\ \A x \in tickets : x.req \in Requests /\ x.top \in Int
           /\ \A c \in Consumers : pc[c] = "create" => Cur(c) \in Requests /\ top[c] \in Int
           /\ \A t \in TicketTypes : dbStock[t] \in Int
<1>1. \A x \in tickets : x.req \in Requests /\ x.top \in Int
  BY DEF TypeOK, WorkTypes, Ticket
<1>2. \A c \in Consumers : pc[c] = "create" => Cur(c) \in Requests /\ top[c] \in Int
  BY CurType DEF TypeOK, WorkTypes
<1>3. \A t \in TicketTypes : dbStock[t] \in Int
  BY DEF TypeOK, WorkTypes
<1>4. QED
  BY <1>1, <1>2, <1>3

\* Units above the stock are still above it when it has sunk.
LEMMA StillAbove ==
    ASSUME TypeOK, \A t \in TicketTypes : dbStock'[t] \in Int /\ dbStock'[t] <= dbStock[t],
           NEW r \in Requests, NEW a \in Int, Above(r, a)
    PROVE  /\ a <= InitialStock[TypeOf[r]]
           /\ dbStock'[TypeOf[r]] <= a - QuantityOf[r]
           /\ 0 <= a - QuantityOf[r]
BY UnitTypes DEF Above

\* A step that inserts no ticket and starts no creation, and takes units from
\* the stock at most.
LEMMA UnitSink ==
    ASSUME TypeOK, UnitInv, UNCHANGED tickets,
           \A t \in TicketTypes : dbStock'[t] \in Int /\ dbStock'[t] <= dbStock[t],
           \A c \in Consumers : pc'[c] = "create" =>
               pc[c] = "create" /\ Cur(c)' = Cur(c) /\ top'[c] = top[c]
    PROVE  UnitInv'
<1>1. \A t \in TicketTypes : dbStock'[t] <= InitialStock[t]
  BY UnitTypes DEF UnitInv
<1>2. \A x \in tickets' : Above(x.req, x.top)'
  BY StillAbove, UnitTypes DEF UnitInv, Above
<1>3. \A c \in Consumers : pc'[c] = "create" => Above(Cur(c), top[c])'
  BY StillAbove, UnitTypes DEF UnitInv, Above
<1>4. \A c \in Consumers, x \in tickets' :
          pc'[c] = "create" => Apart(Cur(c)', top'[c], x.req, x.top)
  BY DEF UnitInv
<1>5. \A c, d \in Consumers :
          c # d /\ pc'[c] = "create" /\ pc'[d] = "create"
              => Apart(Cur(c)', top'[c], Cur(d)', top'[d])
  BY DEF UnitInv
<1>6. QED
  BY <1>1, <1>2, <1>3, <1>4, <1>5 DEF UnitInv, Apart

\* What a step of one consumer leaves of the others.
LEMMA TopFrame ==
    ASSUME TypeOK, NEW c \in Consumers, Consume(c) \/ ConsumerCrash(c)
    PROVE  \A d \in Consumers : d # c => UNCHANGED <<pc[d], Cur(d), top[d]>>
<1>1. top' = top \/ \E v : top' = [top EXCEPT ![c] = v]
  BY DEF Consume, Start, Read, Ack, ConsumerCrash, ProcessTicket, Mark, Skip, MarkFails,
         FindTypeFails, DeductStock, DeductRefused, CreateTicket, CreateFails, UndoDeduction,
         RollbackRedis, Unmark, Return
<1>2. \A d \in Consumers : d # c => UNCHANGED top[d]
  BY <1>1 DEF TypeOK, WorkTypes
<1>3. QED
  BY <1>2, ConsumerFrame

\* A guarded deduction takes the units on top of the stock, which lie below
\* every unit sold or being sold.
LEMMA UnitDeduct ==
    ASSUME TypeOK, UnitInv, NEW c \in Consumers, DeductStock(c)
    PROVE  UnitInv'
<1>1. PICK r \in Requests : r = Cur(c)
  BY CurType DEF DeductStock
<1>2. PICK t \in TicketTypes : t = TypeOf[r]
  OBVIOUS
<1>3. PICK q \in Nat \ {0} : q = QuantityOf[r]
  OBVIOUS
<1>4. PICK n \in Int : n = dbStock[t]
  BY UnitTypes
<1>5. /\ n >= q /\ dbStock' = [dbStock EXCEPT ![t] = @ - q]
      /\ top' = [top EXCEPT ![c] = n]
      /\ pc' = [pc EXCEPT ![c] = "create"] /\ UNCHANGED <<stream, at, tickets>>
  BY <1>1, <1>2, <1>3, <1>4 DEF DeductStock, UpdateStock, GoOn, streamVars
<1>6. /\ \A d \in Consumers : Cur(d)' = Cur(d)
      /\ \A d \in Consumers : d # c => pc'[d] = pc[d] /\ top'[d] = top[d]
      /\ pc'[c] = "create" /\ top'[c] = n
  BY <1>5 DEF Cur, TypeOK, StreamTypes, WorkTypes
<1>7. /\ dbStock'[t] = n - q
      /\ \A u \in TicketTypes : u # t => dbStock'[u] = dbStock[u]
  BY <1>4, <1>5 DEF TypeOK, WorkTypes
<1>8. \A u \in TicketTypes : dbStock'[u] \in Int /\ dbStock'[u] <= dbStock[u]
  BY <1>4, <1>7, UnitTypes
<1>9. ASSUME NEW s \in Requests, NEW a \in Int, Above(s, a)
      PROVE  Apart(r, n, s, a) /\ Apart(s, a, r, n)
  BY <1>2, <1>4, <1>9 DEF Above, Apart
<1>10. Above(r, n)'
  <2>1. n <= InitialStock[t]
    BY <1>4 DEF UnitInv
  <2>2. QED
    BY <1>2, <1>3, <1>5, <1>7, <2>1 DEF Above
<1>11. \A u \in TicketTypes : dbStock'[u] <= InitialStock[u]
  BY <1>8, UnitTypes DEF UnitInv
<1>12. \A x \in tickets' : Above(x.req, x.top)'
  BY <1>5, <1>8, StillAbove, UnitTypes DEF UnitInv, Above
<1>13. \A d \in Consumers : pc'[d] = "create" => Above(Cur(d), top[d])'
  <2>1. ASSUME NEW d \in Consumers, d # c, pc'[d] = "create" PROVE Above(Cur(d), top[d])'
    BY <1>6, <1>8, <2>1, StillAbove, UnitTypes DEF UnitInv, Above
  <2>2. QED
    BY <1>1, <1>6, <1>10, <2>1
<1>14. \A d \in Consumers, x \in tickets' :
           pc'[d] = "create" => Apart(Cur(d)', top'[d], x.req, x.top)
  <2>1. \A x \in tickets : Apart(r, n, x.req, x.top)
    BY <1>9, UnitTypes DEF UnitInv
  <2>2. QED
    BY <1>1, <1>5, <1>6, <2>1 DEF UnitInv
<1>15. \A d, e \in Consumers :
           d # e /\ pc'[d] = "create" /\ pc'[e] = "create"
               => Apart(Cur(d)', top'[d], Cur(e)', top'[e])
  <2>1. \A d \in Consumers : d # c /\ pc[d] = "create" =>
            Apart(r, n, Cur(d), top[d]) /\ Apart(Cur(d), top[d], r, n)
    BY <1>9, UnitTypes DEF UnitInv
  <2>2. QED
    BY <1>1, <1>6, <2>1 DEF UnitInv
<1>16. QED
  BY <1>5, <1>11, <1>12, <1>13, <1>14, <1>15 DEF UnitInv, Apart

\* An insertion, reported or not, turns the units in the consumer's hands into
\* those of a row.
LEMMA UnitCreate ==
    ASSUME TypeOK, UnitInv, NEW c \in Consumers, CreateTicket(c) \/ CreateFails(c)
    PROVE  UnitInv'
<1>1. PICK r \in Requests : r = Cur(c)
  BY CurType DEF CreateTicket, CreateFails
<1>2. PICK n \in Int : n = top[c]
  BY DEF TypeOK, WorkTypes
<1>3. PICK told \in BOOLEAN : tickets' \in {tickets, tickets \cup {[req |-> r, top |-> n, told |-> told]}}
  BY <1>1, <1>2 DEF CreateTicket, CreateFails
<1>4. PICK x \in Ticket : x = [req |-> r, top |-> n, told |-> told]
  BY DEF Ticket
<1>5. /\ pc[c] = "create" /\ pc'[c] # "create" /\ UNCHANGED dbStock
      /\ x.req = r /\ x.top = n
  BY <1>4 DEF CreateTicket, CreateFails, Return, GoOn, TypeOK, StreamTypes
<1>6. \A d \in Consumers : pc'[d] = "create" =>
          d # c /\ pc[d] = "create" /\ Cur(d)' = Cur(d) /\ top'[d] = top[d]
  BY <1>5, TopFrame DEF Consume, ProcessTicket
<1>7. CASE UNCHANGED tickets
  BY <1>5, <1>6, <1>7, UnitSink, UnitTypes
<1>8. CASE tickets' = tickets \cup {x}
  <2>1. Above(x.req, x.top)
    BY <1>1, <1>2, <1>5 DEF UnitInv
  <2>2. \A y \in tickets : Apart(x.req, x.top, y.req, y.top)
    BY <1>1, <1>2, <1>5 DEF UnitInv
  <2>3. \A y \in tickets : Apart(y.req, y.top, x.req, x.top)
    BY <2>2 DEF Apart
  <2>4. \A d \in Consumers : d # c /\ pc[d] = "create" => Apart(Cur(d), top[d], x.req, x.top)
    BY <1>1, <1>2, <1>5 DEF UnitInv
  <2>5. \A y \in tickets' : Above(y.req, y.top)'
    BY <1>5, <1>8, <2>1 DEF UnitInv, Above
  <2>6. \A y, z \in tickets' : y # z => Apart(y.req, y.top, z.req, z.top)
    BY <1>8, <2>2, <2>3 DEF UnitInv
  <2>7. \A d \in Consumers, y \in tickets' :
            pc'[d] = "create" => Apart(Cur(d)', top'[d], y.req, y.top)
    BY <1>6, <1>8, <2>4 DEF UnitInv
  <2>8. \A d \in Consumers : pc'[d] = "create" => Above(Cur(d), top[d])'
    BY <1>5, <1>6 DEF UnitInv, Above
  <2>9. \A d, e \in Consumers : d # e /\ pc'[d] = "create" /\ pc'[e] = "create"
            => Apart(Cur(d)', top'[d], Cur(e)', top'[e])
    BY <1>6 DEF UnitInv
  <2>10. \A t \in TicketTypes : dbStock'[t] <= InitialStock[t]
    BY <1>5 DEF UnitInv
  <2>11. QED
    BY <2>5, <2>6, <2>7, <2>8, <2>9, <2>10 DEF UnitInv, Apart
<1>9. QED
  BY <1>3, <1>4, <1>7, <1>8

\* Every other step leaves the rows alone and raises no stock.
LEMMA UnitNext == TypeOK /\ UnitInv /\ [Next]_vars => UnitInv'
<1> SUFFICES ASSUME TypeOK, UnitInv, [Next]_vars PROVE UnitInv'
  OBVIOUS
<1>1. ASSUME NEW r \in Requests, Api(r) PROVE UnitInv'
  BY <1>1, ApiFrame, UnitSink, UnitTypes
<1>2. ASSUME NEW c \in Consumers, Consume(c) \/ ConsumerCrash(c), UNCHANGED tickets,
             \A t \in TicketTypes : dbStock'[t] \in Int /\ dbStock'[t] <= dbStock[t],
             pc'[c] # "create"
      PROVE  UnitInv'
  BY <1>2, TopFrame, UnitSink
<1>3. ASSUME NEW c \in Consumers, ConsumerCrash(c) \/ Start(c) \/ Read(c) \/ Ack(c) PROVE UnitInv'
  <2>1. UNCHANGED <<tickets, dbStock>>
    BY <1>3 DEF ConsumerCrash, Start, Read, Ack, dbVars
  <2>2. pc'[c] # "create"
    BY <1>3 DEF ConsumerCrash, Start, Read, Ack, NextEntry, EndBatch, TypeOK, StreamTypes
  <2>3. QED
    BY <1>2, <1>3, <2>1, <2>2, UnitTypes DEF Consume
<1>4. ASSUME NEW c \in Consumers, ProcessTicket(c) PROVE UnitInv'
  <2>1. CASE Mark(c) \/ Skip(c) \/ MarkFails(c) \/ FindTypeFails(c) \/ RollbackRedis(c) \/ Unmark(c)
    <3>1. UNCHANGED <<tickets, dbStock>>
      BY <2>1 DEF Mark, Skip, MarkFails, FindTypeFails, RollbackRedis, Unmark, dbVars
    <3>2. pc'[c] # "create"
      BY <2>1 DEF Mark, Skip, MarkFails, FindTypeFails, RollbackRedis, Unmark, Return, GoOn,
         TypeOK, StreamTypes
    <3>3. QED
      BY <1>2, <1>4, <3>1, <3>2, UnitTypes DEF Consume
  <2>2. CASE DeductRefused(c) \/ UndoDeduction(c)
    <3>1. PICK r \in Requests : r = Cur(c)
      BY <2>2, CurType DEF DeductRefused, UndoDeduction
    <3>2. UNCHANGED tickets /\ pc'[c] # "create"
      BY <2>2 DEF DeductRefused, UndoDeduction, GoOn, TypeOK, StreamTypes
    <3>3. \/ UNCHANGED dbStock
          \/ dbStock' = [dbStock EXCEPT ![TypeOf[r]] = @ - QuantityOf[r]]
      BY <2>2, <3>1 DEF DeductRefused, UndoDeduction, UpdateStock
    <3>4. \A t \in TicketTypes : dbStock'[t] \in Int /\ dbStock'[t] <= dbStock[t]
      BY <3>3 DEF TypeOK, WorkTypes
    <3>5. QED
      BY <1>2, <1>4, <3>2, <3>4 DEF Consume
  <2>3. QED
    BY <1>4, <2>1, <2>2, UnitDeduct, UnitCreate DEF ProcessTicket
<1>5. CASE UNCHANGED vars
  BY <1>5, UnitSink, UnitTypes DEF vars, Cur
<1>6. QED
  BY <1>1, <1>3, <1>4, <1>5 DEF Next, Consume

\* No two rows of tickets share a unit, and all have units that were in stock,
\* whatever fails, rows of insertions that were reported as failed included.
THEOREM StreamUnits == Spec => []UnitsSoldOnce
<1>1. TypeOK /\ UnitInv => UnitsSoldOnce
  <2> SUFFICES ASSUME TypeOK, UnitInv PROVE UnitsSoldOnce
    OBVIOUS
  <2>1. ASSUME NEW x \in tickets PROVE Units(x) \subseteq 1 .. InitialStock[TypeOf[x.req]]
    <3>1. Above(x.req, x.top) /\ x.req \in Requests /\ x.top \in Int
      BY UnitTypes DEF UnitInv
    <3>2. QED
      BY <3>1 DEF Units, Above
  <2>2. ASSUME NEW x \in tickets, NEW y \in tickets, x # y, TypeOf[x.req] = TypeOf[y.req]
        PROVE  Units(x) \cap Units(y) = {}
    <3>1. Apart(x.req, x.top, y.req, y.top)
      BY <2>2 DEF UnitInv
    <3>2. x.req \in Requests /\ x.top \in Int /\ y.req \in Requests /\ y.top \in Int
      BY UnitTypes
    <3>3. QED
      BY <2>2, <3>1, <3>2 DEF Units, Apart
  <2>3. QED
    BY <2>1, <2>2 DEF UnitsSoldOnce
<1>2. TypeOK /\ UnitInv /\ [Next]_vars => TypeOK' /\ UnitInv'
  BY TypeNext, UnitNext
<1>3. QED
  BY <1>1, <1>2, TypeInit, UnitInit, PTL DEF Spec

=============================================================================
