--------------------------- MODULE WsGatewayProofs ---------------------------
(***************************************************************************)
(* Proofs about WsGateway, for any instances, users, clients, messages and *)
(* capacities: type correctness; that no send channel is closed twice or   *)
(* used after it was closed; and that the router and the registry in Redis *)
(* count the connections of each user.                                     *)
(***************************************************************************)
EXTENDS WsGateway, FiniteSetTheorems, TLAPS

USE GatewayAssumption

-----------------------------------------------------------------------------
(* Type correctness, and whom the hub is about.                            *)

\* The steps in which the router's code runs, for one client.
RouterSteps == {"count-up", "add", "subscribe", "count-down", "subtract", "remove"}

\* Whom such a step is about.
HubInv ==
    \A i \in Instances :
        hub[i].at \in RouterSteps => \E c \in Clients : hub[i].who = {c}

\* The subject of such a step is the user of its client.
LEMMA SubjectIs ==
    ASSUME NEW i, NEW c \in Clients, hub[i].who = {c}
    PROVE  Subject(i) = UserOf[c] /\ UserOf[c] \in Users
<1>1. \A d \in Clients : hub[i].who = {d} <=> d = c
  BY Zenon
<1>2. (CHOOSE d \in Clients : hub[i].who = {d}) = c
  BY <1>1
<1>3. QED
  BY <1>2 DEF Subject

LEMMA SubjectIsUser ==
    ASSUME HubInv, NEW i \in Instances, hub[i].at \in RouterSteps
    PROVE  Subject(i) \in Users
<1>1. PICK c \in Clients : hub[i].who = {c}
  BY DEF HubInv
<1>2. QED
  BY <1>1, SubjectIs

LEMMA TypeInit == Init => TypeOK /\ HubInv
<1> SUFFICES ASSUME Init PROVE TypeOK /\ HubInv
  OBVIOUS
<1>1. Idle \in [at : Steps, who : SUBSET Clients]
  BY DEF Idle, Steps
<1>2. HubInv
  BY DEF Init, HubInv, Idle, RouterSteps
<1>3. << >> \in Seq(Clients) /\ << >> \in Seq(Messages \cup {Chat})
  OBVIOUS
<1>4. /\ register \in [Instances -> Seq(Clients)] /\ unregister \in [Instances -> Seq(Clients)]
      /\ broadcast \in [Instances -> Seq(Clients)]
      /\ buffer \in [Clients -> Seq(Messages \cup {Chat})]
  BY <1>3, Zenon DEF Init
<1>5. /\ conn \in [Clients -> {"none", "open", "saying", "ended", "gone"}]
      /\ clients \in [Instances -> SUBSET Clients] /\ closes \in [Clients -> Nat]
      /\ hub \in [Instances -> [at : Steps, who : SUBSET Clients]]
      /\ instances \in [Users -> SUBSET Instances]
  BY <1>1 DEF Init
<1>9. /\ lasting \subseteq Users \cup (Instances \X Users)
      /\ sent \subseteq Messages /\ overtaken \in BOOLEAN
      /\ said \in Nat /\ faults \in Nat /\ said + faults <= MaxEvents
  <2>1. lasting = {} /\ sent = {} /\ overtaken = FALSE /\ said = 0 /\ faults = 0
    BY DEF Init
  <2>2. said \in Nat /\ faults \in Nat /\ said + faults <= MaxEvents
    BY <2>1
  <2>3. QED
    BY <2>1, <2>2, Zenon
<1>6. /\ local \in [Instances -> [Users -> Nat]] /\ count \in [Instances -> [Users -> Int]]
      /\ starting \in [Instances -> [Users -> Nat]] /\ active \in [Instances -> [Users -> Nat]]
  BY DEF Init, Nobody
<1>7. /\ pending \in [Instances -> [Messages -> Nat]]
      /\ fate \in [Clients -> [Messages -> {"none", "due", "dropped", "got"}]]
  BY DEF Init
<1>8. QED
  BY <1>2, <1>4, <1>5, <1>6, <1>7, <1>9 DEF TypeOK

\* The readers and writers of connections.
LEMMA TypePump ==
    ASSUME TypeOK, NEW c \in Clients, Pump(c)
    PROVE  TypeOK'
<1>s. UNCHANGED <<closes, clients, hub, local, redisVars, subVars, overtaken>>
  BY DEF Pump, Connect, ReadMessage, Say, End, Deregister, Write, tableVars
<1>1. conn' \in [Clients -> {"none", "open", "saying", "ended", "gone"}]
  BY DEF TypeOK, Pump, Connect, ReadMessage, Say, End, Deregister, Write, connVars
<1>2. /\ register' \in [Instances -> Seq(Clients)]
      /\ unregister' \in [Instances -> Seq(Clients)]
      /\ broadcast' \in [Instances -> Seq(Clients)]
  <2>1. CASE Connect(c)
    BY <2>1 DEF TypeOK, Connect
  <2>2. CASE Say(c)
    BY <2>2 DEF TypeOK, Say
  <2>3. CASE Deregister(c)
    BY <2>3 DEF TypeOK, Deregister
  <2>4. CASE UNCHANGED chanVars
    BY <2>4 DEF TypeOK, chanVars
  <2>5. QED
    BY <2>1, <2>2, <2>3, <2>4 DEF Pump, ReadMessage, End, Write
<1>3. said' \in Nat /\ said' + faults <= MaxEvents
  BY DEF TypeOK, Pump, Connect, ReadMessage, Say, End, Deregister, Write, connVars
<1>4. /\ buffer' \in [Clients -> Seq(Messages \cup {Chat})]
      /\ fate' \in [Clients -> [Messages -> {"none", "due", "dropped", "got"}]]
  <2>1. CASE Write(c)
    <3>1. << >> \in Seq(Messages \cup {Chat})
      OBVIOUS
    <3>2. buffer' \in [Clients -> Seq(Messages \cup {Chat})]
      BY <2>1, <3>1 DEF Write, TypeOK
    <3>3. fate' \in [Clients -> [Messages -> {"none", "due", "dropped", "got"}]]
      BY <2>1 DEF Write, TypeOK
    <3>4. QED
      BY <3>2, <3>3
  <2>2. CASE UNCHANGED sendVars
    BY <2>2 DEF sendVars, TypeOK
  <2>3. QED
    BY <2>1, <2>2 DEF Pump, Connect, ReadMessage, Say, End, Deregister
<1>5. QED
  BY <1>s, <1>1, <1>2, <1>3, <1>4 DEF TypeOK, redisVars, subVars

\* The hub goes on to another step.
LEMMA TypeHub ==
    ASSUME TypeOK, NEW i \in Instances, NEW at \in Steps, NEW who \in SUBSET Clients,
           HubNext(i, at, who)
    PROVE  hub' \in [Instances -> [at : Steps, who : SUBSET Clients]]
BY DEF TypeOK, HubNext

\* A message is put in send channels.
LEMMA TypeSend ==
    ASSUME TypeOK, NEW S, NEW m \in Messages \cup {Chat}, Send(S, m)
    PROVE  buffer' \in [Clients -> Seq(Messages \cup {Chat})]
BY DEF TypeOK, Send

\* The cases of the hub's select.
LEMMA TypeSelect ==
    ASSUME TypeOK, NEW i \in Instances,
           TakeRegister(i) \/ TakeUnregister(i) \/ TakeBroadcast(i) \/ CloseStale(i)
    PROVE  TypeOK'
<1>1. CASE TakeRegister(i)
  <2>1. Head(register[i]) \in Clients /\ Tail(register[i]) \in Seq(Clients)
    BY <1>1 DEF TakeRegister, TypeOK
  <2>2. hub' \in [Instances -> [at : Steps, who : SUBSET Clients]]
    <3>1. {Head(register[i])} \in SUBSET Clients /\ "count-up" \in Steps
      BY <2>1 DEF Steps
    <3>2. CASE UNCHANGED hub
      BY <3>2 DEF TypeOK
    <3>3. QED
      BY <1>1, <3>1, <3>2, TypeHub DEF TakeRegister
  <2>3. /\ register' \in [Instances -> Seq(Clients)]
        /\ clients' \in [Instances -> SUBSET Clients]
    BY <1>1, <2>1 DEF TakeRegister, TypeOK
  <2>4. QED
    BY <1>1, <2>2, <2>3 DEF TakeRegister, TypeOK, connVars, sendVars, redisVars, subVars
<1>2. CASE TakeUnregister(i)
  <2>1. Head(unregister[i]) \in Clients /\ Tail(unregister[i]) \in Seq(Clients)
    BY <1>2 DEF TakeUnregister, TypeOK
  <2>2. hub' \in [Instances -> [at : Steps, who : SUBSET Clients]]
    <3>1. {Head(unregister[i])} \in SUBSET Clients /\ "count-down" \in Steps
      BY <2>1 DEF Steps
    <3>2. CASE UNCHANGED hub
      BY <3>2 DEF TypeOK
    <3>3. QED
      BY <1>2, <3>1, <3>2, TypeHub DEF TakeUnregister
  <2>c. PICK c \in Clients : c = Head(unregister[i]) /\ ForgetClient(i, c)
    BY <1>2, <2>1 DEF TakeUnregister
  <2>3. /\ unregister' \in [Instances -> Seq(Clients)]
        /\ clients' \in [Instances -> SUBSET Clients] /\ closes' \in [Clients -> Nat]
    <3>1. unregister' \in [Instances -> Seq(Clients)]
      BY <1>2, <2>1 DEF TakeUnregister, TypeOK
    <3>2. clients' \in [Instances -> SUBSET Clients]
      BY <2>c DEF ForgetClient, TypeOK
    <3>3. closes' \in [Clients -> Nat]
      <4>1. (IF c \in clients[i] THEN closes[c] + 1 ELSE closes[c]) \in Nat
        BY DEF TypeOK
      <4>2. closes' = [closes EXCEPT ![c] = IF c \in clients[i] THEN closes[c] + 1 ELSE closes[c]]
        BY <2>c DEF ForgetClient
      <4>3. QED
        BY <4>1, <4>2 DEF TypeOK
    <3>4. QED
      BY <3>1, <3>2, <3>3
  <2>4. overtaken' \in BOOLEAN
    BY <1>2 DEF TakeUnregister
  <2>5. QED
    BY <1>2, <2>2, <2>3, <2>4 DEF TakeUnregister, TypeOK, connVars, sendVars, redisVars, subVars
<1>3. CASE TakeBroadcast(i)
  <2> DEFINE S == Audience(i, Head(broadcast[i]))
  <2>1. hub' \in [Instances -> [at : Steps, who : SUBSET Clients]]
    <3>1. Full(S) \in SUBSET Clients /\ "close" \in Steps
      BY DEF Full, Audience, TypeOK, Steps
    <3>2. CASE UNCHANGED hub
      BY <3>2 DEF TypeOK
    <3>3. QED
      BY <1>3, <3>1, <3>2, TypeHub DEF TakeBroadcast
  <2>2. buffer' \in [Clients -> Seq(Messages \cup {Chat})]
    BY <1>3, TypeSend DEF TakeBroadcast
  <2>3. broadcast' \in [Instances -> Seq(Clients)]
    BY <1>3 DEF TakeBroadcast, TypeOK
  <2>4. QED
    BY <1>3, <2>1, <2>2, <2>3 DEF TakeBroadcast, TypeOK, connVars, tableVars, redisVars, subVars
<1>4. CASE CloseStale(i)
  <2>1. hub' \in [Instances -> [at : Steps, who : SUBSET Clients]]
    BY <1>4, TypeHub DEF CloseStale, Steps
  <2>2. clients' \in [Instances -> SUBSET Clients] /\ closes' \in [Clients -> Nat]
    BY <1>4 DEF CloseStale, TypeOK
  <2>3. QED
    BY <1>4, <2>1, <2>2 DEF CloseStale, TypeOK, connVars, chanVars, sendVars, redisVars, subVars
<1>5. QED
  BY <1>1, <1>2, <1>3, <1>4

\* The router's code in the hub's goroutine.
LEMMA TypeRouter ==
    ASSUME TypeOK, HubInv, NEW i \in Instances, Enter(i) \/ Leave(i)
    PROVE  TypeOK'
<1>u. hub[i].at \in RouterSteps
  BY DEF Enter, Leave, CountUp, AddConnection, SubscribeToUser, CountDown, SubtractConnection,
     RemoveConnection, HubAt, RouterSteps
<1>1. PICK u \in Users : u = Subject(i)
  BY <1>u, SubjectIsUser
<1>2. hub[i].who \in SUBSET Clients
  BY DEF TypeOK
<1>3. ASSUME NEW at \in {"select", "add", "subscribe", "subtract", "remove"},
             NEW who \in {hub[i].who, {}}, HubNext(i, at, who)
      PROVE  hub' \in [Instances -> [at : Steps, who : SUBSET Clients]]
  BY <1>2, <1>3, TypeHub DEF Steps
<1>4. CASE CountUp(i)
  <2>1. local' \in [Instances -> [Users -> Nat]]
    BY <1>1, <1>4 DEF CountUp, TypeOK
  <2>2. QED
    BY <1>3, <1>4, <2>1 DEF CountUp, TypeOK, connVars, chanVars, tableVars, sendVars, redisVars, subVars
<1>5. CASE AddConnection(i)
  <2>1. PICK added \in BOOLEAN, raised \in BOOLEAN, timed \in SUBSET {u, <<i, u>>} :
         /\ IF added /\ raised /\ timed = {u, <<i, u>>} THEN NoFault ELSE Fault
         /\ instances' = IF added THEN [instances EXCEPT ![u] = @ \cup {i}] ELSE instances
         /\ count' = IF raised THEN [count EXCEPT ![i][u] = @ + 1] ELSE count
         /\ lasting' = (lasting \cup (IF added /\ instances[u] = {} THEN {u} ELSE {})
                                \cup (IF raised /\ count[i][u] = 0 THEN {<<i, u>>} ELSE {}))
                       \ timed
    BY <1>1, <1>5 DEF AddConnection
  <2>2. instances' \in [Users -> SUBSET Instances] /\ count' \in [Instances -> [Users -> Int]]
    BY <2>1 DEF TypeOK
  <2>3. lasting' \subseteq Users \cup (Instances \X Users)
    BY <2>1 DEF TypeOK
  <2>4. faults' \in Nat /\ said + faults' <= MaxEvents
    BY <2>1 DEF TypeOK, Fault, NoFault
  <2>5. hub' \in [Instances -> [at : Steps, who : SUBSET Clients]]
    BY <1>3, <1>5 DEF AddConnection
  <2>6. QED
    BY <1>5, <2>2, <2>3, <2>4, <2>5 DEF AddConnection, TypeOK, connVars, chanVars, tableVars, sendVars, subVars
<1>6. CASE SubscribeToUser(i)
  <2>1. starting' \in [Instances -> [Users -> Nat]]
    BY <1>1, <1>6 DEF SubscribeToUser, TypeOK
  <2>2. QED
    BY <1>3, <1>6, <2>1 DEF SubscribeToUser, TypeOK, connVars, chanVars, tableVars, sendVars, redisVars
<1>7. CASE CountDown(i)
  <2>1. local' \in [Instances -> [Users -> Nat]]
    BY <1>1, <1>7 DEF CountDown, Lowered, TypeOK
  <2>2. QED
    BY <1>3, <1>7, <2>1 DEF CountDown, TypeOK, connVars, chanVars, tableVars, sendVars, redisVars, subVars
<1>8. CASE SubtractConnection(i)
  <2>1. count' \in [Instances -> [Users -> Int]]
    <3>1. PICK n \in Int : n = count[i][u] - 1
      BY DEF TypeOK
    <3>2. CASE count' = [count EXCEPT ![i][u] = n]
      BY <3>2 DEF TypeOK
    <3>3. CASE UNCHANGED count
      BY <3>3 DEF TypeOK
    <3>4. QED
      BY <1>1, <1>8, <3>1, <3>2, <3>3 DEF SubtractConnection
  <2>2. lasting' \subseteq Users \cup (Instances \X Users)
    BY <1>1, <1>8 DEF SubtractConnection, TypeOK
  <2>3. faults' \in Nat /\ said + faults' <= MaxEvents
    BY <1>8 DEF SubtractConnection, TypeOK, Fault, NoFault
  <2>4. hub' \in [Instances -> [at : Steps, who : SUBSET Clients]]
    BY <1>3, <1>8 DEF SubtractConnection
  <2>5. QED
    BY <1>8, <2>1, <2>2, <2>3, <2>4 DEF SubtractConnection, TypeOK, connVars, chanVars, tableVars, sendVars, subVars
<1>9. CASE RemoveConnection(i)
  <2>1. PICK deleted \in BOOLEAN, removed \in BOOLEAN :
         /\ IF deleted /\ removed THEN NoFault ELSE Fault
         /\ count' = IF deleted THEN [count EXCEPT ![i][u] = 0] ELSE count
         /\ instances' = IF removed THEN [instances EXCEPT ![u] = @ \ {i}] ELSE instances
         /\ lasting' \subseteq lasting
    BY <1>1, <1>9 DEF RemoveConnection
  <2>2. instances' \in [Users -> SUBSET Instances] /\ count' \in [Instances -> [Users -> Int]]
    BY <2>1 DEF TypeOK
  <2>3. faults' \in Nat /\ said + faults' <= MaxEvents
    BY <2>1 DEF TypeOK, Fault, NoFault
  <2>4. hub' \in [Instances -> [at : Steps, who : SUBSET Clients]]
    BY <1>3, <1>9 DEF RemoveConnection
  <2>5. QED
    BY <1>9, <2>1, <2>2, <2>3, <2>4 DEF RemoveConnection, TypeOK, connVars, chanVars, tableVars, sendVars, subVars
<1>10. QED
  BY <1>4, <1>5, <1>6, <1>7, <1>8, <1>9 DEF Enter, Leave

\* Messages to users, and the registry's TTL.
LEMMA TypeRoute ==
    ASSUME TypeOK, NEW i \in Instances, Route(i)
    PROVE  TypeOK'
<1>1. ASSUME NEW u \in Users, Subscription(i, u) PROVE TypeOK'
  <2>1. /\ starting' \in [Instances -> [Users -> Nat]]
        /\ active' \in [Instances -> [Users -> Nat]]
    BY <1>1 DEF Subscription, TypeOK
  <2>2. QED
    BY <1>1, <2>1 DEF Subscription, TypeOK, connVars, chanVars, tableVars, sendVars, redisVars
<1>2. ASSUME NEW m \in Messages, SendToUserLocal(i, m, fate)
      PROVE  /\ buffer' \in [Clients -> Seq(Messages \cup {Chat})]
             /\ fate' \in [Clients -> [Messages -> {"none", "due", "dropped", "got"}]]
  BY <1>2, TypeSend DEF SendToUserLocal, TypeOK
<1>3. ASSUME NEW m \in Messages, SendToUser(i, m) PROVE TypeOK'
  <2>1. /\ buffer' \in [Clients -> Seq(Messages \cup {Chat})]
        /\ fate' \in [Clients -> [Messages -> {"none", "due", "dropped", "got"}]]
    <3>1. CASE SendToUserLocal(i, m, fate)
      BY <1>2, <3>1
    <3>2. CASE fate' = Due(m) /\ UNCHANGED buffer
      BY <3>2 DEF Due, TypeOK
    <3>3. QED
      BY <1>3, <3>1, <3>2 DEF SendToUser
  <2>2. pending' \in [Instances -> [Messages -> Nat]]
    <3>1. CASE Publish(m)
      <4>1. ASSUME NEW k \in Instances
            PROVE  [pending[k] EXCEPT ![m] = @ + active[k][ToOf[m]]] \in [Messages -> Nat]
        BY DEF TypeOK
      <4>2. QED
        BY <3>1, <4>1 DEF Publish
    <3>2. CASE UNCHANGED pending
      BY <3>2 DEF TypeOK
    <3>3. QED
      BY <1>3, <3>1, <3>2 DEF SendToUser
  <2>3. faults' \in Nat /\ said + faults' <= MaxEvents
    BY <1>3 DEF SendToUser, TypeOK, Fault, NoFault
  <2>4. sent' \subseteq Messages
    BY <1>3 DEF SendToUser, TypeOK
  <2>5. QED
    BY <1>3, <2>1, <2>2, <2>3, <2>4 DEF SendToUser, TypeOK, connVars, chanVars, tableVars
<1>4. ASSUME NEW m \in Messages, HandleUserMessage(i, m) PROVE TypeOK'
  <2>1. /\ buffer' \in [Clients -> Seq(Messages \cup {Chat})]
        /\ fate' \in [Clients -> [Messages -> {"none", "due", "dropped", "got"}]]
    <3>1. CASE UNCHANGED sendVars
      BY <3>1 DEF sendVars, TypeOK
    <3>2. QED
      BY <1>2, <1>4, <3>1 DEF HandleUserMessage
  <2>2. pending' \in [Instances -> [Messages -> Nat]]
    BY <1>4 DEF HandleUserMessage, TypeOK
  <2>3. QED
    BY <1>4, <2>1, <2>2 DEF HandleUserMessage, TypeOK, connVars, chanVars, tableVars, redisVars
<1>5. QED
  BY <1>1, <1>3, <1>4 DEF Route

LEMMA TypeRedis == TypeOK /\ Redis => TypeOK'
<1> SUFFICES ASSUME TypeOK, Redis PROVE TypeOK'
  OBVIOUS
<1>1. ASSUME NEW u \in Users, ExpireInstances(u) PROVE TypeOK'
  <2>1. instances' \in [Users -> SUBSET Instances]
    BY <1>1 DEF ExpireInstances, TypeOK
  <2>2. QED
    BY <1>1, <2>1 DEF ExpireInstances, TypeOK, connVars, chanVars, tableVars, sendVars, subVars
<1>2. ASSUME NEW i \in Instances, Refresh(i) PROVE TypeOK'
  <2>1. lasting' \subseteq lasting
    BY <1>2 DEF Refresh
  <2>2. QED
    BY <1>2, <2>1 DEF Refresh, TypeOK, connVars, chanVars, tableVars, sendVars, subVars
<1>3. ASSUME NEW i \in Instances, NEW u \in Users, ExpireCount(i, u) PROVE TypeOK'
  <2>1. count' \in [Instances -> [Users -> Int]]
    BY <1>3 DEF ExpireCount, TypeOK
  <2>2. QED
    BY <1>3, <2>1 DEF ExpireCount, TypeOK, connVars, chanVars, tableVars, sendVars, subVars
<1>4. QED
  BY <1>1, <1>2, <1>3 DEF Redis

\* The hub goes on about the same client, or about one it has taken.
LEMMA HubGoes ==
    ASSUME TypeOK, HubInv, NEW i \in Instances, NEW at, NEW who, HubNext(i, at, who),
           at \in RouterSteps => \E c \in Clients : who = {c}
    PROVE  HubInv'
<1>1. hub'[i] = [at |-> at, who |-> who] /\ \A k \in Instances : k # i => hub'[k] = hub[k]
  BY DEF TypeOK, HubNext
<1>2. QED
  BY <1>1 DEF HubInv

LEMMA HubRun ==
    ASSUME TypeOK, HubInv, NEW i \in Instances, Run(i)
    PROVE  HubInv'
<1>1. CASE UNCHANGED hub
  BY <1>1 DEF HubInv
<1>2. CASE TakeRegister(i)
  <2>1. Head(register[i]) \in Clients
    BY <1>2 DEF TakeRegister, TypeOK
  <2>2. QED
    BY <1>1, <1>2, <2>1, HubGoes DEF TakeRegister
<1>3. CASE TakeUnregister(i)
  <2>1. Head(unregister[i]) \in Clients
    BY <1>3 DEF TakeUnregister, TypeOK
  <2>2. QED
    BY <1>1, <1>3, <2>1, HubGoes DEF TakeUnregister
<1>4. CASE TakeBroadcast(i)
  BY <1>1, <1>4, HubGoes DEF TakeBroadcast, RouterSteps
<1>5. CASE CloseStale(i)
  BY <1>5, HubGoes DEF CloseStale, RouterSteps
<1>6. CASE Enter(i) \/ Leave(i)
  <2>1. hub[i].at \in RouterSteps
    BY <1>6 DEF Enter, Leave, CountUp, AddConnection, SubscribeToUser, CountDown,
       SubtractConnection, RemoveConnection, HubAt, RouterSteps
  <2>2. \E c \in Clients : hub[i].who = {c}
    BY <2>1 DEF HubInv
  <2>3. \E at : HubNext(i, at, hub[i].who) \/ HubNext(i, "select", {})
    BY <1>6 DEF Enter, Leave, CountUp, AddConnection, SubscribeToUser, CountDown,
       SubtractConnection, RemoveConnection
  <2>4. QED
    BY <2>2, <2>3, HubGoes DEF RouterSteps
<1>7. QED
  BY <1>2, <1>3, <1>4, <1>5, <1>6 DEF Run

\* Every step keeps the types, and the hub is about one client.
LEMMA TypeNext == TypeOK /\ HubInv /\ [Next]_vars => TypeOK' /\ HubInv'
<1> SUFFICES ASSUME TypeOK, HubInv, [Next]_vars PROVE TypeOK' /\ HubInv'
  OBVIOUS
<1>1. CASE UNCHANGED vars
  BY <1>1 DEF vars, TypeOK, HubInv
<1>2. ASSUME NEW c \in Clients, Pump(c) PROVE TypeOK' /\ HubInv'
  <2>1. UNCHANGED hub
    BY <1>2 DEF Pump, Connect, ReadMessage, Say, End, Deregister, Write
  <2>2. QED
    BY <1>2, <2>1, TypePump DEF HubInv
<1>3. ASSUME NEW i \in Instances, Run(i) PROVE TypeOK' /\ HubInv'
  BY <1>3, TypeSelect, TypeRouter, HubRun DEF Run
<1>4. ASSUME NEW i \in Instances, Route(i) PROVE TypeOK' /\ HubInv'
  <2>1. UNCHANGED hub
    BY <1>4 DEF Route, Subscription, SendToUser, HandleUserMessage
  <2>2. QED
    BY <1>4, <2>1, TypeRoute DEF HubInv
<1>5. CASE Redis
  <2>1. UNCHANGED hub
    BY <1>5 DEF Redis, ExpireInstances, Refresh, ExpireCount
  <2>2. QED
    BY <1>5, <2>1, TypeRedis DEF HubInv
<1>6. QED
  BY <1>1, <1>2, <1>3, <1>4, <1>5 DEF Next

\* Every variable of the gateway has its type, whatever the connections, the
\* hubs, the messages and Redis do.
THEOREM GatewayTypeOK == Spec => []TypeOK
<1>1. QED
  BY TypeInit, TypeNext, PTL DEF Spec

-----------------------------------------------------------------------------
(* The channels of the hub and its table.                                  *)

\* No client is twice in a channel.
Distinct(ch) == \A m, n \in DOMAIN ch : ch[m] = ch[n] => m = n

\* What a channel holds after a message was put in it.
LEMMA ChannelAppend ==
    ASSUME NEW T, NEW ch \in Seq(T), NEW c \in T
    PROVE  /\ \A d : InChannel(Append(ch, c), d) <=> InChannel(ch, d) \/ d = c
           /\ Distinct(ch) /\ ~ InChannel(ch, c) => Distinct(Append(ch, c))
<1>1. /\ DOMAIN ch = 1 .. Len(ch) /\ DOMAIN Append(ch, c) = 1 .. Len(ch) + 1
      /\ Len(ch) \in Nat /\ Append(ch, c)[Len(ch) + 1] = c
      /\ \A n \in 1 .. Len(ch) : Append(ch, c)[n] = ch[n]
  OBVIOUS
<1>2. 1 .. Len(ch) + 1 = (1 .. Len(ch)) \cup {Len(ch) + 1}
  BY <1>1
<1>3. \A d : InChannel(Append(ch, c), d) <=> InChannel(ch, d) \/ d = c
  BY <1>1, <1>2, Zenon DEF InChannel
<1>4. ASSUME Distinct(ch), ~ InChannel(ch, c) PROVE Distinct(Append(ch, c))
  BY <1>1, <1>4 DEF Distinct, InChannel
<1>5. QED
  BY <1>3, <1>4

\* What it holds after one was taken from it.
LEMMA ChannelTail ==
    ASSUME NEW T, NEW ch \in Seq(T), ch # << >>
    PROVE  /\ Head(ch) \in T /\ Tail(ch) \in Seq(T) /\ InChannel(ch, Head(ch))
           /\ \A d : InChannel(ch, d) <=> InChannel(Tail(ch), d) \/ d = Head(ch)
           /\ Distinct(ch) => Distinct(Tail(ch)) /\ ~ InChannel(Tail(ch), Head(ch))
<1>1. /\ DOMAIN ch = 1 .. Len(ch) /\ DOMAIN Tail(ch) = 1 .. Len(ch) - 1
      /\ Len(ch) \in Nat /\ Len(ch) >= 1 /\ Head(ch) = ch[1]
      /\ \A n \in 1 .. Len(ch) - 1 : Tail(ch)[n] = ch[n + 1]
  OBVIOUS
<1>2. Head(ch) \in T /\ Tail(ch) \in Seq(T)
  OBVIOUS
<1>3. InChannel(ch, Head(ch))
  BY <1>1 DEF InChannel
<1>4. ASSUME NEW d, InChannel(Tail(ch), d) PROVE InChannel(ch, d)
  <2>1. PICK n \in 1 .. Len(ch) - 1 : ch[n + 1] = d
    BY <1>1, <1>4 DEF InChannel
  <2>2. n + 1 \in 1 .. Len(ch)
    BY <1>1
  <2>3. QED
    BY <1>1, <2>1, <2>2 DEF InChannel
<1>5. ASSUME NEW d, InChannel(ch, d), d # Head(ch) PROVE InChannel(Tail(ch), d)
  <2>1. PICK n \in 1 .. Len(ch) : ch[n] = d
    BY <1>1, <1>5 DEF InChannel
  <2>2. n # 1
    BY <1>1, <1>5, <2>1
  <2>3. n - 1 \in 1 .. Len(ch) - 1 /\ Tail(ch)[n - 1] = d
    BY <1>1, <2>1, <2>2
  <2>4. QED
    BY <1>1, <2>3 DEF InChannel
<1>6. ASSUME Distinct(ch) PROVE Distinct(Tail(ch)) /\ ~ InChannel(Tail(ch), Head(ch))
  BY <1>1, <1>6 DEF Distinct, InChannel
<1>7. QED
  BY <1>2, <1>3, <1>4, <1>5, <1>6

\* A client comes into the table only through the channel, and once: one that
\* waits there has never been in the table, and one that was closed does not
\* come back.
TableInv ==
    /\ \A i \in Instances : Distinct(register[i])
    /\ \A i \in Instances, c \in Clients : InChannel(register[i], c) =>
          /\ HostOf[c] = i /\ conn[c] # "none" /\ c \notin clients[i]
    /\ \A i \in Instances, c \in Clients : c \in clients[i] => HostOf[c] = i /\ conn[c] # "none"
    /\ \A c \in Clients :
          /\ closes[c] <= 1
          /\ closes[c] = 1 => /\ c \notin clients[HostOf[c]]
                              /\ ~ InChannel(register[HostOf[c]], c)
                              /\ conn[c] # "none"

\* Steps that leave the channel, the table and the closings alone.
LEMMA TableSame ==
    ASSUME TableInv, UNCHANGED <<register, clients, closes>>,
           \A c \in Clients : conn[c] # "none" => conn'[c] # "none"
    PROVE  TableInv'
BY DEF TableInv

LEMMA TablePump ==
    ASSUME TypeOK, TableInv, NEW c \in Clients, Pump(c)
    PROVE  TableInv'
<1>1. CASE Connect(c)
  <2>1. PICK i \in Instances : i = HostOf[c]
    OBVIOUS
  <2>2. /\ conn[c] = "none" /\ conn'[c] = "open"
        /\ \A d \in Clients : d # c => conn'[d] = conn[d]
    BY <1>1 DEF Connect, TypeOK
  <2>3. /\ register'[i] = Append(register[i], c)
        /\ \A k \in Instances : k # i => register'[k] = register[k]
    BY <1>1, <2>1 DEF Connect, TypeOK
  <2>4. UNCHANGED <<clients, closes>>
    BY <1>1 DEF Connect, tableVars
  <2>5. /\ c \notin clients[i] /\ closes[c] # 1
        /\ \A k \in Instances : ~ InChannel(register[k], c)
    BY <2>2 DEF TableInv
  <2>6. register[i] \in Seq(Clients)
    BY DEF TypeOK
  <2>7. /\ \A d \in Clients : InChannel(register'[i], d) <=> InChannel(register[i], d) \/ d = c
        /\ Distinct(register'[i])
    BY <2>3, <2>5, <2>6, ChannelAppend DEF TableInv
  <2>8. \A k \in Instances : Distinct(register'[k])
    BY <2>3, <2>7 DEF TableInv
  <2>9. ASSUME NEW k \in Instances, NEW d \in Clients, InChannel(register'[k], d)
        PROVE  HostOf[d] = k /\ conn'[d] # "none" /\ d \notin clients'[k]
    <3>1. CASE d = c
      <4>1. k = i
        BY <2>3, <2>5, <2>9, <3>1
      <4>2. QED
        BY <2>1, <2>2, <2>4, <2>5, <3>1, <4>1
    <3>2. CASE d # c
      <4>1. InChannel(register[k], d)
        BY <2>3, <2>7, <2>9, <3>2
      <4>2. QED
        BY <2>2, <2>4, <3>2, <4>1 DEF TableInv
    <3>3. QED
      BY <3>1, <3>2
  <2>10. ASSUME NEW k \in Instances, NEW d \in clients'[k] \cap Clients
         PROVE  HostOf[d] = k /\ conn'[d] # "none"
    BY <2>2, <2>4 DEF TableInv
  <2>11. ASSUME NEW d \in Clients
         PROVE  /\ closes'[d] <= 1
                /\ closes'[d] = 1 => /\ d \notin clients'[HostOf[d]]
                                     /\ ~ InChannel(register'[HostOf[d]], d)
                                     /\ conn'[d] # "none"
    <3>1. CASE d = c
      BY <2>4, <2>5, <3>1 DEF TableInv
    <3>2. CASE d # c
      BY <2>1, <2>2, <2>3, <2>4, <2>7, <3>2 DEF TableInv
    <3>3. QED
      BY <3>1, <3>2
  <2>12. QED
    BY <2>8, <2>9, <2>10, <2>11 DEF TableInv
<1>2. CASE ~ Connect(c)
  <2>1. UNCHANGED <<register, clients, closes>>
    BY <1>2 DEF Pump, ReadMessage, Say, End, Deregister, Write, chanVars, tableVars
  <2>2. \A d \in Clients : conn[d] # "none" => conn'[d] # "none"
    BY <1>2 DEF Pump, ReadMessage, Say, End, Deregister, Write, connVars, TypeOK
  <2>3. QED
    BY <2>1, <2>2, TableSame
<1>3. QED
  BY <1>1, <1>2

\* A client that waits in the channel comes into the table.
LEMMA TableRegister ==
    ASSUME TypeOK, TableInv, NEW i \in Instances, TakeRegister(i)
    PROVE  TableInv'
<1>1. PICK c \in Clients : c = Head(register[i])
  BY ChannelTail DEF TakeRegister, TypeOK
<1>2. /\ register'[i] = Tail(register[i]) /\ clients'[i] = clients[i] \cup {c}
      /\ \A k \in Instances : k # i => register'[k] = register[k] /\ clients'[k] = clients[k]
      /\ UNCHANGED <<closes, conn>>
  BY <1>1 DEF TakeRegister, TypeOK, connVars
<1>3. /\ InChannel(register[i], c) /\ Distinct(register'[i]) /\ ~ InChannel(register'[i], c)
      /\ \A d \in Clients : InChannel(register'[i], d) => InChannel(register[i], d)
  <2>1. register[i] \in Seq(Clients) /\ register[i] # << >> /\ Distinct(register[i])
    BY DEF TakeRegister, TypeOK, TableInv
  <2>2. QED
    BY <1>1, <1>2, <2>1, ChannelTail
<1>4. HostOf[c] = i /\ conn[c] # "none" /\ closes[c] # 1
  BY <1>3 DEF TableInv
<1>5. \A k \in Instances : Distinct(register'[k])
  BY <1>2, <1>3 DEF TableInv
<1>6. ASSUME NEW k \in Instances, NEW d \in Clients, InChannel(register'[k], d)
      PROVE  HostOf[d] = k /\ conn'[d] # "none" /\ d \notin clients'[k]
  BY <1>2, <1>3, <1>6 DEF TableInv
<1>7. ASSUME NEW k \in Instances, NEW d \in clients'[k] \cap Clients
      PROVE  HostOf[d] = k /\ conn'[d] # "none"
  BY <1>2, <1>4 DEF TableInv
<1>8. ASSUME NEW d \in Clients
      PROVE  /\ closes'[d] <= 1
             /\ closes'[d] = 1 => /\ d \notin clients'[HostOf[d]]
                                  /\ ~ InChannel(register'[HostOf[d]], d)
                                  /\ conn'[d] # "none"
  BY <1>2, <1>3, <1>4 DEF TableInv
<1>9. QED
  BY <1>5, <1>6, <1>7, <1>8 DEF TableInv

\* Clients are removed from the table, and the send channels of those that were
\* in it are closed.
LEMMA TableForget ==
    ASSUME TypeOK, TableInv, NEW i \in Instances, NEW S,
           clients' = [clients EXCEPT ![i] = @ \ S],
           \A c \in Clients :
              closes'[c] = IF c \in S \cap clients[i] THEN closes[c] + 1 ELSE closes[c],
           UNCHANGED <<register, conn>>
    PROVE  TableInv'
<1>1. /\ clients'[i] = clients[i] \ S
      /\ \A k \in Instances : k # i => clients'[k] = clients[k]
  BY DEF TypeOK
<1>2. /\ \A k \in Instances : Distinct(register'[k])
      /\ \A k \in Instances, c \in Clients : InChannel(register'[k], c) =>
            HostOf[c] = k /\ conn'[c] # "none" /\ c \notin clients'[k]
      /\ \A k \in Instances, c \in Clients : c \in clients'[k] => HostOf[c] = k /\ conn'[c] # "none"
  BY <1>1 DEF TableInv
<1>3. ASSUME NEW c \in Clients
      PROVE  /\ closes'[c] <= 1
             /\ closes'[c] = 1 => /\ c \notin clients'[HostOf[c]]
                                  /\ ~ InChannel(register'[HostOf[c]], c)
                                  /\ conn'[c] # "none"
  <2>1. closes[c] \in Nat
    BY DEF TypeOK
  <2>2. CASE c \in S \cap clients[i]
    <3>1. HostOf[c] = i /\ conn[c] # "none" /\ closes[c] = 0 /\ ~ InChannel(register[i], c)
      BY <2>1, <2>2 DEF TableInv
    <3>2. QED
      BY <1>1, <2>2, <3>1
  <2>3. CASE c \notin S \cap clients[i]
    BY <1>1, <2>3 DEF TableInv
  <2>4. QED
    BY <2>2, <2>3
<1>4. QED
  BY <1>2, <1>3 DEF TableInv

LEMMA TableRun ==
    ASSUME TypeOK, TableInv, NEW i \in Instances, Run(i)
    PROVE  TableInv'
<1>1. CASE TakeUnregister(i)
  <2>1. PICK c \in Clients : c = Head(unregister[i])
    BY <1>1, ChannelTail DEF TakeUnregister, TypeOK
  <2>2. ForgetClient(i, c) /\ UNCHANGED <<register, conn>>
    BY <1>1, <2>1 DEF TakeUnregister, connVars
  <2>3. \A d \in Clients :
           closes'[d] = IF d \in {c} \cap clients[i] THEN closes[d] + 1 ELSE closes[d]
    BY <2>2 DEF ForgetClient, TypeOK
  <2>4. clients' = [clients EXCEPT ![i] = @ \ {c}]
    BY <2>2 DEF ForgetClient
  <2>5. QED
    BY <2>2, <2>3, <2>4, TableForget
<1>2. CASE CloseStale(i)
  <2>1. UNCHANGED <<register, conn>>
    BY <1>2 DEF CloseStale, connVars, chanVars
  <2>2. /\ clients' = [clients EXCEPT ![i] = @ \ hub[i].who]
        /\ \A d \in Clients :
              closes'[d] = IF d \in hub[i].who \cap clients[i] THEN closes[d] + 1 ELSE closes[d]
    BY <1>2 DEF CloseStale
  <2>3. QED
    BY <2>1, <2>2, TableForget
<1>3. CASE TakeBroadcast(i)
  BY <1>3, TableSame DEF TakeBroadcast, connVars, tableVars
<1>4. CASE Enter(i)
  BY <1>4, TableSame DEF Enter, CountUp, AddConnection, SubscribeToUser, connVars, chanVars,
     tableVars
<1>5. CASE Leave(i)
  BY <1>5, TableSame DEF Leave, CountDown, SubtractConnection, RemoveConnection, connVars,
     chanVars, tableVars
<1>6. QED
  BY <1>1, <1>2, <1>3, <1>4, <1>5, TableRegister DEF Run

\* The router and Redis leave connections, channels and the table alone.
LEMMA RouteKeeps ==
    ASSUME (\E i \in Instances : Route(i)) \/ Redis \/ UNCHANGED vars
    PROVE  /\ UNCHANGED <<connVars, chanVars, tableVars, hub, local, overtaken>>
           /\ faults' = 0 => \/ UNCHANGED <<count, instances>>
                             \/ \E u \in Users : ExpireInstances(u)
                             \/ \E i \in Instances, u \in Users : ExpireCount(i, u)
<1>1. ASSUME NEW i \in Instances, Route(i)
      PROVE  UNCHANGED <<connVars, chanVars, tableVars, hub, local, overtaken, count, instances>>
  BY <1>1 DEF Route, Subscription, SendToUser, HandleUserMessage, redisVars
<1>2. CASE Redis
  BY <1>2 DEF Redis, ExpireInstances, Refresh, ExpireCount
<1>3. CASE UNCHANGED vars
  BY <1>3 DEF vars, connVars, chanVars, tableVars
<1>4. QED
  BY <1>1, <1>2, <1>3

LEMMA TableNext == TypeOK /\ TableInv /\ [Next]_vars => TableInv'
<1> SUFFICES ASSUME TypeOK, TableInv, [Next]_vars PROVE TableInv'
  OBVIOUS
<1>1. CASE (\E i \in Instances : Route(i)) \/ Redis \/ UNCHANGED vars
  <2>1. UNCHANGED <<register, clients, closes, conn>>
    BY <1>1, RouteKeeps DEF connVars, chanVars, tableVars
  <2>2. QED
    BY <2>1, TableSame
<1>2. QED
  BY <1>1, TablePump, TableRun DEF Next

LEMMA TableInit == Init => TableInv
<1> SUFFICES ASSUME Init PROVE TableInv
  OBVIOUS
<1>1. DOMAIN << >> = {}
  OBVIOUS
<1>2. \A c : ~ InChannel(<< >>, c)
  BY <1>1 DEF InChannel
<1>3. Distinct(<< >>)
  BY <1>1 DEF Distinct
<1>4. \A i \in Instances : register[i] = << >> /\ clients[i] = {}
  BY DEF Init
<1>5. \A c \in Clients : closes[c] = 0
  BY DEF Init
<1>6. QED
  BY <1>2, <1>3, <1>4, <1>5 DEF TableInv

\* No send channel is closed twice, by a broadcast and a deregistration, and no
\* hub has a client in its table whose channel is closed: either would panic.
THEOREM GatewayClosedOnce == Spec => []ClosedOnce
<1>1. TableInv => ClosedOnce
  BY DEF TableInv, ClosedOnce
<1>2. TypeOK /\ HubInv /\ TableInv /\ [Next]_vars => TypeOK' /\ HubInv' /\ TableInv'
  BY TypeNext, TableNext
<1>3. QED
  BY <1>1, <1>2, TypeInit, TableInit, PTL DEF Spec

-----------------------------------------------------------------------------
(* The connections of a user.                                              *)

\* A client deregisters once, and unless that has overtaken its registration,
\* it does so after it.
LeaveInv ==
    /\ \A i \in Instances : Distinct(unregister[i])
    /\ \A i \in Instances, c \in Clients : InChannel(unregister[i], c) =>
          HostOf[c] = i /\ conn[c] = "gone"
    /\ ~ overtaken => \A c \in Clients :
          InChannel(register[HostOf[c]], c) /\ conn[c] = "gone"
             => InChannel(unregister[HostOf[c]], c)

\* The hub is at a step of the router's code that is about user u.
About(i, u, at) == hub[i].at = at /\ Subject(i) = u

\* The router counts a connection one step after the hub has taken it up or let
\* it go.
LocalOf(i, u) ==
    /\ IsFiniteSet(Present(i, u))
    /\ local[i][u] = Cardinality(Present(i, u)) - (IF About(i, u, "count-up") THEN 1 ELSE 0)
                         + (IF About(i, u, "count-down") THEN 1 ELSE 0)

LocalInv == ~ overtaken => \A i \in Routed, u \in Users : LocalOf(i, u)

\* Redis follows the router's count.  The keys of a user whose last connection
\* is about to be subtracted may already have expired.
RegistryOf(i, u) ==
    /\ About(i, u, "add") =>
          /\ local[i][u] >= 1 /\ count[i][u] = local[i][u] - 1
          /\ i \in instances[u] <=> local[i][u] > 1
    /\ About(i, u, "subtract") =>
          \/ local[i][u] = 0 /\ count[i][u] \in {0, 1}
          \/ count[i][u] = local[i][u] + 1 /\ i \in instances[u]
    /\ About(i, u, "remove") => local[i][u] = 0
    /\ ~ About(i, u, "add") /\ ~ About(i, u, "subtract") /\ ~ About(i, u, "remove") =>
          /\ count[i][u] = local[i][u]
          /\ i \in instances[u] <=> local[i][u] > 0

RegistryInv == faults = 0 => \A i \in Routed, u \in Users : RegistryOf(i, u)

\* The hub goes on about the client it was about, or one it has taken.
LEMMA Goes ==
    ASSUME TypeOK, NEW i \in Instances, NEW at, NEW c \in Clients, HubNext(i, at, {c})
    PROVE  \A u, a : About(i, u, a)' <=> a = at /\ u = UserOf[c]
<1>1. hub'[i] = [at |-> at, who |-> {c}]
  BY DEF TypeOK, HubNext
<1>2. \A d \in Clients : hub'[i].who = {d} <=> d = c
  BY <1>1
<1>3. (CHOOSE d \in Clients : hub'[i].who = {d}) = c
  BY <1>2
<1>4. QED
  BY <1>1, <1>3 DEF About, Subject

\* The hub goes back to its channels, or closes clients.
LEMMA Rests ==
    ASSUME TypeOK, NEW i \in Instances, NEW at, NEW who, HubNext(i, at, who),
           at \notin RouterSteps
    PROVE  \A u, a : a \in RouterSteps => ~ About(i, u, a)'
<1>1. hub'[i] = [at |-> at, who |-> who]
  BY DEF TypeOK, HubNext
<1>2. QED
  BY <1>1 DEF About

\* Whom the hub is about at a step.
LEMMA IsAbout ==
    ASSUME NEW i \in Instances, NEW at, hub[i].at = at, NEW c \in Clients, hub[i].who = {c}
    PROVE  \A u, a : About(i, u, a) <=> a = at /\ u = UserOf[c]
BY SubjectIs DEF About

\* A step of a hub leaves what the others keep.
LEMMA OtherHubs ==
    ASSUME TypeOK, HubInv, NEW i \in Instances, Run(i), NEW k \in Instances, k # i,
           NEW u \in Users
    PROVE  /\ Present(k, u)' = Present(k, u)
           /\ \A a : About(k, u, a)' <=> About(k, u, a)
           /\ local'[k] = local[k] /\ count'[k] = count[k]
           /\ k \in instances'[u] <=> k \in instances[u]
<1>1. UNCHANGED hub \/ \E at, who : HubNext(i, at, who)
  BY DEF Run, Enter, Leave, TakeRegister, TakeUnregister, TakeBroadcast, CloseStale, CountUp,
     AddConnection, SubscribeToUser, CountDown, SubtractConnection, RemoveConnection
<1>2. hub'[k] = hub[k]
  BY <1>1 DEF HubNext, TypeOK
<1>3. register'[k] = register[k] /\ unregister'[k] = unregister[k] /\ UNCHANGED conn
  <2>1. CASE TakeRegister(i)
    BY <2>1 DEF TakeRegister, TypeOK, connVars
  <2>2. CASE TakeUnregister(i)
    BY <2>2 DEF TakeUnregister, TypeOK, connVars
  <2>3. CASE TakeBroadcast(i) \/ CloseStale(i)
    BY <2>3 DEF TakeBroadcast, CloseStale, connVars, chanVars
  <2>4. CASE Enter(i) \/ Leave(i)
    BY <2>4 DEF Enter, Leave, CountUp, AddConnection, SubscribeToUser, CountDown,
       SubtractConnection, RemoveConnection, connVars, chanVars
  <2>5. QED
    BY <2>1, <2>2, <2>3, <2>4 DEF Run
<1>4. local'[k] = local[k]
  BY DEF Run, Enter, Leave, TakeRegister, TakeUnregister, TakeBroadcast, CloseStale, CountUp,
     AddConnection, SubscribeToUser, CountDown, SubtractConnection, RemoveConnection, TypeOK
<1>5. count'[k] = count[k] /\ (k \in instances'[u] <=> k \in instances[u])
  <2>1. CASE UNCHANGED <<count, instances>>
    BY <2>1
  <2>2. CASE AddConnection(i)
    <3>1. count' \in {count, [count EXCEPT ![i][Subject(i)] = @ + 1]}
      BY <2>2 DEF AddConnection
    <3>2. instances' \in {instances, [instances EXCEPT ![Subject(i)] = @ \cup {i}]}
      BY <2>2 DEF AddConnection
    <3>3. count'[k] = count[k]
      BY <3>1 DEF TypeOK
    <3>4. instances'[u] \in {instances[u], instances[u] \cup {i}}
      BY <3>2 DEF TypeOK
    <3>5. QED
      BY <3>3, <3>4
  <2>3. CASE SubtractConnection(i)
    <3>1. count' \in {count, [count EXCEPT ![i][Subject(i)] = count[i][Subject(i)] - 1]}
      BY <2>3 DEF SubtractConnection
    <3>2. UNCHANGED instances
      BY <2>3 DEF SubtractConnection
    <3>3. QED
      BY <3>1, <3>2 DEF TypeOK
  <2>4. CASE RemoveConnection(i)
    <3>1. count' \in {count, [count EXCEPT ![i][Subject(i)] = 0]}
      BY <2>4 DEF RemoveConnection
    <3>2. instances' \in {instances, [instances EXCEPT ![Subject(i)] = @ \ {i}]}
      BY <2>4 DEF RemoveConnection
    <3>3. count'[k] = count[k]
      BY <3>1 DEF TypeOK
    <3>4. instances'[u] \in {instances[u], instances[u] \ {i}}
      BY <3>2 DEF TypeOK
    <3>5. QED
      BY <3>3, <3>4
  <2>5. QED
    BY <2>1, <2>2, <2>3, <2>4 DEF Run, Enter, Leave, TakeRegister, TakeUnregister,
       TakeBroadcast, CloseStale, CountUp, SubscribeToUser, CountDown, redisVars
<1>6. QED
  BY <1>2, <1>3, <1>4, <1>5 DEF About, Subject, Present

\* The channel of deregistrations and its clients.
LEMMA LeaveSame ==
    ASSUME LeaveInv, UNCHANGED <<unregister, overtaken>>,
           \A c \in Clients : conn'[c] = "gone" <=> conn[c] = "gone",
           \A i \in Instances, c \in Clients :
              InChannel(register'[i], c) /\ conn[c] = "gone" => InChannel(register[i], c)
    PROVE  LeaveInv'
BY DEF LeaveInv

LEMMA LeavePump ==
    ASSUME TypeOK, LeaveInv, NEW c \in Clients, Pump(c)
    PROVE  LeaveInv'
<1>1. CASE Deregister(c)
  <2>1. PICK i \in Instances : i = HostOf[c]
    OBVIOUS
  <2>2. /\ conn[c] = "ended" /\ conn'[c] = "gone"
        /\ \A d \in Clients : d # c => conn'[d] = conn[d]
    BY <1>1 DEF Deregister, TypeOK
  <2>3. /\ unregister'[i] = Append(unregister[i], c)
        /\ \A k \in Instances : k # i => unregister'[k] = unregister[k]
        /\ UNCHANGED <<register, overtaken>>
    BY <1>1, <2>1 DEF Deregister, TypeOK
  <2>4. unregister[i] \in Seq(Clients) /\ ~ InChannel(unregister[i], c)
    BY <2>2 DEF TypeOK, LeaveInv
  <2>5. /\ \A d \in Clients : InChannel(unregister'[i], d) <=> InChannel(unregister[i], d) \/ d = c
        /\ Distinct(unregister'[i])
    BY <2>3, <2>4, ChannelAppend DEF LeaveInv
  <2>6. \A k \in Instances : Distinct(unregister'[k])
    BY <2>3, <2>5 DEF LeaveInv
  <2>7. ASSUME NEW k \in Instances, NEW d \in Clients, InChannel(unregister'[k], d)
        PROVE  HostOf[d] = k /\ conn'[d] = "gone"
    <3>1. CASE k = i
      BY <2>1, <2>2, <2>5, <2>7, <3>1 DEF LeaveInv
    <3>2. CASE k # i
      BY <2>2, <2>3, <2>7, <3>2 DEF LeaveInv
    <3>3. QED
      BY <3>1, <3>2
  <2>8. ASSUME ~ overtaken', NEW d \in Clients, InChannel(register'[HostOf[d]], d), conn'[d] = "gone"
        PROVE  InChannel(unregister'[HostOf[d]], d)
    <3>1. CASE d = c
      BY <2>1, <2>5, <3>1
    <3>2. CASE d # c
      <4>1. InChannel(unregister[HostOf[d]], d)
        BY <2>2, <2>3, <2>8, <3>2 DEF LeaveInv
      <4>2. QED
        BY <2>3, <2>5, <4>1
    <3>3. QED
      BY <3>1, <3>2
  <2>9. QED
    BY <2>6, <2>7, <2>8 DEF LeaveInv
<1>2. CASE Connect(c)
  <2>1. \A d \in Clients : conn'[d] = "gone" <=> conn[d] = "gone"
    BY <1>2 DEF Connect, TypeOK
  <2>2. ASSUME NEW i \in Instances, NEW d \in Clients, InChannel(register'[i], d),
               conn[d] = "gone"
        PROVE  InChannel(register[i], d)
    <3>1. d # c /\ register[i] \in Seq(Clients)
      BY <1>2, <2>2 DEF Connect, TypeOK
    <3>2. register'[i] \in {register[i], Append(register[i], c)}
      BY <1>2 DEF Connect, TypeOK
    <3>3. InChannel(Append(register[i], c), d) <=> InChannel(register[i], d) \/ d = c
      BY <3>1, ChannelAppend
    <3>4. QED
      BY <2>2, <3>1, <3>2, <3>3
  <2>3. UNCHANGED <<unregister, overtaken>>
    BY <1>2 DEF Connect
  <2>4. QED
    BY <2>1, <2>2, <2>3, LeaveSame
<1>3. CASE ~ Connect(c) /\ ~ Deregister(c)
  <2>1. UNCHANGED <<register, unregister, overtaken>>
    BY <1>3 DEF Pump, ReadMessage, Say, End, Write, chanVars
  <2>2. \A d \in Clients : conn'[d] = "gone" <=> conn[d] = "gone"
    BY <1>3 DEF Pump, ReadMessage, Say, End, Write, connVars, TypeOK
  <2>3. QED
    BY <2>1, <2>2, LeaveSame
<1>4. QED
  BY <1>1, <1>2, <1>3

LEMMA LeaveRun ==
    ASSUME TypeOK, LeaveInv, NEW i \in Instances, Run(i)
    PROVE  LeaveInv'
<1>1. CASE TakeUnregister(i)
  <2>1. unregister[i] \in Seq(Clients) /\ unregister[i] # << >> /\ Distinct(unregister[i])
    BY <1>1 DEF TakeUnregister, TypeOK, LeaveInv
  <2>2. PICK c \in Clients : c = Head(unregister[i])
    BY <2>1, ChannelTail
  <2>3. /\ unregister'[i] = Tail(unregister[i])
        /\ \A k \in Instances : k # i => unregister'[k] = unregister[k]
        /\ UNCHANGED <<register, conn>>
        /\ ~ overtaken' => ~ overtaken /\ ~ InChannel(register[i], c)
    BY <1>1, <2>2 DEF TakeUnregister, TypeOK, connVars
  <2>4. /\ Distinct(unregister'[i])
        /\ \A d \in Clients :
              InChannel(unregister[i], d) <=> InChannel(unregister'[i], d) \/ d = c
    BY <2>1, <2>2, <2>3, ChannelTail
  <2>5. /\ \A k \in Instances : Distinct(unregister'[k])
        /\ \A k \in Instances, d \in Clients : InChannel(unregister'[k], d) =>
              HostOf[d] = k /\ conn'[d] = "gone"
    BY <2>3, <2>4 DEF LeaveInv
  <2>6. ASSUME ~ overtaken', NEW d \in Clients, InChannel(register'[HostOf[d]], d), conn'[d] = "gone"
        PROVE  InChannel(unregister'[HostOf[d]], d)
    <3>1. InChannel(unregister[HostOf[d]], d)
      BY <2>3, <2>6 DEF LeaveInv
    <3>2. CASE HostOf[d] = i
      BY <2>3, <2>4, <2>6, <3>1, <3>2
    <3>3. CASE HostOf[d] # i
      BY <2>3, <3>1, <3>3
    <3>4. QED
      BY <3>2, <3>3
  <2>7. QED
    BY <2>5, <2>6 DEF LeaveInv
<1>2. CASE TakeRegister(i)
  <2>1. register[i] \in Seq(Clients) /\ register[i] # << >>
    BY <1>2 DEF TakeRegister, TypeOK
  <2>2. /\ register'[i] = Tail(register[i])
        /\ \A k \in Instances : k # i => register'[k] = register[k]
        /\ UNCHANGED <<unregister, overtaken, conn>>
    BY <1>2 DEF TakeRegister, TypeOK, connVars
  <2>3. \A k \in Instances, d \in Clients : InChannel(register'[k], d) => InChannel(register[k], d)
    BY <2>1, <2>2, ChannelTail
  <2>4. QED
    BY <2>2, <2>3, LeaveSame
<1>3. CASE ~ TakeRegister(i) /\ ~ TakeUnregister(i)
  <2>1. UNCHANGED <<register, unregister, overtaken, conn>>
    BY <1>3 DEF Run, Enter, Leave, TakeBroadcast, CloseStale, CountUp, AddConnection,
       SubscribeToUser, CountDown, SubtractConnection, RemoveConnection, connVars, chanVars
  <2>2. QED
    BY <2>1, LeaveSame
<1>4. QED
  BY <1>1, <1>2, <1>3

\* Readers and writers leave the connections of a user as they are: one that
\* enters waits to be registered, and one that has left to be deregistered.
LEMMA PresentPump ==
    ASSUME TypeOK, LeaveInv, NEW c \in Clients, Pump(c), NEW i \in Instances, NEW u \in Users
    PROVE  Present(i, u)' = Present(i, u)
<1>1. CASE Connect(c)
  <2>1. /\ conn[c] = "none" /\ conn'[c] = "open"
        /\ \A d \in Clients : d # c => conn'[d] = conn[d]
        /\ UNCHANGED unregister
    BY <1>1 DEF Connect, TypeOK
  <2>2. register'[HostOf[c]] = Append(register[HostOf[c]], c)
    BY <1>1 DEF Connect, TypeOK
  <2>3. register'[i] \in {register[i], Append(register[i], c)} /\ register[i] \in Seq(Clients)
    BY <1>1 DEF Connect, TypeOK
  <2>a. \A d : InChannel(Append(register[i], c), d) <=> InChannel(register[i], d) \/ d = c
    BY <2>3, ChannelAppend
  <2>4. \A d \in Clients : d # c => (InChannel(register'[i], d) <=> InChannel(register[i], d))
    <3>1. CASE register'[i] = register[i]
      BY <3>1
    <3>2. CASE register'[i] = Append(register[i], c)
      BY <2>a, <3>2
    <3>3. QED
      BY <2>3, <3>1, <3>2
  <2>5. HostOf[c] = i => InChannel(register'[i], c)
    BY <2>2, <2>a
  <2>6. c \notin Present(i, u) /\ c \notin Present(i, u)'
    BY <2>1, <2>5 DEF Present
  <2>7. \A d \in Clients : d # c => (d \in Present(i, u)' <=> d \in Present(i, u))
    BY <2>1, <2>4 DEF Present
  <2>8. QED
    BY <2>6, <2>7 DEF Present
<1>2. CASE Deregister(c)
  <2>1. /\ conn[c] = "ended" /\ conn'[c] = "gone"
        /\ \A d \in Clients : d # c => conn'[d] = conn[d]
        /\ UNCHANGED register
    BY <1>2 DEF Deregister, TypeOK
  <2>2. unregister'[HostOf[c]] = Append(unregister[HostOf[c]], c)
    BY <1>2 DEF Deregister, TypeOK
  <2>3. unregister'[i] \in {unregister[i], Append(unregister[i], c)} /\ unregister[i] \in Seq(Clients)
    BY <1>2 DEF Deregister, TypeOK
  <2>a. \A d : InChannel(Append(unregister[i], c), d) <=> InChannel(unregister[i], d) \/ d = c
    BY <2>3, ChannelAppend
  <2>4. \A d \in Clients : d # c => (InChannel(unregister'[i], d) <=> InChannel(unregister[i], d))
    <3>1. CASE unregister'[i] = unregister[i]
      BY <3>1
    <3>2. CASE unregister'[i] = Append(unregister[i], c)
      BY <2>a, <3>2
    <3>3. QED
      BY <2>3, <3>1, <3>2
  <2>5. HostOf[c] = i => InChannel(unregister'[i], c)
    BY <2>2, <2>a
  <2>6. c \in Present(i, u)' <=> c \in Present(i, u)
    BY <2>1, <2>5 DEF Present
  <2>7. \A d \in Clients : d # c => (d \in Present(i, u)' <=> d \in Present(i, u))
    BY <2>1, <2>4 DEF Present
  <2>8. QED
    BY <2>6, <2>7 DEF Present
<1>3. CASE ~ Connect(c) /\ ~ Deregister(c)
  <2>1. UNCHANGED <<register, unregister>>
    BY <1>3 DEF Pump, ReadMessage, Say, End, Write, chanVars
  <2>2. \A d \in Clients : /\ conn'[d] = "none" <=> conn[d] = "none"
                           /\ conn'[d] = "gone" <=> conn[d] = "gone"
    BY <1>3 DEF Pump, ReadMessage, Say, End, Write, connVars, TypeOK
  <2>3. QED
    BY <2>1, <2>2 DEF Present
<1>4. QED
  BY <1>1, <1>2, <1>3

\* One more, or one less, of what is counted.
LEMMA CountMore ==
    ASSUME NEW S, NEW x, IsFiniteSet(S), x \notin S, NEW S2, NEW p \in BOOLEAN,
           S2 = IF p THEN S \cup {x} ELSE S
    PROVE  /\ IsFiniteSet(S2) /\ Cardinality(S) \in Nat
           /\ Cardinality(S2) = Cardinality(S) + (IF p THEN 1 ELSE 0)
<1>1. Cardinality(S) \in Nat
  BY FS_CardinalityType
<1>2. CASE p
  BY <1>1, <1>2, FS_AddElement
<1>3. CASE ~ p
  BY <1>1, <1>3
<1>4. QED
  BY <1>2, <1>3

LEMMA CountLess ==
    ASSUME NEW S, NEW x, IsFiniteSet(S), NEW S2, NEW p \in BOOLEAN, p <=> x \in S,
           S2 = S \ {x}
    PROVE  /\ IsFiniteSet(S2) /\ Cardinality(S) \in Nat /\ Cardinality(S2) \in Nat
           /\ Cardinality(S2) = Cardinality(S) - (IF p THEN 1 ELSE 0)
<1>1. Cardinality(S) \in Nat
  BY FS_CardinalityType
<1>2. CASE p
  <2>1. IsFiniteSet(S2) /\ Cardinality(S2) = Cardinality(S) - 1
    BY <1>2, FS_RemoveElement
  <2>2. QED
    BY <1>1, <1>2, <2>1, FS_CardinalityType
<1>3. CASE ~ p
  <2>1. S2 = S
    BY <1>3
  <2>2. QED
    BY <1>1, <1>3, <2>1
<1>4. QED
  BY <1>2, <1>3

\* What the hub's goroutine does to the connections of the users of its
\* instance and to the router's count of them.
LEMMA LocalOwn ==
    ASSUME TypeOK, HubInv, TableInv, LeaveInv, LocalInv, NEW i \in Routed, Run(i),
           ~ overtaken, ~ overtaken', NEW u \in Users
    PROVE  LocalOf(i, u)'
<1>i. i \in Instances
  OBVIOUS
<1>b. LocalOf(i, u)
  BY DEF LocalInv
<1>1. CASE TakeRegister(i)
  <2>1. register[i] \in Seq(Clients) /\ register[i] # << >> /\ Distinct(register[i])
    BY <1>1 DEF TakeRegister, TypeOK, TableInv
  <2>2. PICK c \in Clients : c = Head(register[i])
    BY <2>1, ChannelTail
  <2>3. /\ register'[i] = Tail(register[i]) /\ HubNext(i, "count-up", {c})
        /\ UNCHANGED <<conn, unregister, local>>
    BY <1>1, <2>2 DEF TakeRegister, TypeOK, connVars
  <2>4. /\ InChannel(register[i], c) /\ ~ InChannel(register'[i], c)
        /\ \A d \in Clients : d # c => (InChannel(register'[i], d) <=> InChannel(register[i], d))
    BY <2>1, <2>2, <2>3, ChannelTail
  <2>5. HostOf[c] = i /\ conn[c] # "none" /\ (conn[c] = "gone" => InChannel(unregister[i], c))
    BY <2>4 DEF TableInv, LeaveInv
  <2>6. PICK isU \in BOOLEAN : isU <=> u = UserOf[c]
    OBVIOUS
  <2>7. /\ c \notin Present(i, u)
        /\ Present(i, u)' = IF isU THEN Present(i, u) \cup {c} ELSE Present(i, u)
    BY <2>3, <2>4, <2>5, <2>6 DEF Present
  <2>8. /\ IsFiniteSet(Present(i, u)') /\ Cardinality(Present(i, u)) \in Nat
        /\ Cardinality(Present(i, u)') = Cardinality(Present(i, u)) + (IF isU THEN 1 ELSE 0)
    <3>1. IsFiniteSet(Present(i, u))
      BY <1>b DEF LocalOf
    <3>2. QED
      BY <2>7, <3>1, CountMore
  <2>9. ~ About(i, u, "count-up") /\ ~ About(i, u, "count-down")
    BY <1>1 DEF TakeRegister, HubAt, About
  <2>10. (About(i, u, "count-up")' <=> isU) /\ ~ About(i, u, "count-down")'
    BY <1>i, <2>3, <2>6, Goes
  <2>11. local[i][u] = Cardinality(Present(i, u)) - 0 + 0
    BY <1>b, <2>9 DEF LocalOf
  <2>12. QED
    BY <2>3, <2>8, <2>10, <2>11 DEF LocalOf
<1>2. CASE TakeUnregister(i)
  <2>1. unregister[i] \in Seq(Clients) /\ unregister[i] # << >> /\ Distinct(unregister[i])
    BY <1>2 DEF TakeUnregister, TypeOK, LeaveInv
  <2>2. PICK c \in Clients : c = Head(unregister[i])
    BY <2>1, ChannelTail
  <2>3. /\ unregister'[i] = Tail(unregister[i]) /\ HubNext(i, "count-down", {c})
        /\ UNCHANGED <<conn, register, local>> /\ ~ InChannel(register[i], c)
    BY <1>2, <2>2 DEF TakeUnregister, TypeOK, connVars
  <2>4. /\ InChannel(unregister[i], c) /\ ~ InChannel(unregister'[i], c)
        /\ \A d \in Clients : d # c => (InChannel(unregister'[i], d) <=> InChannel(unregister[i], d))
    BY <2>1, <2>2, <2>3, ChannelTail
  <2>5. HostOf[c] = i /\ conn[c] = "gone"
    BY <2>4 DEF LeaveInv
  <2>6. PICK isU \in BOOLEAN : isU <=> u = UserOf[c]
    OBVIOUS
  <2>7. /\ isU <=> c \in Present(i, u)
        /\ Present(i, u)' = Present(i, u) \ {c}
    BY <2>3, <2>4, <2>5, <2>6 DEF Present
  <2>8. /\ IsFiniteSet(Present(i, u)') /\ Cardinality(Present(i, u)) \in Nat
        /\ Cardinality(Present(i, u)') = Cardinality(Present(i, u)) - (IF isU THEN 1 ELSE 0)
    <3>1. IsFiniteSet(Present(i, u))
      BY <1>b DEF LocalOf
    <3>2. QED
      BY <2>7, <3>1, CountLess
  <2>9. ~ About(i, u, "count-up") /\ ~ About(i, u, "count-down")
    BY <1>2 DEF TakeUnregister, HubAt, About
  <2>10. (About(i, u, "count-down")' <=> isU) /\ ~ About(i, u, "count-up")'
    BY <1>i, <2>3, <2>6, Goes
  <2>11. local[i][u] = Cardinality(Present(i, u)) - 0 + 0
    BY <1>b, <2>9 DEF LocalOf
  <2>12. QED
    BY <2>3, <2>8, <2>10, <2>11 DEF LocalOf
<1>p. ASSUME ~ TakeRegister(i), ~ TakeUnregister(i)
      PROVE  Present(i, u)' = Present(i, u)
  <2>1. UNCHANGED <<conn, register, unregister>>
    BY <1>p DEF Run, Enter, Leave, TakeBroadcast, CloseStale, CountUp, AddConnection,
       SubscribeToUser, CountDown, SubtractConnection, RemoveConnection, connVars, chanVars
  <2>2. QED
    BY <2>1 DEF Present
<1>n. IsFiniteSet(Present(i, u)) /\ Cardinality(Present(i, u)) \in Nat
  BY <1>b, FS_CardinalityType DEF LocalOf
<1>h. ASSUME hub[i].at \in RouterSteps
      PROVE  \E c \in Clients : /\ hub[i].who = {c} /\ Subject(i) = UserOf[c]
                                 /\ \A a : About(i, u, a) <=> a = hub[i].at /\ u = UserOf[c]
  BY <1>i, <1>h, SubjectIs DEF HubInv, About
<1>3. CASE CountUp(i)
  <2>1. PICK c \in Clients :
           /\ hub[i].who = {c} /\ Subject(i) = UserOf[c]
           /\ \A a : About(i, u, a) <=> a = hub[i].at /\ u = UserOf[c]
    BY <1>3, <1>h DEF CountUp, HubAt, RouterSteps
  <2>2. /\ hub[i].at = "count-up" /\ local' = [local EXCEPT ![i][UserOf[c]] = @ + 1]
        /\ HubNext(i, "add", {c})
    BY <1>3, <2>1 DEF CountUp, HubAt
  <2>3. ~ About(i, u, "count-up")' /\ ~ About(i, u, "count-down")'
    BY <1>i, <2>2, Goes
  <2>4. local'[i][u] = IF u = UserOf[c] THEN local[i][u] + 1 ELSE local[i][u]
    BY <1>i, <2>2 DEF TypeOK
  <2>5. local[i][u] = Cardinality(Present(i, u)) - (IF u = UserOf[c] THEN 1 ELSE 0)
    BY <1>b, <1>n, <2>1, <2>2 DEF LocalOf
  <2>6. Present(i, u)' = Present(i, u)
    BY <1>3, <1>p DEF CountUp, TakeRegister, TakeUnregister, HubAt
  <2>7. local'[i][u] = Cardinality(Present(i, u)')
    BY <1>n, <2>4, <2>5, <2>6
  <2>8. QED
    BY <1>n, <2>3, <2>6, <2>7 DEF LocalOf
<1>4. CASE CountDown(i)
  <2>1. PICK c \in Clients :
           /\ hub[i].who = {c} /\ Subject(i) = UserOf[c]
           /\ \A a : About(i, u, a) <=> a = hub[i].at /\ u = UserOf[c]
    BY <1>4, <1>h DEF CountDown, HubAt, RouterSteps
  <2>2. /\ hub[i].at = "count-down" /\ local' = [local EXCEPT ![i][UserOf[c]] = Lowered(@)]
        /\ HubNext(i, "subtract", {c})
    BY <1>4, <2>1 DEF CountDown, HubAt
  <2>3. ~ About(i, u, "count-up")' /\ ~ About(i, u, "count-down")'
    BY <1>i, <2>2, Goes
  <2>4. local'[i][u] = IF u = UserOf[c] THEN Lowered(local[i][u]) ELSE local[i][u]
    BY <1>i, <2>2 DEF TypeOK
  <2>5. local[i][u] = Cardinality(Present(i, u)) + (IF u = UserOf[c] THEN 1 ELSE 0)
    BY <1>b, <1>n, <2>1, <2>2 DEF LocalOf
  <2>6. Present(i, u)' = Present(i, u)
    BY <1>4, <1>p DEF CountDown, TakeRegister, TakeUnregister, HubAt
  <2>7. local'[i][u] = Cardinality(Present(i, u)')
    BY <1>n, <2>4, <2>5, <2>6 DEF Lowered
  <2>8. QED
    BY <1>n, <2>3, <2>6, <2>7 DEF LocalOf
<1>5. CASE /\ ~ TakeRegister(i) /\ ~ TakeUnregister(i) /\ ~ CountUp(i) /\ ~ CountDown(i)
  <2>1. UNCHANGED local /\ hub[i].at \notin {"count-up", "count-down"}
    BY <1>5 DEF Run, Enter, Leave, TakeBroadcast, CloseStale, AddConnection, SubscribeToUser,
       SubtractConnection, RemoveConnection, HubAt
  <2>2. \/ UNCHANGED hub
        \/ \E at, who : HubNext(i, at, who) /\ at \notin {"count-up", "count-down"}
    BY <1>5 DEF Run, Enter, Leave, TakeBroadcast, CloseStale, AddConnection, SubscribeToUser,
       SubtractConnection, RemoveConnection
  <2>3. hub'[i].at \notin {"count-up", "count-down"}
    BY <1>i, <2>1, <2>2 DEF HubNext, TypeOK
  <2>4. Present(i, u)' = Present(i, u)
    BY <1>5, <1>p
  <2>5. /\ ~ About(i, u, "count-up") /\ ~ About(i, u, "count-down")
        /\ ~ About(i, u, "count-up")' /\ ~ About(i, u, "count-down")'
    BY <2>1, <2>3 DEF About
  <2>6. QED
    BY <1>b, <2>1, <2>4, <2>5 DEF LocalOf
<1>6. QED
  BY <1>1, <1>2, <1>3, <1>4, <1>5

LEMMA LocalNext ==
    TypeOK /\ HubInv /\ TableInv /\ LeaveInv /\ LocalInv /\ [Next]_vars => LocalInv'
<1> SUFFICES ASSUME TypeOK, HubInv, TableInv, LeaveInv, LocalInv, [Next]_vars, ~ overtaken',
                    NEW i \in Routed, NEW u \in Users
             PROVE  LocalOf(i, u)'
  BY DEF LocalInv
<1>i. i \in Instances
  OBVIOUS
<1>0. ASSUME ~ overtaken, Present(i, u)' = Present(i, u), local'[i] = local[i],
             \A a : About(i, u, a)' <=> About(i, u, a)
      PROVE  LocalOf(i, u)'
  BY <1>0 DEF LocalInv, LocalOf
<1>1. CASE (\E k \in Instances : Route(k)) \/ Redis \/ UNCHANGED vars
  <2>1. UNCHANGED <<conn, register, unregister, hub, local, overtaken>>
    BY <1>1, RouteKeeps DEF connVars, chanVars
  <2>2. QED
    BY <1>0, <2>1 DEF Present, About, Subject
<1>2. ASSUME NEW c \in Clients, Pump(c) PROVE LocalOf(i, u)'
  <2>1. UNCHANGED <<hub, local, overtaken>>
    BY <1>2 DEF Pump, Connect, ReadMessage, Say, End, Deregister, Write
  <2>2. Present(i, u)' = Present(i, u)
    BY <1>i, <1>2, PresentPump
  <2>3. QED
    BY <1>0, <2>1, <2>2 DEF About, Subject
<1>3. ASSUME NEW k \in Instances, Run(k) PROVE LocalOf(i, u)'
  <2>1. ~ overtaken
    BY <1>3 DEF Run, Enter, Leave, TakeRegister, TakeUnregister, TakeBroadcast, CloseStale,
       CountUp, AddConnection, SubscribeToUser, CountDown, SubtractConnection, RemoveConnection
  <2>2. QED
    BY <1>0, <1>i, <1>3, <2>1, LocalOwn, OtherHubs
<1>4. QED
  BY <1>1, <1>2, <1>3 DEF Next

\* No command of Redis has failed before one that has not.
LEMMA FaultsStay == TypeOK /\ [Next]_vars /\ faults' = 0 => faults = 0
<1> SUFFICES ASSUME TypeOK, [Next]_vars, faults' = 0 PROVE faults = 0
  OBVIOUS
<1>1. faults \in Nat
  BY DEF TypeOK
<1>2. CASE UNCHANGED faults
  BY <1>2
<1>3. ASSUME NEW c \in Clients, Pump(c) PROVE UNCHANGED faults
  BY <1>3 DEF Pump, Connect, ReadMessage, Say, End, Deregister, Write, redisVars
<1>4. ASSUME NEW i \in Instances, Run(i) PROVE faults = 0
  <2>1. CASE Enter(i) \/ Leave(i)
    BY <1>1, <2>1 DEF Enter, Leave, CountUp, AddConnection, SubscribeToUser, CountDown,
       SubtractConnection, RemoveConnection, redisVars, Fault, NoFault
  <2>2. CASE UNCHANGED redisVars
    BY <2>2 DEF redisVars
  <2>3. QED
    BY <1>4, <2>1, <2>2 DEF Run, TakeRegister, TakeUnregister, TakeBroadcast, CloseStale
<1>5. ASSUME NEW i \in Instances, Route(i) PROVE faults = 0
  BY <1>1, <1>5 DEF Route, Subscription, SendToUser, HandleUserMessage, redisVars, Fault, NoFault
<1>6. CASE Redis
  BY <1>6 DEF Redis, ExpireInstances, Refresh, ExpireCount
<1>7. QED
  BY <1>2, <1>3, <1>4, <1>5, <1>6 DEF Next, vars

\* What the hub's goroutine does to the registry's entry of a user.
LEMMA RegistryOwn ==
    ASSUME TypeOK, HubInv, NEW i \in Routed, Run(i), faults = 0, faults' = 0, NEW u \in Users,
           RegistryOf(i, u)
    PROVE  RegistryOf(i, u)'
<1>i. i \in Instances
  OBVIOUS
<1>n. local[i][u] \in Nat /\ count[i][u] \in Int
  BY <1>i DEF TypeOK
<1>0. ASSUME UNCHANGED <<local, count, instances>>,
             hub[i].at \notin {"add", "subtract", "remove"},
             hub'[i].at \notin {"add", "subtract", "remove"}
      PROVE  RegistryOf(i, u)'
  <2>1. /\ ~ About(i, u, "add") /\ ~ About(i, u, "subtract") /\ ~ About(i, u, "remove")
        /\ ~ About(i, u, "add")' /\ ~ About(i, u, "subtract")' /\ ~ About(i, u, "remove")'
    BY <1>0 DEF About
  <2>2. QED
    BY <1>0, <2>1 DEF RegistryOf
<1>a. ASSUME NEW at, NEW who, HubNext(i, at, who) PROVE hub'[i].at = at
  BY <1>i, <1>a DEF HubNext, TypeOK
<1>1. CASE TakeRegister(i) \/ TakeUnregister(i) \/ TakeBroadcast(i) \/ CloseStale(i)
           \/ SubscribeToUser(i)
  <2>1. /\ UNCHANGED <<local, count, instances>>
        /\ hub[i].at \notin {"add", "subtract", "remove"}
    BY <1>1 DEF TakeRegister, TakeUnregister, TakeBroadcast, CloseStale, SubscribeToUser,
       redisVars, HubAt
  <2>2. \/ UNCHANGED hub
        \/ \E at, who : HubNext(i, at, who) /\ at \notin {"add", "subtract", "remove"}
    BY <1>1 DEF TakeRegister, TakeUnregister, TakeBroadcast, CloseStale, SubscribeToUser
  <2>3. hub'[i].at \notin {"add", "subtract", "remove"}
    BY <1>a, <2>1, <2>2
  <2>4. QED
    BY <1>0, <2>1, <2>3
<1>2. ASSUME Enter(i) \/ Leave(i)
      PROVE  \E c \in Clients : /\ hub[i].who = {c} /\ Subject(i) = UserOf[c]
                                 /\ \A a : About(i, u, a) <=> a = hub[i].at /\ u = UserOf[c]
  <2>1. hub[i].at \in RouterSteps
    BY <1>2 DEF Enter, Leave, CountUp, AddConnection, SubscribeToUser, CountDown,
       SubtractConnection, RemoveConnection, HubAt, RouterSteps
  <2>2. QED
    BY <1>i, <2>1, SubjectIs DEF HubInv, About
<1>3. CASE CountUp(i)
  <2>1. PICK c \in Clients :
           /\ hub[i].who = {c} /\ Subject(i) = UserOf[c]
           /\ \A a : About(i, u, a) <=> a = hub[i].at /\ u = UserOf[c]
    BY <1>2, <1>3 DEF Enter
  <2>2. /\ hub[i].at = "count-up" /\ local' = [local EXCEPT ![i][UserOf[c]] = @ + 1]
        /\ HubNext(i, "add", {c}) /\ UNCHANGED <<count, instances>>
    BY <1>3, <2>1 DEF CountUp, HubAt, redisVars
  <2>3. \A a : About(i, u, a)' <=> a = "add" /\ u = UserOf[c]
    BY <1>i, <2>2, Goes
  <2>4. local'[i][u] = IF u = UserOf[c] THEN local[i][u] + 1 ELSE local[i][u]
    BY <1>i, <2>2 DEF TypeOK
  <2>5. count[i][u] = local[i][u] /\ (i \in instances[u] <=> local[i][u] > 0)
    BY <2>1, <2>2 DEF RegistryOf
  <2>6. count'[i][u] = local[i][u] /\ (i \in instances'[u] <=> local[i][u] > 0)
    BY <2>2, <2>5
  <2>7. CASE u = UserOf[c]
    <3>1. local'[i][u] >= 1 /\ count'[i][u] = local'[i][u] - 1
      BY <1>n, <2>4, <2>6, <2>7
    <3>2. i \in instances'[u] <=> local'[i][u] > 1
      BY <1>n, <2>4, <2>6, <2>7
    <3>3. QED
      BY <2>3, <2>7, <3>1, <3>2 DEF RegistryOf
  <2>8. CASE u # UserOf[c]
    BY <2>3, <2>4, <2>6, <2>8 DEF RegistryOf
  <2>9. QED
    BY <2>7, <2>8
<1>4. CASE AddConnection(i)
  <2>1. PICK c \in Clients :
           /\ hub[i].who = {c} /\ Subject(i) = UserOf[c]
           /\ \A a : About(i, u, a) <=> a = hub[i].at /\ u = UserOf[c]
    BY <1>2, <1>4 DEF Enter
  <2>2. /\ hub[i].at = "add" /\ HubNext(i, "subscribe", {c}) /\ UNCHANGED local
        /\ instances' = [instances EXCEPT ![UserOf[c]] = @ \cup {i}]
        /\ count' = [count EXCEPT ![i][UserOf[c]] = @ + 1]
    BY <1>4, <2>1 DEF AddConnection, HubAt, Fault
  <2>3. \A a : About(i, u, a)' <=> a = "subscribe" /\ u = UserOf[c]
    BY <1>i, <2>2, Goes
  <2>4. count'[i][u] = IF u = UserOf[c] THEN count[i][u] + 1 ELSE count[i][u]
    BY <1>i, <2>2 DEF TypeOK
  <2>5. instances'[u] = IF u = UserOf[c] THEN instances[u] \cup {i} ELSE instances[u]
    BY <2>2 DEF TypeOK
  <2>6. CASE u = UserOf[c]
    <3>1. local[i][u] >= 1 /\ count[i][u] = local[i][u] - 1
      BY <2>1, <2>2, <2>6 DEF RegistryOf
    <3>2. count'[i][u] = local'[i][u] /\ local'[i][u] > 0 /\ i \in instances'[u]
      BY <1>n, <2>2, <2>4, <2>5, <2>6, <3>1
    <3>3. QED
      BY <2>3, <3>2 DEF RegistryOf
  <2>7. CASE u # UserOf[c]
    <3>1. count[i][u] = local[i][u] /\ (i \in instances[u] <=> local[i][u] > 0)
      BY <2>1, <2>7 DEF RegistryOf
    <3>2. QED
      BY <2>2, <2>3, <2>4, <2>5, <2>7, <3>1 DEF RegistryOf
  <2>8. QED
    BY <2>6, <2>7
<1>5. CASE CountDown(i)
  <2>1. PICK c \in Clients :
           /\ hub[i].who = {c} /\ Subject(i) = UserOf[c]
           /\ \A a : About(i, u, a) <=> a = hub[i].at /\ u = UserOf[c]
    BY <1>2, <1>5 DEF Leave
  <2>2. /\ hub[i].at = "count-down" /\ local' = [local EXCEPT ![i][UserOf[c]] = Lowered(@)]
        /\ HubNext(i, "subtract", {c}) /\ UNCHANGED <<count, instances>>
    BY <1>5, <2>1 DEF CountDown, HubAt, redisVars
  <2>3. \A a : About(i, u, a)' <=> a = "subtract" /\ u = UserOf[c]
    BY <1>i, <2>2, Goes
  <2>4. local'[i][u] = IF u = UserOf[c] THEN Lowered(local[i][u]) ELSE local[i][u]
    BY <1>i, <2>2 DEF TypeOK
  <2>5. count[i][u] = local[i][u] /\ (i \in instances[u] <=> local[i][u] > 0)
    BY <2>1, <2>2 DEF RegistryOf
  <2>6. count'[i][u] = local[i][u] /\ (i \in instances'[u] <=> local[i][u] > 0)
    BY <2>2, <2>5
  <2>7. CASE u = UserOf[c]
    <3>1. \/ local'[i][u] = 0 /\ count'[i][u] \in {0, 1}
          \/ count'[i][u] = local'[i][u] + 1 /\ i \in instances'[u]
      BY <1>n, <2>4, <2>6, <2>7 DEF Lowered
    <3>2. QED
      BY <2>3, <2>7, <3>1 DEF RegistryOf
  <2>8. CASE u # UserOf[c]
    BY <2>3, <2>4, <2>6, <2>8 DEF RegistryOf
  <2>9. QED
    BY <2>7, <2>8
<1>6. CASE SubtractConnection(i)
  <2>1. PICK c \in Clients :
           /\ hub[i].who = {c} /\ Subject(i) = UserOf[c]
           /\ \A a : About(i, u, a) <=> a = hub[i].at /\ u = UserOf[c]
    BY <1>2, <1>6 DEF Leave
  <2>m. PICK m \in Int : m = count[i][UserOf[c]] - 1
    BY <1>i DEF TypeOK
  <2>2. /\ hub[i].at = "subtract" /\ UNCHANGED <<local, instances>>
        /\ count' = [count EXCEPT ![i][UserOf[c]] = m]
        /\ IF Last(m) THEN HubNext(i, "remove", {c}) ELSE HubNext(i, "select", {})
    BY <1>6, <2>1, <2>m DEF SubtractConnection, HubAt, Fault
  <2>4. count'[i][u] = IF u = UserOf[c] THEN m ELSE count[i][u]
    BY <1>i, <2>2 DEF TypeOK
  <2>5. \A a : a \in RouterSteps => (About(i, u, a)' <=> a = "remove" /\ u = UserOf[c] /\ Last(m))
    <3>1. CASE Last(m)
      BY <1>i, <2>2, <3>1, Goes
    <3>2. CASE ~ Last(m)
      <4>1. "select" \notin RouterSteps
        BY DEF RouterSteps
      <4>2. QED
        BY <1>i, <2>2, <3>2, <4>1, Rests
    <3>3. QED
      BY <3>1, <3>2
  <2>6. /\ ~ About(i, u, "add")' /\ ~ About(i, u, "subtract")'
        /\ About(i, u, "remove")' <=> u = UserOf[c] /\ Last(m)
    BY <2>5 DEF RouterSteps
  <2>7. CASE u = UserOf[c]
    <3>1. \/ local[i][u] = 0 /\ count[i][u] \in {0, 1}
          \/ count[i][u] = local[i][u] + 1 /\ i \in instances[u]
      BY <2>1, <2>2, <2>7 DEF RegistryOf
    <3>2. Last(m) => local'[i][u] = 0
      BY <1>n, <2>2, <2>m, <2>7, <3>1 DEF Last
    <3>3. ~ Last(m) => /\ count'[i][u] = local'[i][u] /\ i \in instances'[u]
                      /\ local'[i][u] > 0
      BY <1>n, <2>2, <2>m, <2>4, <2>7, <3>1 DEF Last
    <3>4. QED
      BY <2>6, <2>7, <3>2, <3>3 DEF RegistryOf
  <2>8. CASE u # UserOf[c]
    <3>1. count[i][u] = local[i][u] /\ (i \in instances[u] <=> local[i][u] > 0)
      BY <2>1, <2>8 DEF RegistryOf
    <3>2. QED
      BY <2>2, <2>4, <2>6, <2>8, <3>1 DEF RegistryOf
  <2>9. QED
    BY <2>7, <2>8
<1>7. CASE RemoveConnection(i)
  <2>1. PICK c \in Clients :
           /\ hub[i].who = {c} /\ Subject(i) = UserOf[c]
           /\ \A a : About(i, u, a) <=> a = hub[i].at /\ u = UserOf[c]
    BY <1>2, <1>7 DEF Leave
  <2>2. /\ hub[i].at = "remove" /\ UNCHANGED local /\ HubNext(i, "select", {})
        /\ count' = [count EXCEPT ![i][UserOf[c]] = 0]
        /\ instances' = [instances EXCEPT ![UserOf[c]] = @ \ {i}]
    BY <1>7, <2>1 DEF RemoveConnection, HubAt, Fault
  <2>3. ~ About(i, u, "add")' /\ ~ About(i, u, "subtract")' /\ ~ About(i, u, "remove")'
    BY <1>a, <2>2 DEF About
  <2>4. count'[i][u] = IF u = UserOf[c] THEN 0 ELSE count[i][u]
    BY <1>i, <2>2 DEF TypeOK
  <2>5. instances'[u] = IF u = UserOf[c] THEN instances[u] \ {i} ELSE instances[u]
    BY <2>2 DEF TypeOK
  <2>6. CASE u = UserOf[c]
    <3>1. local[i][u] = 0
      BY <2>1, <2>2, <2>6 DEF RegistryOf
    <3>2. QED
      BY <2>2, <2>3, <2>4, <2>5, <2>6, <3>1 DEF RegistryOf
  <2>7. CASE u # UserOf[c]
    <3>1. count[i][u] = local[i][u] /\ (i \in instances[u] <=> local[i][u] > 0)
      BY <2>1, <2>7 DEF RegistryOf
    <3>2. QED
      BY <2>2, <2>3, <2>4, <2>5, <2>7, <3>1 DEF RegistryOf
  <2>8. QED
    BY <2>6, <2>7
<1>8. QED
  BY <1>1, <1>3, <1>4, <1>5, <1>6, <1>7 DEF Run, Enter, Leave

\* A key that expires has nobody at its instance.
LEMMA RegistryExpires ==
    ASSUME TypeOK, NEW i \in Instances, NEW u \in Users, RegistryOf(i, u),
           UNCHANGED <<hub, local>>,
           \/ \E v \in Users : ExpireInstances(v)
           \/ \E k \in Instances, v \in Users : ExpireCount(k, v)
    PROVE  RegistryOf(i, u)'
<1>n. local[i][u] \in Nat
  BY DEF TypeOK
<1>a. \A a : About(i, u, a)' <=> About(i, u, a)
  BY DEF About, Subject
<1>1. ASSUME NEW v \in Users, ExpireInstances(v) PROVE RegistryOf(i, u)'
  <2>1. /\ instances'[u] = IF u = v THEN {} ELSE instances[u]
        /\ UNCHANGED count /\ (u = v => local[i][u] = 0)
    BY <1>n, <1>1 DEF ExpireInstances, Refreshed, TypeOK
  <2>2. CASE u = v
    BY <1>a, <2>1, <2>2 DEF RegistryOf
  <2>3. CASE u # v
    BY <1>a, <2>1, <2>3 DEF RegistryOf
  <2>4. QED
    BY <2>2, <2>3
<1>2. ASSUME NEW k \in Instances, NEW v \in Users, ExpireCount(k, v) PROVE RegistryOf(i, u)'
  <2>1. count' = [count EXCEPT ![k][v] = 0] /\ UNCHANGED instances
    BY <1>2 DEF ExpireCount
  <2>2. CASE i = k /\ u = v
    <3>1. local[i][u] = 0 /\ count[i][u] # 0
      BY <1>n, <1>2, <2>2 DEF ExpireCount, Refreshed
    <3>2. count'[i][u] = 0
      BY <2>1, <2>2 DEF TypeOK
    <3>3. QED
      BY <1>a, <2>1, <3>1, <3>2 DEF RegistryOf
  <2>3. CASE ~ (i = k /\ u = v)
    <3>1. count'[i][u] = count[i][u]
      BY <2>1, <2>3 DEF TypeOK
    <3>2. QED
      BY <1>a, <2>1, <3>1 DEF RegistryOf
  <2>4. QED
    BY <2>2, <2>3
<1>3. QED
  BY <1>1, <1>2

LEMMA RegistryNext == TypeOK /\ HubInv /\ RegistryInv /\ [Next]_vars => RegistryInv'
<1> SUFFICES ASSUME TypeOK, HubInv, RegistryInv, [Next]_vars, faults' = 0,
                    NEW i \in Routed, NEW u \in Users
             PROVE  RegistryOf(i, u)'
  BY DEF RegistryInv
<1>i. i \in Instances
  OBVIOUS
<1>0. faults = 0 /\ RegistryOf(i, u)
  BY FaultsStay DEF RegistryInv
<1>1. ASSUME UNCHANGED <<hub, local, count, instances>> PROVE RegistryOf(i, u)'
  BY <1>0, <1>1 DEF RegistryOf, About, Subject
<1>2. CASE (\E k \in Instances : Route(k)) \/ Redis \/ UNCHANGED vars
  <2>1. UNCHANGED <<hub, local>>
    BY <1>2, RouteKeeps
  <2>2. QED
    BY <1>0, <1>1, <1>2, <1>i, <2>1, RouteKeeps, RegistryExpires
<1>3. ASSUME NEW c \in Clients, Pump(c) PROVE RegistryOf(i, u)'
  <2>1. UNCHANGED <<hub, local, count, instances>>
    BY <1>3 DEF Pump, Connect, ReadMessage, Say, End, Deregister, Write, redisVars
  <2>2. QED
    BY <1>1, <2>1
<1>4. ASSUME NEW k \in Instances, Run(k) PROVE RegistryOf(i, u)'
  <2>1. CASE k = i
    BY <1>0, <1>4, <2>1, RegistryOwn
  <2>2. CASE k # i
    <3>1. /\ \A a : About(i, u, a)' <=> About(i, u, a)
          /\ local'[i] = local[i] /\ count'[i] = count[i]
          /\ i \in instances'[u] <=> i \in instances[u]
      BY <1>i, <1>4, <2>2, OtherHubs
    <3>2. QED
      BY <1>0, <3>1 DEF RegistryOf
  <2>3. QED
    BY <2>1, <2>2
<1>5. QED
  BY <1>2, <1>3, <1>4 DEF Next

LEMMA CountsInit == Init => LeaveInv /\ LocalInv /\ RegistryInv
<1> SUFFICES ASSUME Init PROVE LeaveInv /\ LocalInv /\ RegistryInv
  OBVIOUS
<1>1. DOMAIN << >> = {}
  OBVIOUS
<1>2. Distinct(<< >>) /\ \A c : ~ InChannel(<< >>, c)
  BY <1>1 DEF Distinct, InChannel
<1>3. \A i \in Instances : register[i] = << >> /\ unregister[i] = << >>
  BY DEF Init
<1>4. LeaveInv
  BY <1>2, <1>3 DEF LeaveInv
<1>5. \A i \in Instances : hub[i].at = "select"
  BY DEF Init, Idle
<1>6. \A i \in Instances, u \in Users :
         /\ local[i][u] = 0 /\ count[i][u] = 0 /\ i \notin instances[u]
         /\ Present(i, u) = {}
  BY DEF Init, Nobody, Present
<1>7. ASSUME NEW i \in Routed, NEW u \in Users PROVE LocalOf(i, u) /\ RegistryOf(i, u)
  <2>1. i \in Instances
    OBVIOUS
  <2>2. IsFiniteSet({}) /\ Cardinality({}) = 0
    BY FS_EmptySet
  <2>3. IsFiniteSet(Present(i, u)) /\ Cardinality(Present(i, u)) = 0
    BY <1>6, <2>1, <2>2
  <2>4. \A a \in RouterSteps : ~ About(i, u, a)
    BY <1>5, <2>1 DEF About, RouterSteps
  <2>5. LocalOf(i, u)
    BY <1>6, <2>1, <2>3, <2>4 DEF LocalOf, RouterSteps
  <2>6. RegistryOf(i, u)
    BY <1>6, <2>1, <2>4 DEF RegistryOf, RouterSteps
  <2>7. QED
    BY <2>5, <2>6
<1>8. QED
  BY <1>4, <1>7 DEF LocalInv, RegistryInv

LEMMA LeaveNext == TypeOK /\ LeaveInv /\ [Next]_vars => LeaveInv'
<1> SUFFICES ASSUME TypeOK, LeaveInv, [Next]_vars PROVE LeaveInv'
  OBVIOUS
<1>1. CASE (\E i \in Instances : Route(i)) \/ Redis \/ UNCHANGED vars
  <2>1. UNCHANGED <<register, unregister, conn, overtaken>>
    BY <1>1, RouteKeeps DEF connVars, chanVars
  <2>2. QED
    BY <2>1, LeaveSame
<1>2. QED
  BY <1>1, LeavePump, LeaveRun DEF Next

GatewayInv == HubInv /\ TableInv /\ LeaveInv /\ LocalInv /\ RegistryInv

\* Whenever a hub is between two cases of its select, its router's count of a
\* user's connections is their number, and so is the count in Redis if no command
\* has failed, where the instance is listed if and only if there are any; unless
\* a deregistration has overtaken its registration.
THEOREM GatewayCounts == Spec => []ConnectionsAreCounted
<1>1. LocalInv /\ RegistryInv => ConnectionsAreCounted
  <2> SUFFICES ASSUME LocalInv, RegistryInv, NEW i \in Routed, NEW u \in Users,
                      ~ overtaken, HubAt(i, "select")
               PROVE  /\ local[i][u] = Cardinality(Present(i, u))
                      /\ faults = 0 => /\ count[i][u] = local[i][u]
                                       /\ i \in instances[u] <=> local[i][u] > 0
    BY DEF ConnectionsAreCounted
  <2>1. \A a \in RouterSteps : ~ About(i, u, a)
    BY DEF About, HubAt, RouterSteps
  <2>2. local[i][u] = Cardinality(Present(i, u)) - 0 + 0 /\ IsFiniteSet(Present(i, u))
    BY <2>1 DEF LocalInv, LocalOf, RouterSteps
  <2>3. Cardinality(Present(i, u)) \in Nat
    BY <2>2, FS_CardinalityType
  <2>4. faults = 0 => count[i][u] = local[i][u] /\ (i \in instances[u] <=> local[i][u] > 0)
    BY <2>1 DEF RegistryInv, RegistryOf, RouterSteps
  <2>5. QED
    BY <2>2, <2>3, <2>4
<1>2. Init => TypeOK /\ GatewayInv
  BY TypeInit, TableInit, CountsInit DEF GatewayInv
<1>3. TypeOK /\ GatewayInv /\ [Next]_vars => TypeOK' /\ GatewayInv'
  BY TypeNext, TableNext, LeaveNext, LocalNext, RegistryNext DEF GatewayInv
<1>4. GatewayInv => LocalInv /\ RegistryInv
  BY DEF GatewayInv
<1>5. QED
  BY <1>1, <1>2, <1>3, <1>4, PTL DEF Spec

=============================================================================
