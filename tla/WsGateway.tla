----------------------------- MODULE WsGateway -----------------------------
(***************************************************************************)
(* Messages to users over WebSockets.  Every instance has a hub            *)
(* (internal/pkg/ws/ws.go): one goroutine that owns the table of clients   *)
(* and takes registrations, deregistrations and broadcasts from three Go   *)
(* channels, and for each client a goroutine that reads its connection and *)
(* one that writes to it.  The router of an instance                       *)
(* (internal/gateway/ws_router.go) enters its users in a registry in Redis *)
(* and passes on, by Redis Pub/Sub, what any instance sends to a user.     *)
(*                                                                         *)
(* The shards of the table are one here: a user has one shard, and the     *)
(* locks make each pass over a shard one step.                             *)
(***************************************************************************)
EXTENDS Integers, FiniteSets, Sequences

CONSTANTS
    Instances,
    Routed,         \* the instances whose hub has a router
    Users,
    Clients,        \* the connections a behaviour may contain
    UserOf, HostOf, \* the user of a client, and the instance it connects to
    RoomOf, NoRoom, \* its room
    Messages,       \* the messages sent to users
    ToOf,           \* the user a message is for
    Chat,           \* what a client says
    ChannelCap,     \* the capacity of the three channels, 1024
    SendCap,        \* the capacity of a client's send channel, 256
    MaxEvents       \* bound on the messages read from clients and the calls in
                    \* which Redis commands fail, together

ASSUME GatewayAssumption ==
    /\ Routed \subseteq Instances
    /\ UserOf \in [Clients -> Users]
    /\ HostOf \in [Clients -> Instances]
    /\ ToOf \in [Messages -> Users]
    /\ Chat \notin Messages
    /\ ChannelCap \in Nat \ {0} /\ SendCap \in Nat \ {0}
    /\ MaxEvents \in Nat

VARIABLES
    conn,           \* where a client's connection and its reader stand
    register, unregister, broadcast,    \* the channels of a hub
    clients,        \* the hub's table, shard.clients
    closes,         \* how often the send channel of a client was closed
    buffer,         \* what is in it
    hub,            \* the next step of the hub's goroutine and whom it is about
    local,          \* localUserConns
    count,          \* the key ws:conn:I:U, an absent one being 0
    instances,      \* the set ws:user:U:instances
    lasting,        \* the keys that have no TTL: U for the set, <<I, U>> for a count
    starting,       \* subscriptions that are not yet in effect
    active,         \* subscriptions that are
    pending,        \* the copies of a message subscriptions have not handled
    sent,           \* history: the messages that were sent
    fate,           \* history: what became of a message that a client was due
    overtaken,      \* history: a client was unregistered before it was registered
    said, faults    \* counters of the bound

connVars == <<conn, said>>
chanVars == <<register, unregister, broadcast>>
tableVars == <<clients, closes>>
sendVars == <<buffer, fate>>
redisVars == <<count, instances, lasting, faults>>
subVars == <<starting, active, pending, sent>>
vars == <<conn, register, unregister, broadcast, clients, closes, buffer, hub,
          local, count, instances, lasting, starting, active, pending, sent, fate,
          overtaken, said, faults>>

Steps == {"select", "count-up", "add", "subscribe", "count-down", "subtract",
          "remove", "close"}

TypeOK ==
    /\ conn \in [Clients -> {"none", "open", "saying", "ended", "gone"}]
    /\ register \in [Instances -> Seq(Clients)]
    /\ unregister \in [Instances -> Seq(Clients)]
    /\ broadcast \in [Instances -> Seq(Clients)]
    /\ clients \in [Instances -> SUBSET Clients]
    /\ closes \in [Clients -> Nat]
    /\ buffer \in [Clients -> Seq(Messages \cup {Chat})]
    /\ hub \in [Instances -> [at : Steps, who : SUBSET Clients]]
    /\ local \in [Instances -> [Users -> Nat]]
    /\ count \in [Instances -> [Users -> Int]]
    /\ instances \in [Users -> SUBSET Instances]
    /\ lasting \subseteq Users \cup (Instances \X Users)
    /\ starting \in [Instances -> [Users -> Nat]]
    /\ active \in [Instances -> [Users -> Nat]]
    /\ pending \in [Instances -> [Messages -> Nat]]
    /\ sent \subseteq Messages
    /\ fate \in [Clients -> [Messages -> {"none", "due", "dropped", "got"}]]
    /\ overtaken \in BOOLEAN
    /\ said \in Nat /\ faults \in Nat /\ said + faults <= MaxEvents

Idle == [at |-> "select", who |-> {}]
Nobody(x) == [i \in Instances |-> [u \in Users |-> x]]

Init ==
    /\ conn = [c \in Clients |-> "none"]
    /\ register = [i \in Instances |-> <<>>]
    /\ unregister = [i \in Instances |-> <<>>]
    /\ broadcast = [i \in Instances |-> <<>>]
    /\ clients = [i \in Instances |-> {}]
    /\ closes = [c \in Clients |-> 0]
    /\ buffer = [c \in Clients |-> <<>>]
    /\ hub = [i \in Instances |-> Idle]
    /\ local = Nobody(0)
    /\ count = Nobody(0)
    /\ instances = [u \in Users |-> {}]
    /\ lasting = {}
    /\ starting = Nobody(0)
    /\ active = Nobody(0)
    /\ pending = [i \in Instances |-> [m \in Messages |-> 0]]
    /\ sent = {}
    /\ fate = [c \in Clients |-> [m \in Messages |-> "none"]]
    /\ overtaken = FALSE
    /\ said = 0 /\ faults = 0

Fault == said + faults < MaxEvents /\ faults' = faults + 1
NoFault == UNCHANGED faults

InChannel(ch, c) == \E n \in DOMAIN ch : ch[n] = c

-----------------------------------------------------------------------------
(* Connections: ServeWS, readPump and writePump.                           *)

\* ServeWS waits for room in the channel, then starts the two pumps.
Connect(c) ==
    LET i == HostOf[c] IN
    /\ conn[c] = "none"
    /\ Len(register[i]) < ChannelCap
    /\ conn' = [conn EXCEPT ![c] = "open"]
    /\ register' = [register EXCEPT ![i] = Append(@, c)]
    /\ UNCHANGED <<unregister, broadcast, tableVars, sendVars, hub, local,
                   redisVars, subVars, overtaken, said>>

\* The reader has read a message and will put it in the hub's channel.
ReadMessage(c) ==
    /\ conn[c] = "open"
    /\ said + faults < MaxEvents
    /\ said' = said + 1
    /\ conn' = [conn EXCEPT ![c] = "saying"]
    /\ UNCHANGED <<chanVars, tableVars, sendVars, hub, local, redisVars, subVars,
                   overtaken>>

Say(c) ==
    LET i == HostOf[c] IN
    /\ conn[c] = "saying"
    /\ Len(broadcast[i]) < ChannelCap
    /\ conn' = [conn EXCEPT ![c] = "open"]
    /\ broadcast' = [broadcast EXCEPT ![i] = Append(@, c)]
    /\ UNCHANGED <<register, unregister, tableVars, sendVars, hub, local,
                   redisVars, subVars, overtaken, said>>

\* The connection ends: the peer or a deadline ends it, or the writer.
End(c) ==
    /\ conn[c] = "open"
    /\ conn' = [conn EXCEPT ![c] = "ended"]
    /\ UNCHANGED <<chanVars, tableVars, sendVars, hub, local, redisVars, subVars,
                   overtaken, said>>

\* The reader's last act.
Deregister(c) ==
    LET i == HostOf[c] IN
    /\ conn[c] = "ended"
    /\ Len(unregister[i]) < ChannelCap
    /\ conn' = [conn EXCEPT ![c] = "gone"]
    /\ unregister' = [unregister EXCEPT ![i] = Append(@, c)]
    /\ UNCHANGED <<register, broadcast, tableVars, sendVars, hub, local,
                   redisVars, subVars, overtaken, said>>

\* The writer sends all that is in the channel in one frame.
Write(c) ==
    /\ conn[c] \in {"open", "saying"}
    /\ buffer[c] # <<>>
    /\ buffer' = [buffer EXCEPT ![c] = <<>>]
    /\ fate' = [fate EXCEPT ![c] =
            [m \in Messages |-> IF InChannel(buffer[c], m) THEN "got" ELSE @[m]]]
    /\ UNCHANGED <<connVars, chanVars, tableVars, hub, local, redisVars, subVars,
                   overtaken>>

\* The writer closes the connection once its channel is closed and empty.
HangUp(c) == closes[c] > 0 /\ buffer[c] = <<>> /\ End(c)

-----------------------------------------------------------------------------
(* The hub's goroutine.                                                    *)

HubAt(i, step) == hub[i].at = step
HubNext(i, step, who) == hub' = [hub EXCEPT ![i] = [at |-> step, who |-> who]]

\* The user of the client the hub is about.
Subject(i) == UserOf[CHOOSE c \in Clients : hub[i].who = {c}]

TakeRegister(i) ==
    /\ HubAt(i, "select") /\ register[i] # <<>>
    /\ LET c == Head(register[i]) IN
       /\ clients' = [clients EXCEPT ![i] = @ \cup {c}]
       /\ IF i \in Routed THEN HubNext(i, "count-up", {c}) ELSE UNCHANGED hub
    /\ register' = [register EXCEPT ![i] = Tail(@)]
    /\ UNCHANGED <<connVars, unregister, broadcast, closes, sendVars, local,
                   redisVars, subVars, overtaken>>

\* Mutant: the send channel is closed also when the client is not in the table.
ForgetClientAlways(i, c) ==
    /\ clients' = [clients EXCEPT ![i] = @ \ {c}]
    /\ closes' = [closes EXCEPT ![c] = @ + 1]

\* Mutant: a client that spoke in a room is left in the table.
ForgetClientOutside(i, c) ==
    /\ clients' = [clients EXCEPT ![i] = IF RoomOf[c] = NoRoom THEN @ \ {c} ELSE @]
    /\ closes' = [closes EXCEPT ![c] = IF c \in clients[i] THEN @ + 1 ELSE @]

\* A client that is in the table is removed and its send channel closed.
ForgetClient(i, c) ==
    /\ clients' = [clients EXCEPT ![i] = @ \ {c}]
    /\ closes' = [closes EXCEPT ![c] = IF c \in clients[i] THEN @ + 1 ELSE @]

TakeUnregister(i) ==
    /\ HubAt(i, "select") /\ unregister[i] # <<>>
    /\ LET c == Head(unregister[i]) IN
       /\ ForgetClient(i, c)
       /\ overtaken' = (overtaken \/ InChannel(register[i], c))
       /\ IF i \in Routed THEN HubNext(i, "count-down", {c}) ELSE UNCHANGED hub
    /\ unregister' = [unregister EXCEPT ![i] = Tail(@)]
    /\ UNCHANGED <<connVars, register, broadcast, sendVars, local, redisVars, subVars>>

\* Put m in the send channels of the clients in S that have room.
Send(S, m) ==
    buffer' = [c \in Clients |->
        IF c \in S /\ Len(buffer[c]) < SendCap THEN Append(buffer[c], m) ELSE buffer[c]]

Full(S) == {c \in S : Len(buffer[c]) >= SendCap}

\* The clients that hear what c says: its room, or everybody if it has none.
Audience(i, c) ==
    {d \in clients[i] : RoomOf[c] # NoRoom => RoomOf[d] = RoomOf[c]}

\* The message goes to those who have room; the others will be removed.
TakeBroadcast(i) ==
    /\ HubAt(i, "select") /\ broadcast[i] # <<>>
    /\ LET S == Audience(i, Head(broadcast[i])) IN
       /\ Send(S, Chat)
       /\ IF Full(S) = {} THEN UNCHANGED hub ELSE HubNext(i, "close", Full(S))
    /\ broadcast' = [broadcast EXCEPT ![i] = Tail(@)]
    /\ UNCHANGED <<connVars, register, unregister, tableVars, fate, local,
                   redisVars, subVars, overtaken>>

\* The clients that were too slow are removed and their channels closed.
CloseStale(i) ==
    /\ HubAt(i, "close")
    /\ clients' = [clients EXCEPT ![i] = @ \ hub[i].who]
    /\ closes' = [c \in Clients |->
            IF c \in hub[i].who \cap clients[i] THEN closes[c] + 1 ELSE closes[c]]
    /\ HubNext(i, "select", {})
    /\ UNCHANGED <<connVars, chanVars, sendVars, local, redisVars, subVars, overtaken>>

-----------------------------------------------------------------------------
(* RegisterConnection, SubscribeToUser and UnregisterConnection, in the    *)
(* hub's goroutine.  Errors of Redis are ignored.                          *)

\* localUserConns is raised under the router's lock.
CountUp(i) ==
    /\ HubAt(i, "count-up")
    /\ local' = [local EXCEPT ![i][Subject(i)] = @ + 1]
    /\ HubNext(i, "add", hub[i].who)
    /\ UNCHANGED <<connVars, chanVars, tableVars, sendVars, redisVars, subVars, overtaken>>

\* SAdd and Expire, Incr and Expire.  A key that is new has no TTL until its
\* Expire; a key with the count zero is as good as absent.
AddConnection(i) ==
    LET u == Subject(i) IN
    /\ HubAt(i, "add")
    /\ \E added, raised \in BOOLEAN, timed \in SUBSET {u, <<i, u>>} :
         /\ IF added /\ raised /\ timed = {u, <<i, u>>} THEN NoFault ELSE Fault
         /\ instances' = IF added THEN [instances EXCEPT ![u] = @ \cup {i}] ELSE instances
         /\ count' = IF raised THEN [count EXCEPT ![i][u] = @ + 1] ELSE count
         /\ lasting' = (lasting \cup (IF added /\ instances[u] = {} THEN {u} ELSE {})
                                \cup (IF raised /\ count[i][u] = 0 THEN {<<i, u>>} ELSE {}))
                       \ timed
    /\ HubNext(i, "subscribe", hub[i].who)
    /\ UNCHANGED <<connVars, chanVars, tableVars, sendVars, local, subVars, overtaken>>

\* A goroutine is started that subscribes to the user's channel and stays.
SubscribeToUser(i) ==
    /\ HubAt(i, "subscribe")
    /\ starting' = [starting EXCEPT ![i][Subject(i)] = @ + 1]
    /\ HubNext(i, "select", {})
    /\ UNCHANGED <<connVars, chanVars, tableVars, sendVars, local, redisVars,
                   active, pending, sent, overtaken>>

\* Mutant: the entry is deleted although there are other connections.
LoweredToNone(n) == 0

\* One less, but not below zero: an entry that is not there stays away.
Lowered(n) == IF n <= 1 THEN 0 ELSE n - 1

CountDown(i) ==
    /\ HubAt(i, "count-down")
    /\ local' = [local EXCEPT ![i][Subject(i)] = Lowered(@)]
    /\ HubNext(i, "subtract", hub[i].who)
    /\ UNCHANGED <<connVars, chanVars, tableVars, sendVars, redisVars, subVars, overtaken>>

\* newCount <= 0
Last(n) == n <= 0

\* Decr.  It makes a key that is not there, and a failure is read as zero.
SubtractConnection(i) ==
    LET u == Subject(i)
        n == count[i][u] - 1 IN
    /\ HubAt(i, "subtract")
    /\ \/ /\ NoFault
          /\ count' = [count EXCEPT ![i][u] = n]
          /\ lasting' = IF n = -1 THEN lasting \cup {<<i, u>>} ELSE lasting
          /\ IF Last(n) THEN HubNext(i, "remove", hub[i].who) ELSE HubNext(i, "select", {})
       \/ /\ Fault
          /\ HubNext(i, "remove", hub[i].who)
          /\ UNCHANGED <<count, lasting>>
    /\ UNCHANGED <<connVars, chanVars, tableVars, sendVars, local, instances,
                   subVars, overtaken>>

\* Del and SRem.
RemoveConnection(i) ==
    LET u == Subject(i) IN
    /\ HubAt(i, "remove")
    /\ \E deleted, removed \in BOOLEAN :
         /\ IF deleted /\ removed THEN NoFault ELSE Fault
         /\ count' = IF deleted THEN [count EXCEPT ![i][u] = 0] ELSE count
         /\ instances' = IF removed THEN [instances EXCEPT ![u] = @ \ {i}] ELSE instances
         /\ lasting' = lasting \ ((IF deleted THEN {<<i, u>>} ELSE {})
                                   \cup (IF instances'[u] = {} THEN {u} ELSE {}))
    /\ HubNext(i, "select", {})
    /\ UNCHANGED <<connVars, chanVars, tableVars, sendVars, local, subVars, overtaken>>

-----------------------------------------------------------------------------
(* The registry's TTL and its refreshment.                                 *)

\* Mutant: all entries of the registry are refreshed, also those of users who
\* have gone.
RefreshedForEver(i, u) == i \in instances[u]

\* refreshConnectionTTLs keeps the keys of the users with a local connection.
Refreshed(i, u) == local[i][u] > 0

Refresh(i) ==
    LET kept == {u \in Users : Refreshed(i, u)}
        keys == kept \cup ({i} \X kept) IN
    /\ lasting \cap keys # {}
    /\ lasting' = lasting \ keys
    /\ UNCHANGED <<connVars, chanVars, tableVars, sendVars, hub, local, count,
                   instances, faults, subVars, overtaken>>

\* A key with a TTL that no instance refreshes expires.
ExpireInstances(u) ==
    /\ instances[u] # {} /\ u \notin lasting
    /\ \A i \in Instances : ~ Refreshed(i, u)
    /\ instances' = [instances EXCEPT ![u] = {}]
    /\ UNCHANGED <<connVars, chanVars, tableVars, sendVars, hub, local, count,
                   lasting, faults, subVars, overtaken>>

ExpireCount(i, u) ==
    /\ count[i][u] # 0 /\ <<i, u>> \notin lasting
    /\ ~ Refreshed(i, u)
    /\ count' = [count EXCEPT ![i][u] = 0]
    /\ UNCHANGED <<connVars, chanVars, tableVars, sendVars, hub, local, instances,
                   lasting, faults, subVars, overtaken>>

-----------------------------------------------------------------------------
(* Messages to a user: SendToUser and the subscriptions.                   *)

\* sendToUserLocal: a client whose channel is full misses the message.
SendToUserLocal(i, m, f) ==
    LET S == {c \in clients[i] : UserOf[c] = ToOf[m]} IN
    /\ Send(S, m)
    /\ fate' = [c \in Clients |->
            IF c \in Full(S) /\ f[c][m] = "due" THEN [f[c] EXCEPT ![m] = "dropped"] ELSE f[c]]

Subscription(i, u) ==
    /\ starting[i][u] > 0
    /\ starting' = [starting EXCEPT ![i][u] = @ - 1]
    /\ active' = [active EXCEPT ![i][u] = @ + 1]
    /\ UNCHANGED <<connVars, chanVars, tableVars, sendVars, hub, local, redisVars,
                   pending, sent, overtaken>>

\* The clients a publication reaches: in the table, counted, and subscribed.
Reached(m) ==
    {c \in Clients :
        /\ UserOf[c] = ToOf[m]
        /\ c \in clients[HostOf[c]]
        /\ active[HostOf[c]][ToOf[m]] > 0
        /\ local[HostOf[c]][ToOf[m]] > 0}

\* Every subscription that is in effect gets a copy.
Publish(m) ==
    pending' = [i \in Instances |-> [pending[i] EXCEPT ![m] = @ + active[i][ToOf[m]]]]

Due(m) ==
    [c \in Clients |-> IF c \in Reached(m) THEN [fate[c] EXCEPT ![m] = "due"] ELSE fate[c]]

\* A message is published; when that reports an error, whether or not it was,
\* or when the hub has no router, it is delivered on this instance.
SendToUser(i, m) ==
    /\ m \notin sent
    /\ sent' = sent \cup {m}
    /\ \/ /\ i \in Routed
          /\ NoFault
          /\ Publish(m)
          /\ fate' = Due(m)
          /\ UNCHANGED buffer
       \/ /\ i \in Routed
          /\ Fault
          /\ Publish(m) \/ UNCHANGED pending
          /\ SendToUserLocal(i, m, fate)
       \/ /\ i \notin Routed
          /\ SendToUserLocal(i, m, fate)
          /\ UNCHANGED <<pending, faults>>
    /\ UNCHANGED <<connVars, chanVars, tableVars, hub, local, count, instances,
                   lasting, starting, active, overtaken>>

\* Mutant: a single connection does not count as local.
HasLocalTwice(i, u) == local[i][u] > 1

HasLocal(i, u) == local[i][u] > 0

\* handleUserMessage, in the goroutine of one subscription.
HandleUserMessage(i, m) ==
    /\ pending[i][m] > 0
    /\ pending' = [pending EXCEPT ![i][m] = @ - 1]
    /\ IF HasLocal(i, ToOf[m]) THEN SendToUserLocal(i, m, fate) ELSE UNCHANGED sendVars
    /\ UNCHANGED <<connVars, chanVars, tableVars, hub, local, redisVars, starting,
                   active, sent, overtaken>>

-----------------------------------------------------------------------------
Pump(c) ==
    \/ Connect(c) \/ ReadMessage(c) \/ Say(c) \/ End(c) \/ Deregister(c) \/ Write(c)

Enter(i) == CountUp(i) \/ AddConnection(i) \/ SubscribeToUser(i)
Leave(i) == CountDown(i) \/ SubtractConnection(i) \/ RemoveConnection(i)

Run(i) ==
    \/ TakeRegister(i) \/ TakeUnregister(i) \/ TakeBroadcast(i)
    \/ CloseStale(i) \/ Enter(i) \/ Leave(i)

Redis ==
    \/ \E u \in Users : ExpireInstances(u)
    \/ \E i \in Instances : Refresh(i) \/ \E u \in Users : ExpireCount(i, u)

Route(i) ==
    \/ \E u \in Users : Subscription(i, u)
    \/ \E m \in Messages : SendToUser(i, m) \/ HandleUserMessage(i, m)

Next ==
    \/ \E c \in Clients : Pump(c)
    \/ \E i \in Instances : Run(i) \/ Route(i)
    \/ Redis

Spec == Init /\ [][Next]_vars

(***************************************************************************)
(* The goroutines run.  Go's select chooses at random among the channels   *)
(* that are ready, so none is passed over for ever, and a channel admits   *)
(* its waiting senders in their order.  Keys that nobody refreshes expire. *)
(* Users need not connect, speak or leave.                                 *)
(***************************************************************************)
PumpFairness(c) ==
    /\ SF_vars(Say(c) \/ Deregister(c))
    /\ WF_vars(Write(c) \/ HangUp(c))

HubFairness(i) ==
    /\ SF_vars(TakeRegister(i)) /\ SF_vars(TakeUnregister(i)) /\ SF_vars(TakeBroadcast(i))
    /\ WF_vars(CloseStale(i) \/ Enter(i) \/ Leave(i))

RouteFairness(i) == \A m \in Messages : WF_vars(HandleUserMessage(i, m))

Hosts == {HostOf[c] : c \in Clients}

FairSpec ==
    /\ Spec
    /\ \A c \in Clients : PumpFairness(c)
    /\ \A i \in Hosts : HubFairness(i) /\ RouteFairness(i)
    /\ \A u \in Users : WF_vars(ExpireInstances(u))

-----------------------------------------------------------------------------
(* Properties.                                                             *)

\* No send channel is closed twice, and none that a hub may still send to is
\* closed: either would stop the whole process.  Slow clients are closed by the
\* broadcast and deregistered by their readers later.
ClosedOnce ==
    \A c \in Clients : closes[c] <= 1 /\ (closes[c] = 1 => c \notin clients[HostOf[c]])

\* The clients whose registration has been taken from the channel and whose
\* deregistration has not.
Present(i, u) ==
    {c \in Clients :
        /\ HostOf[c] = i /\ UserOf[c] = u /\ conn[c] # "none"
        /\ ~ InChannel(register[i], c)
        /\ conn[c] = "gone" => InChannel(unregister[i], c)}

\* Between two cases of its select, unless a deregistration has overtaken its
\* registration, the router counts a user's connections and, as long as no
\* command failed, so does Redis, where the instance is listed if there are any.
ConnectionsAreCounted ==
    \A i \in Routed, u \in Users :
        ~ overtaken /\ HubAt(i, "select") =>
            /\ local[i][u] = Cardinality(Present(i, u))
            /\ faults = 0 => /\ count[i][u] = local[i][u]
                             /\ i \in instances[u] <=> local[i][u] > 0

\* A message that was published when a client was registered and subscribed
\* reaches it, unless it could not take it or its connection ended, or a
\* deregistration has overtaken its registration.
PublishedIsDelivered ==
    \A c \in Clients, m \in Messages :
        fate[c][m] = "due" ~> \/ fate[c][m] \in {"got", "dropped"}
                              \/ conn[c] \in {"ended", "gone"}
                              \/ overtaken

\* A client whose connection has ended is eventually forgotten: the hub comes
\* back to its channels whatever clients, broadcasts and Redis do.
GoneIsForgotten ==
    \A c \in Clients : conn[c] \in {"ended", "gone"} ~> c \notin clients[HostOf[c]] \/ overtaken

\* A user without a connection leaves the registry, also when the commands of
\* one call failed.
RegistryForgets ==
    \A u \in Users :
        (\A c \in Clients : UserOf[c] = u => conn[c] = "gone")
            ~> instances[u] = {} \/ overtaken \/ faults > 1

=============================================================================
