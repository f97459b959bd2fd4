# Verification of the flash-sale engine

TLA+ models of the ticket-selling back end under `src/internal`, checked with TLC on
small instances and, where it pays, proved with TLAPS for every instance.

Contents: [the system](#the-system) · [modules](#modules) · [runs](#runs) ·
[what the checks found](#what-the-checks-found) · [proofs](#proofs) ·
[what is not modelled](#what-is-not-modelled) · [what is left](#what-is-left)

## The system

Several stateless Go processes share one Postgres database, one Redis and one Kafka
topic. `k8s/` runs three `seckill` replicas (purchases), two `order` replicas (tickets
after the purchase, marketplace, transfers), two `ws-gateway` and one `admin`; `cmd/api`
is all of them in one process. Nothing but the three stores is shared between them, so
every request of every replica interleaves with every other at the granularity of one
statement, one Redis command or one broker call. Postgres runs at READ COMMITTED and
only two operations use a transaction (CancelTicket and BuyListing).

| component (code) | state | operations | what is hard |
|---|---|---|---|
| purchase pipeline (`service/ticket_service.go` PurchaseTicket, `mq/ticket_producer.go`, `pkg/kafka/producer.go`) | Redis hash of stocks and set of buyers per event; the topic | reserve by Lua script, publish, undo | a lost reply or a publication that timed out leaves Redis and the topic disagreeing; Redis counts calls, the database units |
| Kafka consumer (`pkg/kafka/consumer.go`, `mq/ticket_consumer.go`) | offsets; idempotency keys; `ticket_types.stock`; `tickets` | poll, handle with retries, dead letter, commit; mark, deduct, insert, undo | redelivery after a crash, a rebalance or a failed commit; two members on one record; a failure at each of six steps |
| ticket life cycle (`service/ticket_service.go` Pay/Use/CancelTicket, `service/ticket_expire_service.go`) | `tickets.status`, stock in both stores | pay, use, cancel, expire | every writer tests a status it read earlier; the checker runs in every seckill, order and api process |
| ownership (`service/marketplace_service.go`, `service/ticket_transfer_service.go`) | `tickets.user_id`, listings, transfers | list, buy, withdraw, request, approve, reject, give | no row locks; two writes without a transaction |
| events and types (`service/event_service.go`) | `events.status`, `ticket_types`, Redis stock | create, edit, publish, interrupt, end | publication in steps; whole-row saves of stale rows; resetting Redis during a sale |
| shows (`service/show_service.go`) | `shows` | create, edit, publish, interrupt, delete | whole-row saves of stale rows; its publication never writes Redis |
| Redis Streams pipeline (`mq/redis_stream_producer.go`, `mq/redis_stream_consumer.go`) | stream, group, pending entries; the same tables and keys as the Kafka consumer | add, read, handle, undo, acknowledge | an entry may be added twice; what a stopped consumer held is never read again; the undo writes another hash; acknowledges whatever happened |
| waiting room, wait list (`queue/`) | a list and a key per user | join, leave, next, clear, position | two commands where one is needed; keys expire |
| WebSocket gateway (`gateway/ws_router.go`, `pkg/ws/ws.go`) | hub of clients, their channels, registry in Redis | register, deregister, speak, publish, deliver, refresh, stop | one goroutine that must not block; channels closed by one goroutine and used by others; counts kept twice; TTLs |
| authentication, rate limits (`middleware/`, `service/auth_service.go`) | cache of users, counters per address and per buyer | look up, change a role, count | cache filled after it was invalidated; what passes when Redis fails |
| HTTP interface (`handler/`, `router/`, `cmd/`) | none | one handler per route, routed by hand in four processes | a route in the wrong group is served without protection in one process only |
| promotion codes (`service/promo_code_service.go`) | one row per code | create, list, delete, validate; the count of uses is called by nothing | nothing but the unique index |
| order numbers (`pkg/idgen`, `mq/order_no.go`) | time and sequence of a generator | next | clocks that step back; identifiers of 16 bits from three sources |
| statistics (`service/stats_service.go`) | three kinds of keys in Redis | get, one per kind | a result computed earlier is stored later; errors of statements are ignored and zeros stored |

How they interact: a purchase reads the event and its types, reserves in Redis and
publishes; the consumer writes the ticket; the life cycle and the expire checker give
units back to both stores; ownership needs a paid ticket; a publication sets the Redis
stock everything starts from.

What makes each component correct:

* purchase: no unit is sold twice, one ticket per request and per user, every published
  message is dealt with, Redis accounts for its units;
* consumer: nothing is committed before it has been handled, what is committed has been
  settled, a failed handling gives its units back;
* life cycle: units are neither invented nor lost, a used ticket was paid, overdue
  reservations are released;
* ownership: a ticket changes hands only by its owner's deal, to one buyer, and listings
  and transfers account for its owner;
* events: what is sold is not edited; a published event sells all its types; Redis and
  the database agree;
* gateway: what is published reaches the clients that are there, channels are closed once,
  the counts follow the connections, and who has gone is forgotten;
* Streams pipeline: the same promise as the Kafka pipeline, and every entry is handled;
* waiting room: a user is in the queue if and only if the user's key says so;
* requests: a request reaches its service exactly when the route's protections let it, in
  every process, and a changed role is not served from the cache;
* numbers, statistics, shows: processes that are told apart issue different numbers, what
  is wrong in the statistics lasts no longer than their key, a published show stays one.

## Modules

| module | models | composed with |
|---|---|---|
| `TicketPurchase` | one event's purchases: PurchaseTicket, the producer, the consumer loop and `handleMessage` with their failures | implements `TicketSales` |
| `TicketSales` | the abstract promise: units are held while there are any, a request is sold at most once, a sale is final | |
| `TicketLifecycle` | the tickets of one type after their purchase, and the expire checkers | a purchase is one step |
| `TicketOwnership` | listings, purchases on the market, transfers and gifts of paid tickets | the end of a ticket is one step |
| `EventSale` | an event, its types and their stock as organizers change them, with a purchase path in five steps | abridges `TicketPurchase` and `TicketLifecycle` |
| `WsGateway` | the hubs and routers of the instances, their clients, the registry | stands alone: the consumer's call is `SendToUser` |
| `StreamSale` | one event's purchases over Redis Streams, with the repeats of the Redis client | implements `TicketSales` |
| `Shows` | one show as administrators change it | shares `EventStatus` with `EventSale` |
| `EventStatus` | the table of transitions of events and shows | |
| `HttpRoutes` | the tests and statuses of every handler, the routes of the four HTTP processes | a table, used by `Access` |
| `Access` | the way of a request: limits, token, cache of users, role, handler, and the change of a role | extends `HttpRoutes` |
| `WaitingRoom` | the queue and the wait list of one event | |
| `OrderNumbers` | the identifiers of the processes and the numbers they issue | |
| `Stats` | the cached statistics | |
| `MCServices` | one of six services per behaviour | `TicketOwnership`, `WaitingRoom`, `Access`, `OrderNumbers`, `Stats`, `Shows` |
| `MC*` | instances and symmetries for TLC | |
| `*Proofs` | theorems about the module of that name; `ServicesProofs` about the smaller ones of `MCServices`, `TicketSalesProofs` about the refinement | |

The grain is the same everywhere. One action is one access to a store (a statement, a
committed transaction, a Lua script, a broker call) with the local work up to the next
one. What a request read is kept with its session (`hand`, `job`, `cur`) and used in a
later action as the code uses it: without looking again. A process that stops, a command
that fails, and a session that is dropped are actions of their own.

**TicketPurchase.** `call[r]` is where the HTTP request stands (PurchaseTicket up to the
publication, and its rollback). `redisStock` and `bought` are the fields of the
deduction script; the script and its inverse are the operators `SeckillAnswer`,
`SeckillTake` and `SeckillRollback`. `offset`, `end`, `owner`, `position`, `committed`
are the topic and the consumer group as the client library shows them (external).
`pc`, `batch`, `cur`, `attempt`, `top` are a consumer's locals; `key`, `dbStock`,
`tickets` the idempotency keys and the two tables; `outcome` records what a user or an
operator got to see; `faults` counts failures. A ticket carries `top`, the stock before
its deduction, so that "sold twice" can be said of single units. `UpdateStock` subtracts
its argument, as the source does. The idempotency key outlives every redelivery.

**TicketLifecycle.** `step` and `hand` are the sessions of the HTTP handlers and of the
checkers, `found` the rows a checker has read. CancelTicket's transaction is one action,
`expireTicket` is three. `Age` makes a reservation overdue: only of reserved tickets,
since nothing reads the age of another.

**TicketOwnership.** Every operation is a session: `Begin...` reads and tests, the next
action writes. BuyListing's transaction reads in two actions and commits both writes in
one, because at READ COMMITTED its reads see what others commit meanwhile. The errors of
the queries that look for an active listing or a pending request are ignored
(`marketplace_service.go:78`, `ticket_transfer_service.go:53`): a check that fails goes on
as one that found nothing, so a ticket may be listed or requested twice without any race.

**EventSale.** UpdateEvent, CreateTicketType, UpdateTicketType and DeleteTicketType read
and test in `BeginEdit` and write in `SaveEvent`, `SaveType`, `DeleteType`; PublishEvent
is `BeginMove`, `ReadTypes`, `UpdateStatus` and one `InitType` per type. A `Save` of a
row writes all of it, also what was not asked for, and inserts a row that was deleted.
A purchase takes one unit.

**WsGateway.** The hub's goroutine is `hub[i]`: one case of its select, then, one action
each, the router's counting under its lock, the commands to Redis and the start of a
subscription. `register`, `unregister` and `broadcast` are its Go channels, `buffer` the
send channels; a client's two goroutines are the actions of `Pump`. `conn` is "saying"
while the reader waits for room in the broadcast channel. The lookup and the sends of a
delivery are one step, as the shard's lock makes them. A key is in `lasting` while it has
no TTL. Pub/Sub is external: a publication is copied to the subscriptions in effect, and
a subscription, once in effect, stays connected and loses nothing. `overtaken` becomes true when
the select takes a deregistration before the registration of the same client; the client
then stays in the table for ever, and the properties say what holds otherwise. A message
published to a room reaches nobody, since no router subscribes to `ws:room:*`; no code
publishes one.

**StreamSale.** `call[r]` is the HTTP request, as in `TicketPurchase`; publication is one
XADD. `stream`, `group`, `delivered` and `pending` are the stream and the consumer group.
`pc`, `at`, `upto`, `top` are a consumer's locals: the step of `processTicket`, the entry
it is at, the last entry of its batch, the stock it found. A read hands a batch of up to
`BatchSize` new entries to one consumer; a process that stops leaves them pending, and its
successor, which reads under a new name, sees new entries only. Every entry is
acknowledged, whatever the handler answered (`redis_stream_consumer.go:79`). `stray` is the
hash the rollback of a failed order writes (`:122`: the key is the event id, where
purchases use `ticket:<id>`); nothing reads it. `outcome[r]` is what came of the entries of
`r`: a ticket, a failure the user was told of, a duplicate skipped because the key is set,
"unmarked" when the key could not be set (or was set by a command whose reply was lost or
that the client repeated), and "lost" when its consumer stopped or never got it. A Redis command can fail without effect,
take effect unseen, or be repeated by the client although it took effect; the repetition
follows at once, and adds at most one more entry. Notices and the texts of answers are
left out.

**WaitingRoom.** `list` and `mark` are the Redis list and the users' keys; `callStep` and
`whom` a call between two commands. `room` says whether a behaviour is about the queue or
the wait list. The key of the wait list is set from a struct the client cannot encode, and
the error is ignored: it stays unset until the user is notified. A user is `disturbed`
once a join of hers overlapped another operation on her, a command of one failed, her key
expired, or the list was cleared while she was in it. Two leaves, or a leave and
ProcessNext, may overlap without that.

**Access, HttpRoutes.** `HttpRoutes` is a table: for every handler the tests it makes, in
their order, and its statuses; for every process the chain of middlewares in front of
each handler. In `Access` a session sends requests one after the other; `req[s]` is the
request with its flaws (chosen), the middleware it has come to, the user it was judged
by. `hits` are the counters of the two limits, `cached` the cache of users with the
version of the role it holds, `excuse` why a cached role may be out of date: a clearing
that failed, or a fill with a role read before the change. `lucky` marks a request that a failure of
Redis or of the database let through or turned away.

**OrderNumbers.** `MachineId` is the choice of `sonyflake.go`: the environment, the
ordinal of the pod modulo 2^16, the address. `Next` of the library is external. `hasty`
becomes true when a process restarts while its clock has not passed the last number it
issued. A process without an identifier issues random numbers. `ToldApart` speaks of what
the deployment sets, not of what the code makes of it: two processes are told apart by two
values of MACHINE_ID, else by two ordinals of 16 bits, else by two addresses of one /16
network.

**Stats.** `table` is the version of the tickets, `statsCache[k]` the version a key was
computed from. A call reads the key, computes in two actions (the statements, between
which the tickets change) and fills it. A statement may fail; its error is ignored, and
its figures, `Zeros`, are cached like any others. `since[k]` is the version when the key
was last absent with nobody computing what is under it, `zeroed[k]` whether a statement
for it has failed since.

**Shows.** A call reads the row and tests it, and writes later; `SaveShow` writes the whole
row, its status and mark of deletion included, as gorm's `Save` does.

**History variables.** `paid`, `owners`, `configured`, `opened`, `outcome`, `since`,
`zeroed`, `published`, `issued` remember what has happened; no guard reads them. `stale` becomes true when a write relies on a
condition that was tested earlier and no longer holds. Several properties are stated
"unless a write was stale": they say what the code guarantees once its check-then-write
races are set aside, including through every failure; the violation runs show what those
races do. `overtaken`, `excuse`, `disturbed`, `hasty` and `showStale` play the same
part: each names, from what the processes did and never from the property, the one kind of
race or fault after which the property is not promised. A race that a property excuses is
not covered by it: under "hazards", `PROJECT.json` lists such a race with a note and
without the property. `ClosedDealsStay`, `OfferedByAnOwner`, `UsedWasPaid` and
`StatsRecover` have no such excuse.

## Runs

| run | instance | states | shows |
|---|---|---|---|
| `purchase_faults` | 3 purchases of 2 users, 2 types, 1 partition, 2 consumers, 2 failures of any of 10 kinds | 407,484 | safety and `ImplementsSales` |
| `purchase_settles` | 3 purchases, 2 partitions, 2 consumers, 2 failures of 5 kinds, fairness | 154,176 | every published message is settled |
| `purchase_consumer_crash` | 2 purchases, one crash | | violation of `CommittedIsSettled` |
| `purchase_create_fails` | 2 purchases, one failed statement | | violation of `StockAccountedFor` |
| `lifecycle_stock` | 2 tickets of one user, 1 handler, 2 checkers, 1 failure of each side, fairness | 364,917 | units and liveness |
| `lifecycle_oversell` | 3 tickets of 2 users, 2 units, no failure | | violation of `NoOversell` |
| `ownership_sold_twice` | 3 users, 1 listing, 2 sessions | | violation of `SoldToOneBuyer` |
| `event_sale` | 2 types with stock 1 or 2, 2 organizers' sessions, 2 users | 2,791,336 | edits, publications and sales |
| `gateway_delivery` | 2 connections of 1 user to an instance, an instance without router, 1 message to her, 1 message of hers or 1 failing call, fairness | 94,913 | delivery, counts and forgetting |
| `stream_sale` | 3 purchases of 2 users, 2 types, 2 consumers, batches of 2, 2 failures of any of 7 kinds, fairness | 257,592 | `ImplementsSales`, units sold once, second tickets, and handling |
| `stream_undo` | the same purchases, no failure | | violation of `RedisGetsUnitsBack` |
| `services` | one of six services: 1 ticket, 2 users, 2 listings and 1 transfer, or 2 transfers, in 2 sessions; 2 users and 2 calls in the waiting room; 3 sessions on all routes, or on a role and the statistics; 4 processes that number tickets; 2 calls of the statistics; 2 administrators of a show | 1,473,660 | two properties of the deals and one of their steps, two of the requests, one of each other service |

**Why these bounds.** Each hazard needs at most two actors at the same row and one or two
failures. In `purchase_faults` a call for one unit and a call for two compete for two
units, so Redis lets both through and the database refuses one; two consumers are what a
rebalance needs; two failures allow a failure during the repair of another. `MaxRetries`
is 2 where the code has 3 (`mq/ticket_consumer.go`): a first failure, a retry and a dead
letter all happen. `Limit` is 1 where the code has 100, so that a pass of the checker ends
before all overdue rows are found. In `event_sale` the state constraint `Fresh` prunes
what follows a stale write: every property there is stated unless one happened, and
`stale` is never reset. In `gateway_delivery` all channels hold one message where the code
has 1024 and 256, so that each gets full, and `MaxEvents` bounds together what clients say
and the calls whose Redis commands fail. `purchase_faults` leaves out the kind of failure
`db_lost_reply` (a statement commits and its reply is lost), which breaks
`AtMostOneTicketPerRequest`: a lost reply of Create is retried after the key was removed.
`purchase_settles` has it, and leaves out the failures after which a message is really
lost: a consumer crash (the subject of `purchase_consumer_crash`) and a lost Redis reply.
`stream_sale` has all kinds of failure, `db_lost` included: no
entry is handled again once it was acknowledged, so the case that breaks the Kafka
pipeline does not arise. Its units are scarce as in `purchase_faults`, and one user has
two calls. `MCServices` checks services that share no state; a behaviour is about one, so
that their states add up and do not multiply. Its instances hold two actors at every
shared row. `RowsInOrder` explores what two listings and a request, or two requests, become;
rows of a table are alike, and a new one is the next. A queue of length 3 lets a user be in
it twice next to another. Of the four processes of `OrderNumbers` two have addresses that
differ in the first byte only, one has the ordinal 65543, which becomes the 7 of one of
those addresses, and one has nothing (MACHINE_ID is compared with all others in the proof
alone); the sequence has 2 values in place of 2^8, so that it gets full. `stream_undo`
needs no failure at all: Redis counts calls and the database units. Limits of one request make the second one the refused one.
`CHECK_DEADLOCK FALSE` is right everywhere: users stop buying, organizers stop editing,
and bounded behaviours end.

**Fairness.** `FairSpec` of `TicketPurchase` has weak fairness of the steps of a request
after its reservation and of each consumer's loop and handler: the goroutines run while
their process does, each waits only for calls with a timeout, and a crashed consumer is
a member that starts again from the committed offsets. There is none for users, crashes,
rebalances or failures, whose number `MaxFaults` bounds. `FairSpec` of `TicketLifecycle`
has weak fairness of each checker's pass, which the ticker of
`StartTicketExpireChecker` starts every minute. Nothing is assumed of the handlers. `FairSpec` of
`WsGateway` has weak fairness of the goroutines' own steps and of the expiry of keys, and
strong fairness where a goroutine meets a channel: Go's select picks at random among the
cases that are ready, and a channel admits its waiting senders in their order. `FairSpec`
of `StreamSale` has weak fairness of each consumer's loop: a process that stopped is
started again (`restart:` in docker-compose, the Deployments of `k8s/`). The services have
no liveness property: a call that stops half-way is dropped by the code.

**Mutants.** For each property of a passing run, `PROJECT.json` names an operator with a
plausible bug ("Mutant: ..." in the modules) that makes TLC find the property violated
under the same configuration.

## What the checks found

Each is the finding of a violation run in `PROJECT.json`, with the lines quoted.

1. The consumer sets its idempotency key before the work; a crash in between loses the
   message although it is committed (`ticket_consumer.go:86`).
2. The rollback of the database stock after a failed insert subtracts a second time
   (`ticket_consumer.go:132`).
3. PayTicket and the expire checker write over each other's status: a paid ticket whose
   units are sold again (`ticket_service.go:228`). A cancelled ticket is overwritten the same way.
4. The row locks of BuyListing are asked for with a setting gorm v2 ignores: one listing
   is sold to two buyers (`marketplace_service.go:103`).
5. The Streams consumer returns the units of failed orders to a hash that nothing reads
   (`redis_stream_consumer.go:122`): they are never offered again and the buyer stays a
   buyer, although the script's comments promise both (`adapter.go:49-59`).

Read in the code while modelling it, part of the models, and contradicted by a comment or
a document; no run is about them:

* The Streams consumer acknowledges entries whose key could not be set
  (`redis_stream_consumer.go:79`), although the comment says "not acknowledged, wait for a
  retry" (`:105`). `PublishedIsHandled` leaves these out by name.
* The wait list cannot store its entries (`waitlist.go:65`), so a user can join any number
  of times and is never told a position, although the code means to refuse a second place
  (`waitlist.go:32-36`) and to keep the entry for seven days (`:64-65`). `RoomInStep` speaks of
  the queue alone. The queue, too, lets a user in twice when two joins overlap, although it
  answers "do not submit again" to the second (`queue.go:60`).
* Order numbers are said to be globally unique (`README.md:105`, `:268`), but services
  started on one host as the same document describes (section nine) have the same address
  and so the same machine identifier. `NumbersDiffer` holds for processes that are `ToldApart`.
* UpdateUserRole clears the cache "so that the next request gets the latest role"
  (`auth_service.go:106`), but a request that read the user before the change may fill it
  again afterwards, and the error of the clearing is ignored.

Read in the code, part of the models, and contradicted by nothing, or reached by nothing:

* ApproveTransfer takes the ticket from whoever owns it by then
  (`ticket_transfer_service.go:106`); UpdateEvent's whole-row save turns an event published
  meanwhile into a draft again (`event_service.go:119`), and UpdateShow's a show.
  gorm's `Save` inserts a row again that was deleted meanwhile.
* A ticket can have two active listings, or two pending requests: the search for the first
  and the insertion of the second are separate, and an error of the search is ignored.
* `InvalidateStatsCache`, `RevokeToken`, `ProcessNext`, `NotifyNext`, `ClearQueue`,
  `UsePromoCode`, the show's `DeductStock` and `StockAwareLimitMiddleware` are called by
  nothing. PublishShow writes nothing to Redis, so purchases with a show are always sold out.
  The stock in `seckill:stock:<id>` that JoinWaitlist looks at is never filled.
* The sales trend of any number of days is cached under one key; a statement of the
  statistics that fails leaves zeros, which are cached.
* `/api/auth/*` is behind the public limit in one process and unlimited in another.
* A promotion code that was deleted cannot be created again: its row still has the code.

## Proofs

All for arbitrary constants that satisfy the named assumptions of the modules.

| theorem | states | argument |
|---|---|---|
| `TicketPurchaseProofs!Typing` | `[](TypeOK /\ LogInv)` | `LogInv` ties the consumers to the log: what a consumer has in hand has been published; committed ≤ polled ≤ end; a polled record of an owned partition is in hand, in the batch, or has an outcome |
| `AtLeastOnce` | `[]CommittedWasHandled` | part of `LogInv` |
| `AtMostOnce` | `[]AtMostOneTicketPerRequest` if `"db_lost_reply" \notin Faults` | `KeyInv`: a request with a ticket, or with a consumer past SetNX, has its key; at most one consumer is past SetNX with it, and none once it has a ticket |
| `NoOversell` | `[]UnitsSoldOnce` | `StockInv`: the units given out, those of consumers about to insert included, are pairwise disjoint and all lie above the stock that is left |
| `OneForEach` | `[]OneTicketPerUser` | `CleanInv`: as long as nothing has failed, a record is in one consumer's hands at most and is handled once, and the user of a reservation that stands is among the buyers and has no other |
| `CommittedSettles` | `[]CommittedIsSettled` if no consumer stops, no Redis reply is lost and dead letters get through | `SettleInv`: a request whose idempotency key is set, or that has an outcome, is settled or in a consumer's hands |
| `UnitsAccountedFor` | `[]StockAccountedFor` if no statement fails and no consumer stops | `TakenInv`: the units of the tickets and of the consumers about to insert one are all those between the stock that is left and the initial stock |
| `RedisAccounts` | `[]RedisAccountsForUnits` | `RedisInv` adds to `CleanInv` that the reservations of a type can be counted and make up, with the hash, the initial stock |
| `TicketSalesProofs!Implementation` | `Spec => Sales!SalesSpec` if `"db_lost_reply" \notin Faults` | each step of the pipeline is a step of `TicketSales` or a stutter, under `KeyInv` and `StockInv` |
| `StreamSaleProofs!StreamTyping` | `[]TypeOK` | a consumer is at an entry of its batch, and its batch was delivered |
| `StreamImplementation` | `Spec => Sales!SalesSpec`, under every failure | `KeyInv`: a request with a ticket, or with a consumer past SetNX, has its key, and one consumer at most is past SetNX with it, however often the entry is in the stream; a request has one reported ticket at most |
| `StreamBuyers` | `[]SecondTicketAfterFailure` | `BuyerInv`: the buyer of a call that was let through and not answered with a failure is in the set of buyers, and no other call of hers was let through meanwhile |
| `StreamUnits` | `[]UnitsSoldOnce`, under every failure | `UnitInv`: as `StockInv` above, over all rows, also those whose insertion was reported as failed |
| `TicketLifecycleProofs!LifecycleTyping` | `TypeOK` and that a busy session has a ticket | |
| `UsedOnlyPaid`, `ReservedLeftForGood` | `[]UsedWasPaid`, `ReservedIsLeftForGood` | `PaidInv`: a session that is about to write "used" has read "paid", which the ticket once was |
| `OneLive` | `[]OneLiveTicketPerUser` | `ClaimInv`: unless a status was overwritten, whoever has a live ticket, or one whose unit is still owed to Redis, is in the set of buyers, and has one such ticket only |
| `NothingInvented`, `NothingLost` | `[]NoUnitInvented`, `[]NoUnitLost` | `BooksInv`: unless a status was overwritten, the sums over the live tickets and over the checkers that still owe units are finite and never exceed, with the stock, the initial stock; while no checker has failed they make it up |
| `OversoldByOverwriting` | `[](~ stale => NoOversell)` | `BooksInv` and a stock that is never negative |
| `RedisGetsBack` | `[]RedisUnitsReturn` | `RedisInv`: the live tickets and the workers that owe Redis a unit can be counted, and an end of a ticket moves one from here to there |
| `TicketOwnershipProofs!OwnershipTyping` | `[]TypeOK` | |
| `OnlyOwnersOffer` | `[]OfferedByAnOwner` | `OfferInv`: what a session is about to write was read of an owner, and owners are never forgotten |
| `OwnershipBooks` | `[]BooksBalance` | `DealInv`: what a session is about to write agrees with the open row it read; `BooksInv`: the deals can be counted, and each step changes the deals of a user as it changes the owner |
| `ClosedStay` | `ClosedDealsStay`, whatever is overwritten | `DealInv`: a session about to write a listing read it active, and a review its request pending |
| `EventSaleProofs!SaleTyping` | `[]TypeOK`: no stock is ever negative | |
| `SoldTypes` | `[]SoldTypesAreThere` | `SaleInv`: unless a write was stale, nobody buys tickets of a draft, none of its types is in Redis, and no publication is writing there |
| `StockAsConfigured`, `RedisInStep` | `[]StockIsAsConfigured`, `[]RedisMatchesDatabase` | `BookInv` adds both to `SaleInv`; a step of a purchase moves one user between the sets that are counted |
| `AllTypesOpen` | `[]OnSaleIsOpen` | `OpenInv`: unless a write was stale or a publication failed, each type of an event that is no draft has its field, or a publication is on the way to it |
| `ServicesProofs!ShowStays` | `[]PublishedShowStays` | a session that is about to write what contradicts a publication makes `showStale` true |
| `StatsRecovery` | `[]StatsRecover` | `StatsInv`: what a session has read for a key, as what the key holds, is not older than `since`, or is zeros of a statement that failed since; the record moves only when neither is there |
| `StaleRoles` | `[]StaleNeedsRace` | inductive once requests are known to be records: a change of a role is at its clearing from the moment it is written |
| `JudgedRequests` | `[]RequestsAreJudged` | `JudgedInv`: a request that no failure touched stands behind the middlewares it has passed, with the user they judged it by; that the routes of a handler agree is proved from the tables |
| `RoomAgrees` | `[]RoomInStep` | a user nobody disturbed is in the queue once with a key or not at all without one, or calls about her are half way and say which of the two is behind; while she joins, no other call is about her |
| `NumbersAreUnique` | `[]NumbersDiffer` | `NumbersInv`: a number a process issued in this life is behind its time and sequence, and one of an earlier life is, too, unless it restarted in haste; `ApartByMachine`: what tells two processes apart tells their identifiers apart |
| `WsGatewayProofs!GatewayTypeOK` | `[]TypeOK`: no channel holds more than it can | |
| `GatewayClosedOnce` | `[]ClosedOnce` | `TableInv`: a client waits for registration once and not while in the table; the channel of one that was closed is in neither, and never comes back |
| `GatewayCounts` | `[]ConnectionsAreCounted` | `GatewayInv`: each step the hub still has to do for a client (`hub[i].at`) says by how much the router's count is behind the table, and Redis behind the router; unless overtaken, a connection that has ended and waits for its registration also waits for its deregistration |

Few of the safety properties are inductive as they stand: they speak of tables, and what
threatens them is what a session holds in its hands, which the strengthenings add. TLC
checked the strengthenings on the instances of the runs before they were proved.

Two theorems are the other side of a violation run: `UnitsAccountedFor` and
`OversoldByOverwriting` say that what the run refutes holds as long as the step it found
does not happen.

Sums are cardinalities: a sum over tickets counts the pairs of a ticket and one of its
units (`Copies` and `Total` in `TicketLifecycle`), so that adding a ticket adds finitely many
elements, which the library's theorems about finite sets reach without an induction. The
finiteness is part of the invariants; nothing assumes finitely many tickets or users.
`LRem` says what LREM leaves through the places that stay, and `Handlers` joins its
tables through the set of them, where `SelectSeq` and `@@` are out of the prover's reach.

Only model-checked: liveness (`PublishedIsSettled`, `PublishedIsHandled`,
`OverdueIsReleased`, `PublishedIsDelivered`, `GoneIsForgotten`, `RegistryForgets`), which needs
ENABLED. Every safety property of a passing run is proved.

Only proved: `ReservedLeftForGood`, and the types of the gateway, of the Streams pipeline
and of the ownership of tickets, which no run repeats.

## What is not modelled

* Purchases with a show, which are always sold out; `events.total_stock` and the stock of
  a show, which nothing tests.
* The gateway's authentication of a connection, Stop (its commands fail: the context is
  cancelled before them, `ws_router.go:90-93`, and the keys are left to their TTL), and the
  publications to rooms and to everybody, which nobody calls.
* Passwords, the format and the expiry of tokens: a token is valid, invalid or revoked by
  choice. The registration of a user is the insertion of a row.
* Promotion codes: their routes create, list, test and delete single rows, and no step
  relies on an earlier one but for the unique index. The count of uses is called by nothing.
* The numbers: CalculateDiscount (routed, with the validation of a code), the estimated waiting time, the aggregates of the
  statistics and the funnel, which is not cached. They are formulas without state.
* In `HttpRoutes`, the parsing of numbers and bodies is an input, and what a service
  answers is chosen. The bound on the quantity (`handler/ticket_handler.go:25`) and the
  refusal of a zero stock (`binding:"required"`) are assumptions of the other models.
* The repeats of the Redis client in `TicketPurchase`: they are in `StreamSale`, whose
  reservation is the same script.
* Configuration, connections, start and stop of processes, logging, tracing, e-mail: pure
  I/O. The web client, the migrations and the manifests hold no logic the models need.
* Times: back-off, polling intervals, TTLs. A timeout is a step that may happen. The key
  `mq:processed:...` is taken to outlive every redelivery (24 hours).

## What is left

Every module planned is written, and every safety property of the runs is proved. In the
order of what would add most:

1. Proofs about the messages of the gateway: a client gets what was published to its user,
   once and in the order of the publications to one instance.
2. The refinement of `TicketSales` by `EventSale`, whose purchase path abridges the pipeline.
3. Stop of a gateway, and the rooms, when code calls them.
