----------------------------- MODULE HttpRoutes -----------------------------
(***************************************************************************)
(* The HTTP interface of the four processes that serve it: what each       *)
(* handler of internal/handler tests before it calls its service, which    *)
(* statuses it answers with, and behind which middlewares each process     *)
(* routes it.  A route is named by its handler; a path is left out.        *)
(***************************************************************************)
EXTENDS Sequences

(***************************************************************************)
(* A handler tests its input in the order of tests, each of which ends the *)
(* request when it fails: "id" (the number in the path), "body" (binding   *)
(* of the JSON body), "time" (the RFC 3339 times in it), and "user"        *)
(* (getUser: some middleware has set the user).  Then it calls its service *)
(* and answers ok, or one of errors.                                       *)
(***************************************************************************)
Handler(tests, ok, errors) == [tests |-> tests, ok |-> ok, errors |-> errors]

EventAdminHandlers ==
    [ CreateEvent      |-> Handler(<<"body", "time">>, 201, {400}),
      UpdateEvent      |-> Handler(<<"id", "body", "time">>, 200, {400}) ]

EventHandlers ==
    [ GetEvent         |-> Handler(<<"id">>, 200, {404}),
      ListEvents       |-> Handler(<< >>, 200, {500}),
      PublishEvent     |-> Handler(<<"id">>, 200, {400}),
      UnpublishEvent   |-> Handler(<<"id">>, 200, {400}),
      CreateTicketType |-> Handler(<<"id", "body">>, 201, {400}),
      UpdateTicketType |-> Handler(<<"id", "body">>, 200, {400}) ]

StockHandlers ==
    [ DeleteTicketType |-> Handler(<<"id">>, 204, {400}),
      GetEventStock    |-> Handler(<<"id">>, 200, {400}),
      EndEvent         |-> Handler(<<"id">>, 200, {400}) ]

ShowEditHandlers ==
    [ CreateShow       |-> Handler(<<"id", "body", "time">>, 201, {400}),
      UpdateShow       |-> Handler(<<"id", "body", "time">>, 200, {400}),
      DeleteShow       |-> Handler(<<"id">>, 204, {400}) ]

ShowHandlers ==
    [ PublishShow      |-> Handler(<<"id">>, 200, {400}),
      UnpublishShow    |-> Handler(<<"id">>, 200, {400}),
      ListShows        |-> Handler(<<"id">>, 200, {500}),
      GetShow          |-> Handler(<<"id">>, 200, {404}) ]

\* A purchase answers apart for sold out, duplicate and over the limit.
TicketHandlers ==
    [ PurchaseTicket   |-> Handler(<<"body", "user">>, 200, {410, 409, 400, 500}),
      GetMyTickets     |-> Handler(<<"user">>, 200, {500}),
      GetTicketDetail  |-> Handler(<<"id", "user">>, 200, {403, 404}),
      PayTicket        |-> Handler(<<"id", "user">>, 200, {400}),
      CancelTicket     |-> Handler(<<"id", "user">>, 200, {400}) ]

UseHandlers ==
    [ UseTicket        |-> Handler(<<"id", "user">>, 200, {400}) ]

MarketplaceHandlers ==
    [ CreateListing    |-> Handler(<<"body", "user">>, 201, {400}),
      BuyListing       |-> Handler(<<"id", "user">>, 200, {400}),
      CancelListing    |-> Handler(<<"id", "user">>, 200, {400}),
      GetListing       |-> Handler(<<"id">>, 200, {404}),
      ListActive       |-> Handler(<< >>, 200, {500}),
      ListByEvent      |-> Handler(<<"id">>, 200, {500}) ]

MyMarketplaceHandlers ==
    [ ListMyListings   |-> Handler(<<"user">>, 200, {500}),
      ListMyPurchases  |-> Handler(<<"user">>, 200, {500}) ]

TransferHandlers ==
    [ RequestTransfer     |-> Handler(<<"body", "user">>, 201, {400}),
      DirectGift          |-> Handler(<<"body", "user">>, 201, {400}),
      GetTransferHistory  |-> Handler(<<"user">>, 200, {500}),
      ApproveTransfer     |-> Handler(<<"id", "user">>, 200, {400}),
      RejectTransfer      |-> Handler(<<"id", "body", "user">>, 200, {400}),
      GetPendingTransfers |-> Handler(<< >>, 200, {500}) ]

PromoCodeHandlers ==
    [ CreatePromoCode   |-> Handler(<<"body", "time">>, 201, {400}),
      ValidatePromoCode |-> Handler(<<"body">>, 200, {400}),
      GetPromoCodes     |-> Handler(<<"id">>, 200, {500}),
      DeletePromoCode   |-> Handler(<<"id">>, 200, {500}) ]

StatsHandlers ==
    [ GetDashboardStats   |-> Handler(<< >>, 200, {500}),
      GetSalesTrend       |-> Handler(<< >>, 200, {500}),
      GetTicketTypeStats  |-> Handler(<< >>, 200, {500}),
      GetConversionFunnel |-> Handler(<<"id">>, 200, {500}) ]

QueueHandlers ==
    [ JoinQueue         |-> Handler(<<"id", "user">>, 200, {400}),
      GetPosition       |-> Handler(<<"id", "user">>, 200, {400}),
      LeaveQueue        |-> Handler(<<"id", "user">>, 200, {400}) ]

WaitlistHandlers ==
    [ JoinWaitlist        |-> Handler(<<"id", "user">>, 200, {400}),
      GetWaitlistPosition |-> Handler(<<"id", "user">>, 200, {400}),
      LeaveWaitlist       |-> Handler(<<"id", "user">>, 200, {400}) ]

AuthHandlers ==
    [ Register          |-> Handler(<<"body">>, 201, {409}),
      Login             |-> Handler(<<"body">>, 200, {401}),
      GetProfile        |-> Handler(<<"user">>, 200, {}),
      UpdateUserRole    |-> Handler(<<"body">>, 200, {400}) ]

\* The health check says "degraded" in the body of a 200.
HealthHandlers ==
    [ HealthCheck       |-> Handler(<< >>, 200, {}) ]

\* The handlers of all, each of which is in one group.
HandlerGroups ==
    {EventAdminHandlers, EventHandlers, StockHandlers, ShowEditHandlers,
     ShowHandlers, TicketHandlers, UseHandlers, MarketplaceHandlers,
     MyMarketplaceHandlers, TransferHandlers, PromoCodeHandlers,
     StatsHandlers, QueueHandlers, WaitlistHandlers, AuthHandlers, HealthHandlers}

Handlers ==
    [h \in UNION {DOMAIN g : g \in HandlerGroups} |->
        (CHOOSE g \in HandlerGroups : h \in DOMAIN g)[h]]

-----------------------------------------------------------------------------
(* The routes.  The middlewares that can end a request are "ip" (the limit *)
(* per address), "jwt" (the token and the user), "role" (administrators)   *)
(* and "user" (the limit per user); they run in the order of the chain.    *)

Behind(chain, handlers) == {[chain |-> chain, handler |-> h] : h \in handlers}

Open   == << >>
Public == <<"ip">>
Member == <<"jwt">>
Buyer  == <<"jwt", "user">>
Admin  == <<"jwt", "role">>

\* /register and /login are limited, /api/auth/register and /login are not.
AuthRoutes == Behind(Public, {"Register", "Login"}) \cup Behind(Open, {"Register", "Login"})

EventRoutes == {"ListEvents", "GetEvent", "GetEventStock"}
QueueRoutes == {"JoinQueue", "GetPosition", "LeaveQueue"}
OwnTickets == {"GetMyTickets", "GetTicketDetail"}
TicketRequests == {"PayTicket", "CancelTicket", "UseTicket"}
TransferRoutes == {"RequestTransfer", "DirectGift", "GetTransferHistory"}
MarketplaceRoutes ==
    {"ListActive", "ListMyListings", "ListMyPurchases", "ListByEvent", "GetListing",
     "CreateListing", "BuyListing", "CancelListing"}
PromoRoutes == {"ValidatePromoCode", "GetPromoCodes"}
AdminRoutesShared ==
    {"CreateEvent", "UpdateEvent", "PublishEvent", "UnpublishEvent", "EndEvent",
     "CreateTicketType", "UpdateTicketType", "DeleteTicketType",
     "CreateShow", "UpdateShow", "DeleteShow", "PublishShow", "UnpublishShow",
     "CreatePromoCode", "DeletePromoCode",
     "GetDashboardStats", "GetSalesTrend", "GetTicketTypeStats", "GetConversionFunnel",
     "GetPendingTransfers", "ApproveTransfer", "RejectTransfer"}

\* The monolithic process.
ApiRoutes ==
    Behind(Open, {"HealthCheck"}) \cup AuthRoutes
    \cup Behind(Member, {"GetProfile", "ListShows", "GetShow",
                         "JoinWaitlist", "GetWaitlistPosition", "LeaveWaitlist"}
                        \cup EventRoutes \cup QueueRoutes \cup PromoRoutes
                        \cup OwnTickets \cup TicketRequests
                        \cup TransferRoutes \cup MarketplaceRoutes)
    \cup Behind(Buyer, {"PurchaseTicket"})
    \cup Behind(Admin, AdminRoutesShared \cup {"UpdateUserRole"})

\* The three processes of the divided deployment.
SeckillRoutes ==
    Behind(Open, {"HealthCheck"}) \cup AuthRoutes
    \cup Behind(Member, EventRoutes \cup QueueRoutes \cup OwnTickets)
    \cup Behind(Buyer, {"PurchaseTicket"})

OrderRoutes ==
    Behind(Open, {"HealthCheck"}) \cup AuthRoutes
    \cup Behind(Member, {"GetProfile"} \cup OwnTickets \cup TicketRequests
                        \cup TransferRoutes \cup MarketplaceRoutes \cup PromoRoutes)

AdminRoutes ==
    Behind(Open, {"HealthCheck"}) \cup Behind(Public, {"Register", "Login"})
    \cup Behind(Admin, AdminRoutesShared)

Routes == ApiRoutes \cup SeckillRoutes \cup OrderRoutes \cup AdminRoutes

=============================================================================
