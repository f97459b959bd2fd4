--------------------------- MODULE TicketOwnership ---------------------------
(***************************************************************************)
(* How a paid ticket changes hands: on the marketplace (internal/service/  *)
(* marketplace_service.go) and by transfers and gifts                      *)
(* (ticket_transfer_service.go).  A request is a session of a worker: it   *)
(* reads rows, tests them, and writes in later statements.  BuyListing     *)
(* alone runs in a transaction, but without locks: gorm v2 ignores the     *)
(* "gorm:query_option" setting that asks for FOR UPDATE, and the isolation *)
(* level is READ COMMITTED.  Its two writes become visible together.       *)
(***************************************************************************)
EXTENDS Integers, FiniteSets

CONSTANTS
    Users, Tickets,
    FirstOwner,     \* who bought the ticket from the organizer
    Listings,       \* the rows marketplace_listings may have
    Transfers,      \* the rows ticket_transfers may have
    Workers,        \* goroutines that serve HTTP requests
    NoUser          \* buyer_id of a listing that is not sold

ASSUME OwnerAssumption ==
    /\ FirstOwner \in [Tickets -> Users]
    /\ NoUser \notin Users
    /\ Tickets # {} /\ Users # {}

VARIABLES
    owner,          \* tickets.user_id
    status,         \* tickets.status, as far as it is paid or no longer so
    listing,        \* the rows of marketplace_listings
    transfer,       \* the rows of ticket_transfers
    step,           \* the next step of a worker's session, "idle" if it has none
    job,            \* what the session has read and been asked for
    owners,         \* history: everybody who has owned a ticket
    stale,          \* history: a write relied on what no longer held
    dropped         \* history: a session stopped before its hand-over

rowVars  == <<owner, status, listing, transfer>>
history  == <<owners, stale, dropped>>
vars == <<owner, status, listing, transfer, step, job, owners, stale, dropped>>

ListingStatus == {"none", "active", "sold", "cancelled"}
TransferStatus == {"none", "pending", "approved", "rejected"}

Listing == [ticket : Tickets, seller : Users, buyer : Users \cup {NoUser},
            status : ListingStatus]
Transfer == [ticket : Tickets, from : Users, to : Users, status : TransferStatus]

Steps == {"idle", "list-check", "list-insert", "buy-ticket", "buy-commit", "unlist",
          "request-check", "request-insert", "approve", "reject", "gift", "hand-over"}

\* user acts on ticket, in favour of to; the row it has read is the listing or
\* the transfer id, which read as was.  In a purchase, to is the owner of the
\* ticket when it was read.
Job == [user : Users, to : Users, ticket : Tickets,
        id : Listings \cup Transfers \cup {NoUser},
        wasListing : Listing, wasTransfer : Transfer]

\* Values of rows and jobs that mean nothing.
Someone == CHOOSE u \in Users : TRUE
Something == CHOOSE t \in Tickets : TRUE
NoListing == [ticket |-> Something, seller |-> Someone, buyer |-> NoUser, status |-> "none"]
NoTransfer == [ticket |-> Something, from |-> Someone, to |-> Someone, status |-> "none"]
NoJob == [user |-> Someone, to |-> Someone, ticket |-> Something, id |-> NoUser,
          wasListing |-> NoListing, wasTransfer |-> NoTransfer]

TypeOK ==
    /\ owner \in [Tickets -> Users]
    /\ status \in [Tickets -> {"paid", "ended"}]
    /\ listing \in [Listings -> Listing]
    /\ transfer \in [Transfers -> Transfer]
    /\ step \in [Workers -> Steps]
    /\ job \in [Workers -> Job]
    /\ owners \in [Tickets -> SUBSET Users]
    /\ stale \in BOOLEAN
    /\ dropped \in BOOLEAN

Init ==
    /\ owner = FirstOwner
    /\ status = [t \in Tickets |-> "paid"]
    /\ listing = [l \in Listings |-> NoListing]
    /\ transfer = [x \in Transfers |-> NoTransfer]
    /\ step = [w \in Workers |-> "idle"]
    /\ job = [w \in Workers |-> NoJob]
    /\ owners = [t \in Tickets |-> {FirstOwner[t]}]
    /\ stale = FALSE
    /\ dropped = FALSE

-----------------------------------------------------------------------------
(* Sessions.                                                               *)

\* w starts a session, or goes on with it, at step s and with job j.
Go(w, s, j) ==
    /\ step' = [step EXCEPT ![w] = s]
    /\ job' = [job EXCEPT ![w] = j]

\* w answers its request.
Answer(w) == Go(w, "idle", NoJob)

\* A step that only reads.
ReadOnly == UNCHANGED <<rowVars, history>>

\* A write that relied on what no longer holds.
Stale(holds) == stale' = (stale \/ ~ holds)

\* Ticket t gets a new owner, whatever its row says now.
UpdateOwner(t, u) ==
    /\ owner' = [owner EXCEPT ![t] = u]
    /\ owners' = [owners EXCEPT ![t] = @ \cup {u}]

\* FindByTicketID of the two repositories.
Listed(t) == \E l \in Listings : listing[l].ticket = t /\ listing[l].status = "active"
Requested(t) == \E x \in Transfers : transfer[x].ticket = t /\ transfer[x].status = "pending"

-----------------------------------------------------------------------------
(* The marketplace.                                                        *)

\* Mutant: anybody may offer any paid ticket.
MayOfferAnybody(u, t) == status[t] = "paid"

\* The tests CreateListing, RequestTransfer and DirectGift make of the ticket.
MayOffer(u, t) == owner[t] = u /\ status[t] = "paid"

BeginListing(w, u, t) ==
    /\ step[w] = "idle"
    /\ MayOffer(u, t)
    /\ Go(w, "list-check", [NoJob EXCEPT !.user = u, !.ticket = t])
    /\ ReadOnly

\* FindByTicketID looks for an active listing of the ticket.  Its error is
\* ignored: a query that fails counts as one that found nothing.
CheckListing(w) ==
    /\ step[w] = "list-check"
    /\ \/ Listed(job[w].ticket) /\ Answer(w)
       \/ Go(w, "list-insert", job[w])
    /\ ReadOnly

InsertListing(w) ==
    LET j == job[w] IN
    /\ step[w] = "list-insert"
    /\ \E l \in Listings :
         /\ listing[l].status = "none"
         /\ listing' = [listing EXCEPT ![l] =
              [ticket |-> j.ticket, seller |-> j.user, buyer |-> NoUser, status |-> "active"]]
    /\ Stale(MayOffer(j.user, j.ticket))
    /\ Answer(w)
    /\ UNCHANGED <<owner, status, transfer, owners, dropped>>

\* The first query of BuyListing, and its tests of the listing.
BeginBuy(w, u, l) ==
    /\ step[w] = "idle"
    /\ listing[l].status = "active"
    /\ listing[l].seller # u
    /\ Go(w, "buy-ticket", [NoJob EXCEPT !.user = u, !.id = l,
                                !.ticket = listing[l].ticket, !.wasListing = listing[l]])
    /\ ReadOnly

\* Mutant: the owner of the ticket is not compared with the seller.
CheckTicketAlways(w) ==
    /\ step[w] = "buy-ticket"
    /\ Go(w, "buy-commit", [job[w] EXCEPT !.to = owner[job[w].ticket]])
    /\ ReadOnly

\* The second query: the ticket must still be the seller's.
CheckTicket(w) ==
    /\ step[w] = "buy-ticket"
    /\ IF owner[job[w].ticket] = job[w].wasListing.seller
       THEN Go(w, "buy-commit", [job[w] EXCEPT !.to = owner[job[w].ticket]])
       ELSE Answer(w)
    /\ ReadOnly

\* The two updates and the commit.
CommitBuy(w) ==
    LET j == job[w] IN
    /\ step[w] = "buy-commit"
    /\ UpdateOwner(j.ticket, j.user)
    /\ listing' = [listing EXCEPT ![j.id] = [@ EXCEPT !.status = "sold", !.buyer = j.user]]
    /\ Stale(listing[j.id] = j.wasListing /\ owner[j.ticket] = j.to)
    /\ Answer(w)
    /\ UNCHANGED <<status, transfer, dropped>>

\* CancelListing on behalf of the seller.
BeginUnlist(w, l) ==
    /\ step[w] = "idle"
    /\ listing[l].status = "active"
    /\ Go(w, "unlist", [NoJob EXCEPT !.user = listing[l].seller, !.id = l,
                            !.wasListing = listing[l]])
    /\ ReadOnly

\* Update saves the whole row that was read, buyer and all.
SaveUnlisted(w) ==
    LET j == job[w] IN
    /\ step[w] = "unlist"
    /\ listing' = [listing EXCEPT ![j.id] = [j.wasListing EXCEPT !.status = "cancelled"]]
    /\ Stale(listing[j.id] = j.wasListing)
    /\ Answer(w)
    /\ UNCHANGED <<owner, status, transfer, owners, dropped>>

-----------------------------------------------------------------------------
(* Transfers and gifts.                                                    *)

\* RequestTransfer: the receiver may be the owner.
BeginTransfer(w, u, t, to) ==
    /\ step[w] = "idle"
    /\ MayOffer(u, t)
    /\ Go(w, "request-check", [NoJob EXCEPT !.user = u, !.ticket = t, !.to = to])
    /\ ReadOnly

\* FindByTicketID looks for a pending request of the ticket; as above, a query
\* that fails counts as one that found nothing.
CheckTransfer(w) ==
    /\ step[w] = "request-check"
    /\ \/ Requested(job[w].ticket) /\ Answer(w)
       \/ Go(w, "request-insert", job[w])
    /\ ReadOnly

\* A row of ticket_transfers for the session's ticket.
NewTransfer(w, s) ==
    \E x \in Transfers :
        /\ transfer[x].status = "none"
        /\ transfer' = [transfer EXCEPT ![x] =
             [ticket |-> job[w].ticket, from |-> job[w].user, to |-> job[w].to, status |-> s]]

InsertTransfer(w) ==
    /\ step[w] = "request-insert"
    /\ NewTransfer(w, "pending")
    /\ Stale(MayOffer(job[w].user, job[w].ticket))
    /\ Answer(w)
    /\ UNCHANGED <<owner, status, listing, owners, dropped>>

\* Mutant: a request is not tested for being pending.
BeginReviewAgain(w, x, verdict) ==
    /\ step[w] = "idle"
    /\ transfer[x].status # "none"
    /\ Go(w, verdict, [NoJob EXCEPT !.user = transfer[x].from, !.to = transfer[x].to,
                           !.ticket = transfer[x].ticket, !.id = x,
                           !.wasTransfer = transfer[x]])
    /\ ReadOnly

\* ApproveTransfer and RejectTransfer of an administrator.
BeginReview(w, x, verdict) ==
    /\ step[w] = "idle"
    /\ transfer[x].status = "pending"
    /\ Go(w, verdict, [NoJob EXCEPT !.user = transfer[x].from, !.to = transfer[x].to,
                           !.ticket = transfer[x].ticket, !.id = x,
                           !.wasTransfer = transfer[x]])
    /\ ReadOnly

\* The request is approved; its ticket changes hands in a later statement.
SaveApproved(w) ==
    LET j == job[w] IN
    /\ step[w] = "approve"
    /\ transfer' = [transfer EXCEPT ![j.id] = [j.wasTransfer EXCEPT !.status = "approved"]]
    /\ Stale(transfer[j.id] = j.wasTransfer)
    /\ Go(w, "hand-over", j)
    /\ UNCHANGED <<owner, status, listing, owners, dropped>>

SaveRejected(w) ==
    LET j == job[w] IN
    /\ step[w] = "reject"
    /\ transfer' = [transfer EXCEPT ![j.id] = [j.wasTransfer EXCEPT !.status = "rejected"]]
    /\ Stale(transfer[j.id] = j.wasTransfer)
    /\ Answer(w)
    /\ UNCHANGED <<owner, status, listing, owners, dropped>>

\* DirectGift, which an administrator need not approve.
BeginGift(w, u, t, to) ==
    /\ step[w] = "idle"
    /\ MayOffer(u, t)
    /\ to # u
    /\ Go(w, "gift", [NoJob EXCEPT !.user = u, !.ticket = t, !.to = to])
    /\ ReadOnly

InsertGift(w) ==
    /\ step[w] = "gift"
    /\ NewTransfer(w, "approved")
    /\ Stale(MayOffer(job[w].user, job[w].ticket))
    /\ Go(w, "hand-over", job[w])
    /\ UNCHANGED <<owner, status, listing, owners, dropped>>

\* UpdateOwner after an approval or a gift: nobody looks whose ticket it is.
HandOver(w) ==
    /\ step[w] = "hand-over"
    /\ UpdateOwner(job[w].ticket, job[w].to)
    /\ Stale(owner[job[w].ticket] = job[w].user)
    /\ Answer(w)
    /\ UNCHANGED <<status, listing, transfer, dropped>>

-----------------------------------------------------------------------------
\* A statement of the session whose error ends it fails, or its process stops.
Fail(w) ==
    /\ step[w] # "idle"
    /\ Answer(w)
    /\ dropped' = (dropped \/ step[w] = "hand-over")
    /\ UNCHANGED <<rowVars, owners, stale>>

\* The owner uses or cancels the ticket (TicketLifecycle has the details).
EndTicket(t) ==
    /\ status[t] = "paid"
    /\ status' = [status EXCEPT ![t] = "ended"]
    /\ UNCHANGED <<owner, listing, transfer, step, job, history>>

Market(w) ==
    \/ \E u \in Users, t \in Tickets : BeginListing(w, u, t)
    \/ CheckListing(w) \/ InsertListing(w)
    \/ \E u \in Users, l \in Listings : BeginBuy(w, u, l)
    \/ CheckTicket(w) \/ CommitBuy(w)
    \/ \E l \in Listings : BeginUnlist(w, l)
    \/ SaveUnlisted(w)

Hand(w) ==
    \/ \E u, to \in Users, t \in Tickets : BeginTransfer(w, u, t, to) \/ BeginGift(w, u, t, to)
    \/ CheckTransfer(w) \/ InsertTransfer(w)
    \/ \E x \in Transfers, verdict \in {"approve", "reject"} : BeginReview(w, x, verdict)
    \/ SaveApproved(w) \/ SaveRejected(w)
    \/ InsertGift(w) \/ HandOver(w)

Next ==
    \/ \E w \in Workers : Market(w) \/ Hand(w) \/ Fail(w)
    \/ \E t \in Tickets : EndTicket(t)

Spec == Init /\ [][Next]_vars

-----------------------------------------------------------------------------
(* Properties.                                                             *)

\* Only somebody who has owned a ticket has put it on the market or offered to
\* transfer it, whatever the sessions have overwritten.
OfferedByAnOwner ==
    /\ \A l \in Listings :
          listing[l].status # "none" => listing[l].seller \in owners[listing[l].ticket]
    /\ \A x \in Transfers :
          transfer[x].status # "none" => transfer[x].from \in owners[transfer[x].ticket]

\* The deals that gave u the ticket t, and those that took it away.  An
\* approval that has not come to its hand-over does not count yet.
Sold(t) == {l \in Listings : listing[l].status = "sold" /\ listing[l].ticket = t}
Approved(t) == {x \in Transfers : transfer[x].status = "approved" /\ transfer[x].ticket = t}
HandingOver(t) == {w \in Workers : step[w] = "hand-over" /\ job[w].ticket = t}

In(u, t) ==
    Cardinality({l \in Sold(t) : listing[l].buyer = u})
    + Cardinality({x \in Approved(t) : transfer[x].to = u})
    - Cardinality({w \in HandingOver(t) : job[w].to = u})

Out(u, t) ==
    Cardinality({l \in Sold(t) : listing[l].seller = u})
    + Cardinality({x \in Approved(t) : transfer[x].from = u})
    - Cardinality({w \in HandingOver(t) : job[w].user = u})

\* The books balance: unless a write was stale or a hand-over was dropped,
\* the sold listings and approved transfers say who owns a ticket, each of its
\* owners having got it once more often than given it away.
BooksBalance ==
    ~ stale /\ ~ dropped =>
        \A t \in Tickets, u \in Users :
            (IF FirstOwner[t] = u THEN 1 ELSE 0) + In(u, t) - Out(u, t)
                = IF owner[t] = u THEN 1 ELSE 0

\* A closed deal is reopened by nobody who could know: a listing that was sold or
\* cancelled is changed only by a session that read it while it was active, and a
\* request that was approved or rejected only by a review that read it pending.
ClosedDealsStay ==
    [][/\ \A l \in Listings :
             listing[l].status \in {"sold", "cancelled"} /\ listing'[l] # listing[l] =>
                \E w \in Workers : step[w] \in {"buy-commit", "unlist"}
                                  /\ job[w].id = l /\ job[w].wasListing.status = "active"
       /\ \A x \in Transfers :
             transfer[x].status \in {"approved", "rejected"} /\ transfer'[x] # transfer[x] =>
                \E w \in Workers : step[w] \in {"approve", "reject"}
                                  /\ job[w].id = x /\ job[w].wasTransfer.status = "pending"]_vars

\* A listing has one buyer ("transaction and SELECT FOR UPDATE, against
\* concurrent purchases of the same ticket", marketplace_service.go:99).
SoldToOneBuyer ==
    [][\A l \in Listings :
          listing[l].buyer # NoUser => listing'[l].buyer \in {listing[l].buyer, NoUser}]_vars

=============================================================================
