------------------------ MODULE TicketOwnershipProofs ------------------------
(***************************************************************************)
(* Proofs about TicketOwnership, for any users, tickets, rows and workers: *)
(* type correctness; that only an owner ever offers a ticket, whatever the *)
(* sessions overwrite; that a closed deal is reopened only by a session    *)
(* that read it open; and, unless a write was stale, that the closed deals *)
(* say who owns a ticket.                                                  *)
(***************************************************************************)
EXTENDS TicketOwnership, FiniteSetTheorems, TLAPS

-----------------------------------------------------------------------------
(* Type correctness.                                                       *)

\* The rows and jobs that mean nothing are rows and jobs.
LEMMA EmptyRows ==
    /\ Someone \in Users /\ Something \in Tickets
    /\ NoListing \in Listing /\ NoTransfer \in Transfer /\ NoJob \in Job
<1>1. Someone \in Users /\ Something \in Tickets
  BY OwnerAssumption DEF Someone, Something
<1>2. NoListing \in Listing /\ NoTransfer \in Transfer
  BY <1>1 DEF NoListing, NoTransfer, Listing, Transfer, ListingStatus, TransferStatus
<1>3. NoJob \in Job
  BY <1>1, <1>2 DEF NoJob, Job
<1> QED
  BY <1>1, <1>2, <1>3

\* The initial state is well typed.
LEMMA TypeInit == Init => TypeOK
<1> SUFFICES ASSUME Init PROVE TypeOK
  OBVIOUS
<1>1. listing \in [Listings -> Listing] /\ transfer \in [Transfers -> Transfer]
  BY EmptyRows DEF Init
<1>2. step \in [Workers -> Steps] /\ job \in [Workers -> Job]
  BY EmptyRows DEF Init, Steps
<1>3. owner \in [Tickets -> Users] /\ owners \in [Tickets -> SUBSET Users]
  BY OwnerAssumption DEF Init
<1>4. status \in [Tickets -> {"paid", "ended"}] /\ stale \in BOOLEAN /\ dropped \in BOOLEAN
  BY DEF Init
<1> QED
  BY <1>1, <1>2, <1>3, <1>4 DEF TypeOK

\* A session that goes on with a job of the right type stays well typed.
LEMMA TypeGo ==
    ASSUME TypeOK, NEW w \in Workers, NEW s \in Steps, NEW j \in Job, Go(w, s, j)
    PROVE  step' \in [Workers -> Steps] /\ job' \in [Workers -> Job]
BY DEF TypeOK, Go

\* So does one that answers.
LEMMA TypeAnswer ==
    ASSUME TypeOK, NEW w \in Workers, Answer(w)
    PROVE  step' \in [Workers -> Steps] /\ job' \in [Workers -> Job]
<1>1. "idle" \in Steps
  BY DEF Steps
<1> QED
  BY <1>1, EmptyRows, TypeGo DEF Answer

\* The steps that only read.
LEMMA TypeRead ==
    ASSUME TypeOK, ReadOnly, step' \in [Workers -> Steps], job' \in [Workers -> Job]
    PROVE  TypeOK'
BY DEF TypeOK, ReadOnly, rowVars, history

\* A new owner is a user.
LEMMA TypeOwner ==
    ASSUME TypeOK, NEW t \in Tickets, NEW u \in Users, UpdateOwner(t, u)
    PROVE  owner' \in [Tickets -> Users] /\ owners' \in [Tickets -> SUBSET Users]
BY DEF TypeOK, UpdateOwner

\* The job a session begins with is one.
LEMMA TypeBegin ==
    ASSUME NEW u \in Users, NEW t \in Tickets, NEW to \in Users,
           NEW i \in Listings \cup Transfers \cup {NoUser},
           NEW row \in Listing, NEW was \in Transfer
    PROVE  /\ [NoJob EXCEPT !.user = u, !.ticket = t] \in Job
           /\ [NoJob EXCEPT !.user = u, !.ticket = t, !.to = to] \in Job
           /\ [NoJob EXCEPT !.user = u, !.id = i, !.ticket = t, !.wasListing = row] \in Job
           /\ [NoJob EXCEPT !.user = u, !.id = i, !.wasListing = row] \in Job
           /\ [NoJob EXCEPT !.user = u, !.to = to, !.ticket = t, !.id = i,
                            !.wasTransfer = was] \in Job
BY EmptyRows DEF Job

\* The steps of the marketplace keep the types.
LEMMA TypeMarket ==
    ASSUME TypeOK, NEW w \in Workers, Market(w)
    PROVE  TypeOK'
<1> USE DEF Steps
<1>1. ASSUME NEW u \in Users, NEW t \in Tickets, BeginListing(w, u, t) PROVE TypeOK'
  BY <1>1, EmptyRows, TypeBegin, TypeGo, TypeRead DEF BeginListing
<1>2. CASE CheckListing(w)
  <2>1. job[w] \in Job
    BY DEF TypeOK
  <2> QED
    BY <1>2, <2>1, TypeGo, TypeAnswer, TypeRead DEF CheckListing
<1>3. CASE InsertListing(w)
  <2>1. listing' \in [Listings -> Listing]
    BY <1>3 DEF InsertListing, TypeOK, Job, Listing, ListingStatus
  <2> QED
    BY <1>3, <2>1, TypeAnswer DEF InsertListing, TypeOK, Stale
<1>4. ASSUME NEW u \in Users, NEW l \in Listings, BeginBuy(w, u, l) PROVE TypeOK'
  <2>1. listing[l] \in Listing /\ listing[l].ticket \in Tickets
    BY DEF TypeOK, Listing
  <2> QED
    BY <1>4, <2>1, EmptyRows, TypeBegin, TypeGo, TypeRead DEF BeginBuy
<1>5. CASE CheckTicket(w)
  <2>1. [job[w] EXCEPT !.to = owner[job[w].ticket]] \in Job
    BY DEF TypeOK, Job
  <2> QED
    BY <1>5, <2>1, TypeGo, TypeAnswer, TypeRead DEF CheckTicket
<1>6. CASE CommitBuy(w)
  <2>1. job[w].ticket \in Tickets /\ job[w].user \in Users
    BY DEF TypeOK, Job
  <2>2. listing' \in [Listings -> Listing]
    <3>1. ASSUME NEW l \in Listings
          PROVE  [listing[l] EXCEPT !.status = "sold", !.buyer = job[w].user] \in Listing
      BY <2>1 DEF TypeOK, Listing, ListingStatus
    <3> QED
      BY <1>6, <3>1 DEF CommitBuy, TypeOK
  <2>3. owner' \in [Tickets -> Users] /\ owners' \in [Tickets -> SUBSET Users]
    BY <1>6, <2>1, TypeOwner DEF CommitBuy
  <2> QED
    BY <1>6, <2>2, <2>3, TypeAnswer DEF CommitBuy, TypeOK, Stale
<1>7. ASSUME NEW l \in Listings, BeginUnlist(w, l) PROVE TypeOK'
  <2>1. listing[l] \in Listing /\ listing[l].seller \in Users
    BY DEF TypeOK, Listing
  <2> QED
    BY <1>7, <2>1, EmptyRows, TypeBegin, TypeGo, TypeRead DEF BeginUnlist
<1>8. CASE SaveUnlisted(w)
  <2>1. job[w].wasListing \in Listing
    BY DEF TypeOK, Job
  <2>2. [job[w].wasListing EXCEPT !.status = "cancelled"] \in Listing
    BY <2>1 DEF Listing, ListingStatus
  <2>3. listing' \in [Listings -> Listing]
    BY <1>8, <2>2 DEF SaveUnlisted, TypeOK
  <2> QED
    BY <1>8, <2>3, TypeAnswer DEF SaveUnlisted, TypeOK, Stale
<1> QED
  BY <1>1, <1>2, <1>3, <1>4, <1>5, <1>6, <1>7, <1>8 DEF Market

\* A new row of ticket_transfers is one.
LEMMA TypeNewTransfer ==
    ASSUME TypeOK, NEW w \in Workers, NEW s \in TransferStatus, NewTransfer(w, s)
    PROVE  transfer' \in [Transfers -> Transfer]
BY DEF NewTransfer, TypeOK, Job, Transfer

\* The steps of transfers and gifts keep the types.
LEMMA TypeHand ==
    ASSUME TypeOK, NEW w \in Workers, Hand(w)
    PROVE  TypeOK'
<1> USE DEF Steps, TransferStatus
<1>j. job[w] \in Job
  BY DEF TypeOK
<1>1. ASSUME NEW u \in Users, NEW to \in Users, NEW t \in Tickets,
             BeginTransfer(w, u, t, to) \/ BeginGift(w, u, t, to)
      PROVE  TypeOK'
  BY <1>1, EmptyRows, TypeBegin, TypeGo, TypeRead DEF BeginTransfer, BeginGift
<1>2. CASE CheckTransfer(w)
  BY <1>2, <1>j, TypeGo, TypeAnswer, TypeRead DEF CheckTransfer
<1>3. CASE InsertTransfer(w)
  <2>1. transfer' \in [Transfers -> Transfer]
    BY <1>3, TypeNewTransfer DEF InsertTransfer
  <2> QED
    BY <1>3, <2>1, TypeAnswer DEF InsertTransfer, TypeOK, Stale
<1>4. ASSUME NEW x \in Transfers, NEW verdict \in {"approve", "reject"},
             BeginReview(w, x, verdict)
      PROVE  TypeOK'
  <2>1. /\ transfer[x] \in Transfer /\ transfer[x].ticket \in Tickets
        /\ transfer[x].from \in Users /\ transfer[x].to \in Users
    BY DEF TypeOK, Transfer
  <2> QED
    BY <1>4, <2>1, EmptyRows, TypeBegin, TypeGo, TypeRead DEF BeginReview
<1>5. CASE SaveApproved(w) \/ SaveRejected(w)
  <2>1. job[w].wasTransfer \in Transfer
    BY <1>j DEF Job
  <2>2. ASSUME NEW s \in TransferStatus
        PROVE  [job[w].wasTransfer EXCEPT !.status = s] \in Transfer
    BY <2>1 DEF Transfer
  <2>3. transfer' \in [Transfers -> Transfer]
    BY <1>5, <2>2 DEF SaveApproved, SaveRejected, TypeOK
  <2>4. step' \in [Workers -> Steps] /\ job' \in [Workers -> Job]
    BY <1>5, <1>j, TypeGo, TypeAnswer DEF SaveApproved, SaveRejected
  <2> QED
    BY <1>5, <2>3, <2>4 DEF SaveApproved, SaveRejected, TypeOK, Stale
<1>6. CASE InsertGift(w)
  <2>1. transfer' \in [Transfers -> Transfer]
    BY <1>6, TypeNewTransfer DEF InsertGift
  <2>2. step' \in [Workers -> Steps] /\ job' \in [Workers -> Job]
    BY <1>6, <1>j, TypeGo DEF InsertGift
  <2> QED
    BY <1>6, <2>1, <2>2 DEF InsertGift, TypeOK, Stale
<1>7. CASE HandOver(w)
  <2>1. job[w].ticket \in Tickets /\ job[w].to \in Users
    BY <1>j DEF Job
  <2>2. owner' \in [Tickets -> Users] /\ owners' \in [Tickets -> SUBSET Users]
    BY <1>7, <2>1, TypeOwner DEF HandOver
  <2> QED
    BY <1>7, <2>2, TypeAnswer DEF HandOver, TypeOK, Stale
<1> QED
  BY <1>1, <1>2, <1>3, <1>4, <1>5, <1>6, <1>7 DEF Hand

\* Every step keeps the types.
LEMMA TypeNext == TypeOK /\ [Next]_vars => TypeOK'
<1> SUFFICES ASSUME TypeOK, [Next]_vars PROVE TypeOK'
  OBVIOUS
<1>1. ASSUME NEW w \in Workers, Fail(w) PROVE TypeOK'
  <2>1. step' \in [Workers -> Steps] /\ job' \in [Workers -> Job]
    BY <1>1, TypeAnswer DEF Fail
  <2>2. dropped' \in BOOLEAN
    BY <1>1 DEF Fail
  <2> QED
    BY <1>1, <2>1, <2>2 DEF Fail, TypeOK, rowVars
<1>2. ASSUME NEW t \in Tickets, EndTicket(t) PROVE TypeOK'
  BY <1>2 DEF EndTicket, TypeOK, history
<1>3. CASE UNCHANGED vars
  BY <1>3 DEF vars, TypeOK
<1> QED
  BY <1>1, <1>2, <1>3, TypeMarket, TypeHand DEF Next

\* Every reachable state is well typed.
THEOREM OwnershipTyping == Spec => []TypeOK
BY TypeInit, TypeNext, PTL DEF Spec

-----------------------------------------------------------------------------
(* Only an owner offers a ticket.                                          *)

\* What a session has read makes its user, or the seller or requester of the
\* row it has read, somebody who has owned the ticket.
JobInv ==
    \A w \in Workers :
        LET j == job[w] IN
        /\ step[w] \in {"list-check", "list-insert", "request-check", "request-insert", "gift"}
              => j.user \in owners[j.ticket]
        /\ step[w] \in {"buy-ticket", "buy-commit"}
              => j.id \in Listings /\ listing[j.id].status # "none"
        /\ step[w] = "unlist" => j.wasListing.seller \in owners[j.wasListing.ticket]
        /\ step[w] \in {"approve", "reject"}
              => j.wasTransfer.from \in owners[j.wasTransfer.ticket]

OwnerRecorded == \A t \in Tickets : owner[t] \in owners[t]

\* The inductive invariant: OfferedByAnOwner holds because a session that is
\* about to write a row read, when it began, that its user was the owner, and
\* because nobody is forgotten in owners.
OfferInv == OwnerRecorded /\ JobInv /\ OfferedByAnOwner

\* Initially the only owner is the first one, and nothing is offered.
LEMMA OfferInit == Init => OfferInv
<1> SUFFICES ASSUME Init PROVE OfferInv
  OBVIOUS
<1>1. OwnerRecorded
  BY OwnerAssumption DEF Init, OwnerRecorded
<1>2. JobInv
  BY DEF Init, JobInv
<1>3. OfferedByAnOwner
  BY DEF Init, OfferedByAnOwner, NoListing, NoTransfer
<1> QED
  BY <1>1, <1>2, <1>3 DEF OfferInv

\* A session that begins or goes on, or that answers, keeps JobInv if its own
\* part of it holds afterwards and the rows and owners have only grown.
LEMMA JobStep ==
    ASSUME TypeOK, JobInv, NEW w \in Workers, NEW s, NEW j, Go(w, s, j),
           \A t \in Tickets : owners[t] \subseteq owners'[t],
           \A l \in Listings : listing[l].status # "none" => listing'[l].status # "none",
           s \in {"list-check", "list-insert", "request-check", "request-insert", "gift"}
              => j.user \in owners'[j.ticket],
           s \in {"buy-ticket", "buy-commit"}
              => j.id \in Listings /\ listing'[j.id].status # "none",
           s = "unlist" => j.wasListing.seller \in owners'[j.wasListing.ticket],
           s \in {"approve", "reject"}
              => j.wasTransfer.from \in owners'[j.wasTransfer.ticket]
    PROVE  JobInv'
<1>1. step'[w] = s /\ job'[w] = j
  BY DEF Go, TypeOK
<1>2. \A v \in Workers : v # w => step'[v] = step[v] /\ job'[v] = job[v]
  BY DEF Go, TypeOK
<1>3. \A v \in Workers : /\ job[v].ticket \in Tickets
                         /\ job[v].wasListing.ticket \in Tickets
                         /\ job[v].wasTransfer.ticket \in Tickets
  BY DEF TypeOK, Job, Listing, Transfer
<1> SUFFICES ASSUME NEW v \in Workers
             PROVE  LET k == job'[v] IN
        /\ step'[v] \in {"list-check", "list-insert", "request-check", "request-insert", "gift"}
              => k.user \in owners'[k.ticket]
        /\ step'[v] \in {"buy-ticket", "buy-commit"}
              => k.id \in Listings /\ listing'[k.id].status # "none"
        /\ step'[v] = "unlist" => k.wasListing.seller \in owners'[k.wasListing.ticket]
        /\ step'[v] \in {"approve", "reject"}
              => k.wasTransfer.from \in owners'[k.wasTransfer.ticket]
  BY DEF JobInv
<1>4. CASE v = w
  BY <1>1, <1>4
<1>5. CASE v # w
  BY <1>2, <1>3, <1>5 DEF JobInv
<1> QED
  BY <1>4, <1>5

\* An answer has nothing to keep.
LEMMA JobAnswer ==
    ASSUME TypeOK, JobInv, NEW w \in Workers, Answer(w),
           \A t \in Tickets : owners[t] \subseteq owners'[t],
           \A l \in Listings : listing[l].status # "none" => listing'[l].status # "none"
    PROVE  JobInv'
BY JobStep DEF Answer

\* A step that only reads keeps the parts about rows.
LEMMA OfferRead ==
    ASSUME OfferInv, ReadOnly, JobInv'
    PROVE  OfferInv'
BY DEF OfferInv, ReadOnly, rowVars, history, OwnerRecorded, OfferedByAnOwner

\* A change of owner is recorded and forgets nobody.
LEMMA OwnerStep ==
    ASSUME TypeOK, OwnerRecorded, NEW t \in Tickets, NEW u \in Users, UpdateOwner(t, u)
    PROVE  OwnerRecorded' /\ \A v \in Tickets : owners[v] \subseteq owners'[v]
BY DEF TypeOK, OwnerRecorded, UpdateOwner

\* The steps of the marketplace keep OfferInv.
LEMMA OfferMarket ==
    ASSUME TypeOK, OfferInv, NEW w \in Workers, Market(w)
    PROVE  OfferInv'
<1> USE DEF OfferInv
<1>j. job[w] \in Job /\ job[w].ticket \in Tickets /\ job[w].user \in Users
  BY DEF TypeOK, Job
<1>1. ASSUME NEW u \in Users, NEW t \in Tickets, BeginListing(w, u, t) PROVE OfferInv'
  <2> DEFINE k == [NoJob EXCEPT !.user = u, !.ticket = t]
  <2>1. k.user = u /\ k.ticket = t
    BY EmptyRows DEF Job
  <2>2. u \in owners'[t]
    BY <1>1 DEF BeginListing, MayOffer, OwnerRecorded, ReadOnly, history
  <2>3. JobInv'
    BY <1>1, <2>1, <2>2, JobStep DEF BeginListing, ReadOnly, rowVars, history
  <2> QED
    BY <1>1, <2>3, OfferRead DEF BeginListing
<1>2. CASE CheckListing(w)
  <2>1. JobInv'
    BY <1>2, JobStep, JobAnswer DEF CheckListing, ReadOnly, rowVars, history, JobInv
  <2> QED
    BY <1>2, <2>1, OfferRead DEF CheckListing
<1>3. CASE InsertListing(w)
  <2>1. \A l \in Listings : listing[l].status # "none" => listing'[l].status # "none"
    BY <1>3 DEF InsertListing, TypeOK
  <2>2. JobInv'
    BY <1>3, <2>1, JobAnswer DEF InsertListing
  <2>3. job[w].user \in owners[job[w].ticket]
    BY <1>3 DEF InsertListing, JobInv
  <2>4. OfferedByAnOwner'
    BY <1>3, <2>3 DEF InsertListing, OfferedByAnOwner, TypeOK
  <2> QED
    BY <1>3, <2>2, <2>4 DEF InsertListing, OwnerRecorded
<1>4. ASSUME NEW u \in Users, NEW l \in Listings, BeginBuy(w, u, l) PROVE OfferInv'
  <2> DEFINE k == [NoJob EXCEPT !.user = u, !.id = l, !.ticket = listing[l].ticket,
                                !.wasListing = listing[l]]
  <2>1. k.id = l
    BY EmptyRows DEF Job
  <2>2. listing'[l].status # "none"
    BY <1>4 DEF BeginBuy, ReadOnly, rowVars
  <2>3. JobInv'
    BY <1>4, <2>1, <2>2, JobStep DEF BeginBuy, ReadOnly, rowVars, history
  <2> QED
    BY <1>4, <2>3, OfferRead DEF BeginBuy
<1>5. CASE CheckTicket(w)
  <2> DEFINE k == [job[w] EXCEPT !.to = owner[job[w].ticket]]
  <2>1. k.id = job[w].id
    BY <1>j DEF Job
  <2>2. k.id \in Listings /\ listing'[k.id].status # "none"
    BY <1>5, <2>1 DEF CheckTicket, JobInv, ReadOnly, rowVars
  <2>3. JobInv'
    BY <1>5, <2>2, JobStep, JobAnswer DEF CheckTicket, ReadOnly, rowVars, history
  <2> QED
    BY <1>5, <2>3, OfferRead DEF CheckTicket
<1>6. CASE CommitBuy(w)
  <2>1. job[w].id \in Listings /\ listing[job[w].id].status # "none"
    BY <1>6 DEF CommitBuy, JobInv
  <2>2. OwnerRecorded' /\ \A t \in Tickets : owners[t] \subseteq owners'[t]
    BY <1>6, <1>j, OwnerStep DEF CommitBuy
  <2>3. \A l \in Listings : /\ listing'[l].ticket = listing[l].ticket
                            /\ listing'[l].seller = listing[l].seller
                            /\ listing[l].status = "none" <=> listing'[l].status = "none"
    BY <1>6, <2>1 DEF CommitBuy, TypeOK, Listing
  <2>4. JobInv'
    BY <1>6, <2>2, <2>3, JobAnswer DEF CommitBuy
  <2>5. OfferedByAnOwner'
    BY <1>6, <2>2, <2>3 DEF CommitBuy, OfferedByAnOwner, TypeOK, Listing, Transfer
  <2> QED
    BY <2>2, <2>4, <2>5
<1>7. ASSUME NEW l \in Listings, BeginUnlist(w, l) PROVE OfferInv'
  <2> DEFINE k == [NoJob EXCEPT !.user = listing[l].seller, !.id = l, !.wasListing = listing[l]]
  <2>1. k.wasListing = listing[l]
    BY EmptyRows DEF Job
  <2>2. listing[l].seller \in owners'[listing[l].ticket]
    BY <1>7 DEF BeginUnlist, OfferedByAnOwner, ReadOnly, history
  <2>3. JobInv'
    BY <1>7, <2>1, <2>2, JobStep DEF BeginUnlist, ReadOnly, rowVars, history
  <2> QED
    BY <1>7, <2>3, OfferRead DEF BeginUnlist
<1>8. CASE SaveUnlisted(w)
  <2> DEFINE row == [job[w].wasListing EXCEPT !.status = "cancelled"]
  <2>1. job[w].wasListing \in Listing
    BY <1>j DEF Job
  <2>2. /\ row.seller = job[w].wasListing.seller /\ row.ticket = job[w].wasListing.ticket
        /\ row.status = "cancelled"
    BY <2>1 DEF Listing
  <2>3. row.seller \in owners[row.ticket]
    BY <1>8, <2>2 DEF SaveUnlisted, JobInv
  <2>4. \A l \in Listings : listing'[l] \in {listing[l], row}
    BY <1>8 DEF SaveUnlisted, TypeOK
  <2>5. JobInv'
    BY <1>8, <2>2, <2>4, JobAnswer DEF SaveUnlisted
  <2>6. OfferedByAnOwner'
    BY <1>8, <2>3, <2>4 DEF SaveUnlisted, OfferedByAnOwner
  <2> QED
    BY <1>8, <2>5, <2>6 DEF SaveUnlisted, OwnerRecorded
<1> QED
  BY <1>1, <1>2, <1>3, <1>4, <1>5, <1>6, <1>7, <1>8 DEF Market

\* The steps of transfers and gifts keep OfferInv.
LEMMA OfferHand ==
    ASSUME TypeOK, OfferInv, NEW w \in Workers, Hand(w)
    PROVE  OfferInv'
<1> USE DEF OfferInv
<1>j. job[w] \in Job /\ job[w].ticket \in Tickets /\ job[w].to \in Users
  BY DEF TypeOK, Job
<1>1. ASSUME NEW u \in Users, NEW to \in Users, NEW t \in Tickets,
             BeginTransfer(w, u, t, to) \/ BeginGift(w, u, t, to)
      PROVE  OfferInv'
  <2> DEFINE k == [NoJob EXCEPT !.user = u, !.ticket = t, !.to = to]
  <2>1. k.user = u /\ k.ticket = t
    BY EmptyRows DEF Job
  <2>2. u \in owners'[t]
    BY <1>1 DEF BeginTransfer, BeginGift, MayOffer, OwnerRecorded, ReadOnly, history
  <2>3. JobInv'
    BY <1>1, <2>1, <2>2, JobStep DEF BeginTransfer, BeginGift, ReadOnly, rowVars, history
  <2> QED
    BY <1>1, <2>3, OfferRead DEF BeginTransfer, BeginGift
<1>2. CASE CheckTransfer(w)
  <2>1. JobInv'
    BY <1>2, JobStep, JobAnswer DEF CheckTransfer, ReadOnly, rowVars, history, JobInv
  <2> QED
    BY <1>2, <2>1, OfferRead DEF CheckTransfer
<1>3. CASE InsertTransfer(w)
  <2>1. JobInv'
    BY <1>3, JobAnswer DEF InsertTransfer
  <2>2. job[w].user \in owners[job[w].ticket]
    BY <1>3 DEF InsertTransfer, JobInv
  <2>3. OfferedByAnOwner'
    BY <1>3, <2>2 DEF InsertTransfer, NewTransfer, OfferedByAnOwner, TypeOK
  <2> QED
    BY <1>3, <2>1, <2>3 DEF InsertTransfer, OwnerRecorded
<1>4. ASSUME NEW x \in Transfers, NEW verdict \in {"approve", "reject"},
             BeginReview(w, x, verdict)
      PROVE  OfferInv'
  <2> DEFINE k == [NoJob EXCEPT !.user = transfer[x].from, !.to = transfer[x].to,
                                !.ticket = transfer[x].ticket, !.id = x,
                                !.wasTransfer = transfer[x]]
  <2>1. k.wasTransfer = transfer[x]
    BY EmptyRows DEF Job
  <2>2. transfer[x].from \in owners'[transfer[x].ticket]
    BY <1>4 DEF BeginReview, OfferedByAnOwner, ReadOnly, history
  <2>3. JobInv'
    BY <1>4, <2>1, <2>2, JobStep DEF BeginReview, ReadOnly, rowVars, history
  <2> QED
    BY <1>4, <2>3, OfferRead DEF BeginReview
<1>5. CASE SaveApproved(w) \/ SaveRejected(w)
  <2>1. job[w].wasTransfer \in Transfer
    BY <1>j DEF Job
  <2>2. PICK v \in {"approved", "rejected"} :
           \A x \in Transfers : transfer'[x] \in
               {transfer[x], [job[w].wasTransfer EXCEPT !.status = v]}
    BY <1>5 DEF SaveApproved, SaveRejected, TypeOK
  <2> DEFINE row == [job[w].wasTransfer EXCEPT !.status = v]
  <2>3. row.from = job[w].wasTransfer.from /\ row.ticket = job[w].wasTransfer.ticket
    BY <2>1 DEF Transfer
  <2>4. row.from \in owners[row.ticket]
    BY <1>5, <2>3 DEF SaveApproved, SaveRejected, JobInv
  <2>5. JobInv'
    BY <1>5, JobStep, JobAnswer DEF SaveApproved, SaveRejected
  <2>6. OfferedByAnOwner'
    BY <1>5, <2>2, <2>4 DEF SaveApproved, SaveRejected, OfferedByAnOwner
  <2> QED
    BY <1>5, <2>5, <2>6 DEF SaveApproved, SaveRejected, OwnerRecorded
<1>6. CASE InsertGift(w)
  <2>1. JobInv'
    BY <1>6, JobStep DEF InsertGift
  <2>2. job[w].user \in owners[job[w].ticket]
    BY <1>6 DEF InsertGift, JobInv
  <2>3. OfferedByAnOwner'
    BY <1>6, <2>2 DEF InsertGift, NewTransfer, OfferedByAnOwner, TypeOK
  <2> QED
    BY <1>6, <2>1, <2>3 DEF InsertGift, OwnerRecorded
<1>7. CASE HandOver(w)
  <2>1. OwnerRecorded' /\ \A t \in Tickets : owners[t] \subseteq owners'[t]
    BY <1>7, <1>j, OwnerStep DEF HandOver
  <2>2. JobInv'
    BY <1>7, <2>1, JobAnswer DEF HandOver
  <2>3. OfferedByAnOwner'
    BY <1>7, <2>1 DEF HandOver, OfferedByAnOwner, TypeOK, Listing, Transfer
  <2> QED
    BY <2>1, <2>2, <2>3
<1> QED
  BY <1>1, <1>2, <1>3, <1>4, <1>5, <1>6, <1>7 DEF Hand

\* Every step keeps OfferInv.
LEMMA OfferNext == TypeOK /\ OfferInv /\ [Next]_vars => OfferInv'
<1> SUFFICES ASSUME TypeOK, OfferInv, [Next]_vars PROVE OfferInv'
  OBVIOUS
<1>1. ASSUME NEW w \in Workers, Fail(w) PROVE OfferInv'
  <2>1. JobInv'
    BY <1>1, JobAnswer DEF Fail, rowVars, OfferInv
  <2> QED
    BY <1>1, <2>1 DEF Fail, rowVars, OfferInv, OwnerRecorded, OfferedByAnOwner
<1>2. CASE (\E t \in Tickets : EndTicket(t)) \/ UNCHANGED vars
  BY <1>2 DEF EndTicket, vars, history, OfferInv, OwnerRecorded, JobInv, OfferedByAnOwner
<1> QED
  BY <1>1, <1>2, OfferMarket, OfferHand DEF Next

\* Whatever the sessions overwrite, only somebody who has owned a ticket has
\* put it on the market or offered to transfer it.
THEOREM OnlyOwnersOffer == Spec => []OfferedByAnOwner
<1>1. TypeOK /\ OfferInv /\ [Next]_vars => TypeOK' /\ OfferInv'
  BY TypeNext, OfferNext
<1>2. OfferInv => OfferedByAnOwner
  BY DEF OfferInv
<1> QED
  BY <1>1, <1>2, TypeInit, OfferInit, PTL DEF Spec

-----------------------------------------------------------------------------
(* The books of a ticket.                                                  *)

\* What was stale once remains so.
LEMMA StaleStays == [Next]_vars /\ stale => stale'
<1> SUFFICES ASSUME [Next]_vars, stale PROVE stale'
  OBVIOUS
<1>1. ASSUME NEW w \in Workers, InsertListing(w) \/ CommitBuy(w) \/ SaveUnlisted(w)
      PROVE  stale'
  BY <1>1 DEF InsertListing, CommitBuy, SaveUnlisted, Stale
<1>2. ASSUME NEW w \in Workers, Market(w), ~ InsertListing(w), ~ CommitBuy(w), ~ SaveUnlisted(w)
      PROVE  stale'
  BY <1>2 DEF Market, BeginListing, CheckListing, BeginBuy, CheckTicket, BeginUnlist,
     ReadOnly, history
<1>3. ASSUME NEW w \in Workers,
             InsertTransfer(w) \/ SaveApproved(w) \/ SaveRejected(w) \/ InsertGift(w) \/ HandOver(w)
      PROVE  stale'
  BY <1>3 DEF InsertTransfer, SaveApproved, SaveRejected, InsertGift, HandOver, Stale, history
<1>4. ASSUME NEW w \in Workers, Hand(w), ~ InsertTransfer(w), ~ SaveApproved(w),
             ~ SaveRejected(w), ~ InsertGift(w), ~ HandOver(w)
      PROVE  stale'
  BY <1>4 DEF Hand, BeginTransfer, BeginGift, CheckTransfer, BeginReview, ReadOnly, history
<1>5. ASSUME NEW w \in Workers, Fail(w) PROVE stale'
  BY <1>5 DEF Fail, history
<1>6. ASSUME NEW t \in Tickets, EndTicket(t) PROVE stale'
  BY <1>6 DEF EndTicket, history
<1>7. CASE UNCHANGED vars
  BY <1>7 DEF vars, history
<1> QED
  BY <1>1, <1>2, <1>3, <1>4, <1>5, <1>6, <1>7 DEF Next

\* The deals that count for user u and ticket t, by what they did for u, and
\* the sessions that are about to hand t over.
BoughtBy(u, t) == {l \in Sold(t) : listing[l].buyer = u}
SoldBy(u, t) == {l \in Sold(t) : listing[l].seller = u}
GivenTo(u, t) == {x \in Approved(t) : transfer[x].to = u}
GivenBy(u, t) == {x \in Approved(t) : transfer[x].from = u}
ComingTo(u, t) == {w \in HandingOver(t) : job[w].to = u}
LeavingFrom(u, t) == {w \in HandingOver(t) : job[w].user = u}

\* There is a finite number of each.
Countable(u, t) ==
    /\ IsFiniteSet(BoughtBy(u, t)) /\ IsFiniteSet(SoldBy(u, t))
    /\ IsFiniteSet(GivenTo(u, t)) /\ IsFiniteSet(GivenBy(u, t))
    /\ IsFiniteSet(ComingTo(u, t)) /\ IsFiniteSet(LeavingFrom(u, t))

Balance(u, t) ==
    (IF FirstOwner[t] = u THEN 1 ELSE 0) + In(u, t) - Out(u, t)
        = IF owner[t] = u THEN 1 ELSE 0

Books == \A t \in Tickets, u \in Users : Countable(u, t) /\ Balance(u, t)

BooksInv == ~ stale /\ ~ dropped => Books

\* What a session remembers of the row it has read: a purchase, an active
\* listing of its ticket by the owner; a review, a pending request.
DealInv ==
    \A w \in Workers :
        LET j == job[w] IN
        /\ step[w] \in {"buy-ticket", "buy-commit"}
              => /\ j.id \in Listings
                 /\ j.wasListing.status = "active" /\ j.wasListing.ticket = j.ticket
        /\ step[w] = "buy-commit" => j.to = j.wasListing.seller
        /\ step[w] = "unlist" => j.id \in Listings /\ j.wasListing.status = "active"
        /\ step[w] \in {"approve", "reject"}
              => /\ j.id \in Transfers
                 /\ j.wasTransfer.status = "pending" /\ j.wasTransfer.ticket = j.ticket
                 /\ j.wasTransfer.from = j.user /\ j.wasTransfer.to = j.to

\* A session that goes on with a job that fits its step.
LEMMA DealGo ==
    ASSUME TypeOK, DealInv, NEW w \in Workers, NEW s, NEW j, Go(w, s, j),
           s \in {"buy-ticket", "buy-commit"}
              => /\ j.id \in Listings
                 /\ j.wasListing.status = "active" /\ j.wasListing.ticket = j.ticket,
           s = "buy-commit" => j.to = j.wasListing.seller,
           s = "unlist" => j.id \in Listings /\ j.wasListing.status = "active",
           s \in {"approve", "reject"}
              => /\ j.id \in Transfers
                 /\ j.wasTransfer.status = "pending" /\ j.wasTransfer.ticket = j.ticket
                 /\ j.wasTransfer.from = j.user /\ j.wasTransfer.to = j.to
    PROVE  DealInv'
<1>1. step'[w] = s /\ job'[w] = j
  BY DEF Go, TypeOK
<1>2. \A v \in Workers : v # w => step'[v] = step[v] /\ job'[v] = job[v]
  BY DEF Go, TypeOK
<1>3. QED
  BY <1>1, <1>2 DEF DealInv

\* Every step keeps what the sessions remember.
LEMMA DealNext == TypeOK /\ DealInv /\ [Next]_vars => DealInv'
<1> SUFFICES ASSUME TypeOK, DealInv, [Next]_vars PROVE DealInv'
  OBVIOUS
<1>1. ASSUME NEW w \in Workers, Answer(w) PROVE DealInv'
  BY <1>1, DealGo DEF Answer
<1>2. ASSUME NEW w \in Workers, NEW u \in Users, NEW l \in Listings, BeginBuy(w, u, l)
      PROVE  DealInv'
  <2> DEFINE j == [NoJob EXCEPT !.user = u, !.id = l, !.ticket = listing[l].ticket,
                                !.wasListing = listing[l]]
  <2>1. j.id = l /\ j.wasListing = listing[l] /\ j.ticket = listing[l].ticket
    BY EmptyRows DEF Job
  <2>2. Go(w, "buy-ticket", j) /\ listing[l].status = "active"
    BY <1>2 DEF BeginBuy
  <2>3. QED
    BY <2>1, <2>2, DealGo
<1>3. ASSUME NEW w \in Workers, CheckTicket(w) PROVE DealInv'
  <2> DEFINE j == [job[w] EXCEPT !.to = owner[job[w].ticket]]
  <2>1. /\ j.id = job[w].id /\ j.wasListing = job[w].wasListing /\ j.ticket = job[w].ticket
        /\ j.to = owner[job[w].ticket]
    BY DEF TypeOK, Job
  <2>2. CASE owner[job[w].ticket] = job[w].wasListing.seller
    <3>1. Go(w, "buy-commit", j) /\ step[w] = "buy-ticket"
      BY <1>3, <2>2 DEF CheckTicket
    <3>2. QED
      BY <2>1, <2>2, <3>1, DealGo DEF DealInv
  <2>3. QED
    BY <1>1, <1>3, <2>2 DEF CheckTicket
<1>4. ASSUME NEW w \in Workers, NEW l \in Listings, BeginUnlist(w, l) PROVE DealInv'
  <2> DEFINE j == [NoJob EXCEPT !.user = listing[l].seller, !.id = l, !.wasListing = listing[l]]
  <2>1. j.id = l /\ j.wasListing = listing[l]
    BY EmptyRows DEF Job
  <2>2. Go(w, "unlist", j) /\ listing[l].status = "active"
    BY <1>4 DEF BeginUnlist
  <2>3. QED
    BY <2>1, <2>2, DealGo
<1>5. ASSUME NEW w \in Workers, NEW x \in Transfers, NEW verdict \in {"approve", "reject"},
             BeginReview(w, x, verdict)
      PROVE  DealInv'
  <2> DEFINE j == [NoJob EXCEPT !.user = transfer[x].from, !.to = transfer[x].to,
                                !.ticket = transfer[x].ticket, !.id = x,
                                !.wasTransfer = transfer[x]]
  <2>1. /\ j.id = x /\ j.wasTransfer = transfer[x] /\ j.ticket = transfer[x].ticket
        /\ j.user = transfer[x].from /\ j.to = transfer[x].to
    BY EmptyRows DEF Job
  <2>2. Go(w, verdict, j) /\ transfer[x].status = "pending"
    BY <1>5 DEF BeginReview
  <2>3. QED
    BY <2>1, <2>2, DealGo
<1>6. ASSUME NEW w \in Workers, NEW j,
             NEW s \in {"list-check", "list-insert", "request-check", "request-insert",
                        "gift", "hand-over"},
             Go(w, s, j)
      PROVE  DealInv'
  BY <1>6, DealGo
<1>7. ASSUME NEW w \in Workers, Market(w) PROVE DealInv'
  <2>1. ASSUME NEW u \in Users, NEW t \in Tickets, BeginListing(w, u, t) PROVE DealInv'
    BY <1>6, <2>1 DEF BeginListing
  <2>2. CASE CheckListing(w)
    BY <1>1, <1>6, <2>2 DEF CheckListing
  <2>3. CASE InsertListing(w) \/ CommitBuy(w) \/ SaveUnlisted(w)
    <3>1. Answer(w)
      BY <2>3 DEF InsertListing, CommitBuy, SaveUnlisted
    <3>2. QED
      BY <1>1, <3>1
  <2>4. QED
    BY <1>2, <1>3, <1>4, <1>7, <2>1, <2>2, <2>3 DEF Market
<1>8. ASSUME NEW w \in Workers, Hand(w) PROVE DealInv'
  <2>1. ASSUME NEW u \in Users, NEW t \in Tickets, NEW to \in Users,
               BeginTransfer(w, u, t, to) \/ BeginGift(w, u, t, to)
        PROVE  DealInv'
    BY <1>6, <2>1 DEF BeginTransfer, BeginGift
  <2>2. CASE CheckTransfer(w)
    BY <1>1, <1>6, <2>2 DEF CheckTransfer
  <2>3. CASE InsertTransfer(w) \/ SaveRejected(w) \/ HandOver(w)
    <3>1. Answer(w)
      BY <2>3 DEF InsertTransfer, SaveRejected, HandOver
    <3>2. QED
      BY <1>1, <3>1
  <2>4. CASE SaveApproved(w) \/ InsertGift(w)
    BY <1>6, <2>4 DEF SaveApproved, InsertGift
  <2>5. QED
    BY <1>5, <1>8, <2>1, <2>2, <2>3, <2>4 DEF Hand
<1>9. CASE (\E t \in Tickets : EndTicket(t)) \/ UNCHANGED vars
  BY <1>9 DEF EndTicket, vars, DealInv
<1>10. QED
  BY <1>1, <1>7, <1>8, <1>9 DEF Next, Fail

LEMMA DealInit == Init => DealInv
BY DEF Init, DealInv

\* One more, or one less, of what is counted.
LEMMA CountMore ==
    ASSUME NEW S, NEW x, IsFiniteSet(S), x \notin S, NEW S2, NEW p \in BOOLEAN,
           S2 = IF p THEN S \cup {x} ELSE S
    PROVE  /\ IsFiniteSet(S2) /\ Cardinality(S) \in Nat
           /\ Cardinality(S2) = Cardinality(S) + (IF p THEN 1 ELSE 0)
<1>1. Cardinality(S) \in Nat
  BY FS_CardinalityType
<1>2. CASE p
  BY <1>1, <1>2, FS_AddElement
<1>3. CASE ~ p
  BY <1>1, <1>3
<1>4. QED
  BY <1>2, <1>3

LEMMA CountLess ==
    ASSUME NEW S, NEW x, IsFiniteSet(S), NEW S2, NEW p \in BOOLEAN, p <=> x \in S,
           S2 = S \ {x}
    PROVE  /\ IsFiniteSet(S2) /\ Cardinality(S) \in Nat /\ Cardinality(S2) \in Nat
           /\ Cardinality(S2) = Cardinality(S) - (IF p THEN 1 ELSE 0)
<1>1. Cardinality(S) \in Nat
  BY FS_CardinalityType
<1>2. CASE p
  <2>1. IsFiniteSet(S2) /\ Cardinality(S2) = Cardinality(S) - 1
    BY <1>2, FS_RemoveElement
  <2>2. QED
    BY <1>1, <1>2, <2>1, FS_CardinalityType
<1>3. CASE ~ p
  <2>1. S2 = S
    BY <1>3
  <2>2. QED
    BY <1>1, <1>3, <2>1
<1>4. QED
  BY <1>2, <1>3

\* The rows of listings that count stay as they are.
SoldRowsStay ==
    \A l \in Listings :
        /\ listing'[l].status = "sold" <=> listing[l].status = "sold"
        /\ listing[l].status = "sold" => listing'[l] = listing[l]
ApprovedRowsStay ==
    \A x \in Transfers :
        /\ transfer'[x].status = "approved" <=> transfer[x].status = "approved"
        /\ transfer[x].status = "approved" => transfer'[x] = transfer[x]
HandersStay ==
    \A w \in Workers :
        /\ step'[w] = "hand-over" <=> step[w] = "hand-over"
        /\ step[w] = "hand-over" => job'[w] = job[w]

LEMMA SameSold ==
    ASSUME SoldRowsStay, NEW u, NEW t
    PROVE  BoughtBy(u, t)' = BoughtBy(u, t) /\ SoldBy(u, t)' = SoldBy(u, t)
BY DEF SoldRowsStay, BoughtBy, SoldBy, Sold

LEMMA SameApproved ==
    ASSUME ApprovedRowsStay, NEW u, NEW t
    PROVE  GivenTo(u, t)' = GivenTo(u, t) /\ GivenBy(u, t)' = GivenBy(u, t)
BY DEF ApprovedRowsStay, GivenTo, GivenBy, Approved

LEMMA SameHanders ==
    ASSUME HandersStay, NEW u, NEW t
    PROVE  ComingTo(u, t)' = ComingTo(u, t) /\ LeavingFrom(u, t)' = LeavingFrom(u, t)
BY DEF HandersStay, ComingTo, LeavingFrom, HandingOver

\* Nothing that counts changes.
LEMMA BooksQuiet ==
    ASSUME Books, SoldRowsStay, ApprovedRowsStay, HandersStay, UNCHANGED owner
    PROVE  Books'
<1> SUFFICES ASSUME NEW t \in Tickets, NEW u \in Users PROVE Countable(u, t)' /\ Balance(u, t)'
  BY DEF Books
<1>1. /\ BoughtBy(u, t)' = BoughtBy(u, t) /\ SoldBy(u, t)' = SoldBy(u, t)
      /\ GivenTo(u, t)' = GivenTo(u, t) /\ GivenBy(u, t)' = GivenBy(u, t)
      /\ ComingTo(u, t)' = ComingTo(u, t) /\ LeavingFrom(u, t)' = LeavingFrom(u, t)
  BY SameSold, SameApproved, SameHanders
<1>2. In(u, t)' = In(u, t) /\ Out(u, t)' = Out(u, t)
  BY <1>1 DEF In, Out, BoughtBy, SoldBy, GivenTo, GivenBy, ComingTo, LeavingFrom
<1>3. QED
  BY <1>1, <1>2 DEF Books, Countable, Balance

\* A session that is not handing over goes on to another such step.
LEMMA NotHanding ==
    ASSUME TypeOK, NEW w \in Workers, NEW s, NEW j, Go(w, s, j),
           step[w] # "hand-over", s # "hand-over"
    PROVE  HandersStay
BY DEF TypeOK, Go, HandersStay

\* A step that only reads leaves the books as they are.
LEMMA BooksRead ==
    ASSUME TypeOK, Books, NEW w \in Workers, NEW s, NEW j, Go(w, s, j), ReadOnly,
           step[w] # "hand-over", s # "hand-over"
    PROVE  Books'
<1>1. SoldRowsStay /\ ApprovedRowsStay /\ UNCHANGED owner
  BY DEF ReadOnly, rowVars, SoldRowsStay, ApprovedRowsStay
<1>2. QED
  BY <1>1, NotHanding, BooksQuiet

\* A purchase whose commit is not stale: the buyer has got the ticket once more,
\* the seller, whose it was, has given it away once more.
LEMMA BooksSale ==
    ASSUME TypeOK, DealInv, Books, NEW w \in Workers, CommitBuy(w), ~ stale'
    PROVE  Books'
<1> DEFINE j == job[w]
<1>0. j \in Job
  BY DEF TypeOK
<1>1. PICK l \in Listings, v \in Users, b \in Users, n \in Tickets :
          /\ l = j.id /\ v = listing[l].seller /\ b = j.user /\ n = j.ticket
          /\ listing[l].ticket = n /\ listing[l].status = "active" /\ owner[n] = v
  <2>1. listing[j.id] = j.wasListing /\ owner[j.ticket] = j.to /\ step[w] = "buy-commit"
    BY DEF CommitBuy, Stale
  <2>2. /\ j.id \in Listings /\ j.to = j.wasListing.seller
        /\ j.wasListing.status = "active" /\ j.wasListing.ticket = j.ticket
    BY <2>1 DEF DealInv
  <2>3. QED
    BY <1>0, <2>1, <2>2 DEF Job, TypeOK
<1>2. /\ listing' = [listing EXCEPT ![l] = [@ EXCEPT !.status = "sold", !.buyer = b]]
      /\ owner' = [owner EXCEPT ![n] = b] /\ UNCHANGED transfer
      /\ Answer(w) /\ step[w] = "buy-commit"
  BY <1>1 DEF CommitBuy, UpdateOwner
<1> HIDE DEF j
<1>3. /\ listing'[l].status = "sold" /\ listing'[l].buyer = b
      /\ listing'[l].seller = v /\ listing'[l].ticket = n
      /\ \A k \in Listings : k # l => listing'[k] = listing[k]
  BY <1>1, <1>2 DEF TypeOK, Listing
<1>4. ApprovedRowsStay /\ HandersStay
  BY <1>2, NotHanding DEF ApprovedRowsStay, Answer
<1> SUFFICES ASSUME NEW t \in Tickets, NEW u \in Users PROVE Countable(u, t)' /\ Balance(u, t)'
  BY DEF Books
<1>5. Countable(u, t) /\ Balance(u, t)
  BY DEF Books
<1>6. /\ GivenTo(u, t)' = GivenTo(u, t) /\ GivenBy(u, t)' = GivenBy(u, t)
      /\ ComingTo(u, t)' = ComingTo(u, t) /\ LeavingFrom(u, t)' = LeavingFrom(u, t)
  BY <1>4, SameApproved, SameHanders
<1>a. PICK toU \in BOOLEAN : toU <=> t = n /\ u = b
  OBVIOUS
<1>b. PICK fromU \in BOOLEAN : fromU <=> t = n /\ u = v
  OBVIOUS
<1>7. /\ l \notin BoughtBy(u, t) /\ l \notin SoldBy(u, t)
      /\ BoughtBy(u, t)' = IF toU THEN BoughtBy(u, t) \cup {l} ELSE BoughtBy(u, t)
      /\ SoldBy(u, t)' = IF fromU THEN SoldBy(u, t) \cup {l} ELSE SoldBy(u, t)
  BY <1>1, <1>3, <1>a, <1>b DEF BoughtBy, SoldBy, Sold
<1>8. /\ IsFiniteSet(BoughtBy(u, t)')
      /\ Cardinality(BoughtBy(u, t)) \in Nat
      /\ Cardinality(BoughtBy(u, t)') = Cardinality(BoughtBy(u, t)) + (IF toU THEN 1 ELSE 0)
  BY <1>5, <1>7, CountMore DEF Countable
<1>9. /\ IsFiniteSet(SoldBy(u, t)')
      /\ Cardinality(SoldBy(u, t)) \in Nat
      /\ Cardinality(SoldBy(u, t)') = Cardinality(SoldBy(u, t)) + (IF fromU THEN 1 ELSE 0)
  BY <1>5, <1>7, CountMore DEF Countable
<1>10. Countable(u, t)'
  BY <1>5, <1>6, <1>8, <1>9 DEF Countable
<1>11. /\ Cardinality(GivenTo(u, t)) \in Nat /\ Cardinality(GivenBy(u, t)) \in Nat
       /\ Cardinality(ComingTo(u, t)) \in Nat /\ Cardinality(LeavingFrom(u, t)) \in Nat
  BY <1>5, FS_CardinalityType DEF Countable
<1>12. /\ In(u, t) = Cardinality(BoughtBy(u, t)) + Cardinality(GivenTo(u, t)) - Cardinality(ComingTo(u, t))
       /\ Out(u, t) = Cardinality(SoldBy(u, t)) + Cardinality(GivenBy(u, t)) - Cardinality(LeavingFrom(u, t))
       /\ In(u, t)' = Cardinality(BoughtBy(u, t)') + Cardinality(GivenTo(u, t)) - Cardinality(ComingTo(u, t))
       /\ Out(u, t)' = Cardinality(SoldBy(u, t)') + Cardinality(GivenBy(u, t)) - Cardinality(LeavingFrom(u, t))
  BY <1>6 DEF In, Out, BoughtBy, SoldBy, GivenTo, GivenBy, ComingTo, LeavingFrom
<1>13. owner'[t] = IF t = n THEN b ELSE owner[t]
  BY <1>2 DEF TypeOK
<1>14. Balance(u, t)'
  BY <1>1, <1>5, <1>8, <1>9, <1>11, <1>12, <1>13, <1>a, <1>b DEF Balance
<1>15. QED
  BY <1>10, <1>14

\* An approval or a gift counts when it is written, and its session takes it
\* back until the hand-over.
LEMMA BooksAgree ==
    ASSUME TypeOK, Books, NEW w \in Workers, NEW x \in Transfers, NEW row \in Transfer,
           transfer[x].status # "approved", row.status = "approved",
           transfer' = [transfer EXCEPT ![x] = row],
           row.ticket = job[w].ticket, row.from = job[w].user, row.to = job[w].to,
           step[w] # "hand-over", Go(w, "hand-over", job[w]), UNCHANGED <<listing, owner>>
    PROVE  Books'
<1>1. /\ transfer'[x] = row
      /\ \A y \in Transfers : y # x => transfer'[y] = transfer[y]
      /\ step'[w] = "hand-over" /\ job'[w] = job[w]
      /\ \A v \in Workers : v # w => step'[v] = step[v] /\ job'[v] = job[v]
  BY DEF TypeOK, Go
<1> SUFFICES ASSUME NEW t \in Tickets, NEW u \in Users PROVE Countable(u, t)' /\ Balance(u, t)'
  BY DEF Books
<1>2. Countable(u, t) /\ Balance(u, t)
  BY DEF Books
<1>3. BoughtBy(u, t)' = BoughtBy(u, t) /\ SoldBy(u, t)' = SoldBy(u, t)
  BY DEF BoughtBy, SoldBy, Sold
<1>4. PICK toU \in BOOLEAN : toU <=> row.ticket = t /\ row.to = u
  OBVIOUS
<1>5. PICK fromU \in BOOLEAN : fromU <=> row.ticket = t /\ row.from = u
  OBVIOUS
<1>8. /\ IsFiniteSet(GivenTo(u, t)') /\ Cardinality(GivenTo(u, t)) \in Nat
      /\ Cardinality(GivenTo(u, t)') = Cardinality(GivenTo(u, t)) + (IF toU THEN 1 ELSE 0)
  <2>1. /\ x \notin GivenTo(u, t)
        /\ GivenTo(u, t)' = IF toU THEN GivenTo(u, t) \cup {x} ELSE GivenTo(u, t)
    BY <1>1, <1>4 DEF GivenTo, Approved
  <2>2. IsFiniteSet(GivenTo(u, t))
    BY <1>2 DEF Countable
  <2>3. QED
    BY <2>1, <2>2, CountMore
<1>9. /\ IsFiniteSet(ComingTo(u, t)') /\ Cardinality(ComingTo(u, t)) \in Nat
      /\ Cardinality(ComingTo(u, t)') = Cardinality(ComingTo(u, t)) + (IF toU THEN 1 ELSE 0)
  <2>1. /\ w \notin ComingTo(u, t)
        /\ ComingTo(u, t)' = IF toU THEN ComingTo(u, t) \cup {w} ELSE ComingTo(u, t)
    BY <1>1, <1>4 DEF ComingTo, HandingOver
  <2>2. IsFiniteSet(ComingTo(u, t))
    BY <1>2 DEF Countable
  <2>3. QED
    BY <2>1, <2>2, CountMore
<1>10. /\ IsFiniteSet(GivenBy(u, t)') /\ Cardinality(GivenBy(u, t)) \in Nat
      /\ Cardinality(GivenBy(u, t)') = Cardinality(GivenBy(u, t)) + (IF fromU THEN 1 ELSE 0)
  <2>1. /\ x \notin GivenBy(u, t)
        /\ GivenBy(u, t)' = IF fromU THEN GivenBy(u, t) \cup {x} ELSE GivenBy(u, t)
    BY <1>1, <1>5 DEF GivenBy, Approved
  <2>2. IsFiniteSet(GivenBy(u, t))
    BY <1>2 DEF Countable
  <2>3. QED
    BY <2>1, <2>2, CountMore
<1>11. /\ IsFiniteSet(LeavingFrom(u, t)') /\ Cardinality(LeavingFrom(u, t)) \in Nat
      /\ Cardinality(LeavingFrom(u, t)') = Cardinality(LeavingFrom(u, t)) + (IF fromU THEN 1 ELSE 0)
  <2>1. /\ w \notin LeavingFrom(u, t)
        /\ LeavingFrom(u, t)' = IF fromU THEN LeavingFrom(u, t) \cup {w} ELSE LeavingFrom(u, t)
    BY <1>1, <1>5 DEF LeavingFrom, HandingOver
  <2>2. IsFiniteSet(LeavingFrom(u, t))
    BY <1>2 DEF Countable
  <2>3. QED
    BY <2>1, <2>2, CountMore
<1>12. Countable(u, t)'
  BY <1>2, <1>3, <1>8, <1>9, <1>10, <1>11 DEF Countable
<1>13. Cardinality(BoughtBy(u, t)) \in Nat /\ Cardinality(SoldBy(u, t)) \in Nat
  BY <1>2, FS_CardinalityType DEF Countable
<1>14. /\ In(u, t) = Cardinality(BoughtBy(u, t)) + Cardinality(GivenTo(u, t)) - Cardinality(ComingTo(u, t))
       /\ Out(u, t) = Cardinality(SoldBy(u, t)) + Cardinality(GivenBy(u, t)) - Cardinality(LeavingFrom(u, t))
       /\ In(u, t)' = Cardinality(BoughtBy(u, t)) + Cardinality(GivenTo(u, t)') - Cardinality(ComingTo(u, t)')
       /\ Out(u, t)' = Cardinality(SoldBy(u, t)) + Cardinality(GivenBy(u, t)') - Cardinality(LeavingFrom(u, t)')
  BY <1>3 DEF In, Out, BoughtBy, SoldBy, GivenTo, GivenBy, ComingTo, LeavingFrom
<1>15. In(u, t)' = In(u, t) /\ Out(u, t)' = Out(u, t)
  BY <1>8, <1>9, <1>10, <1>11, <1>13, <1>14
<1>16. QED
  BY <1>2, <1>12, <1>15 DEF Balance

\* A hand-over that is not stale.
LEMMA BooksHandOver ==
    ASSUME TypeOK, Books, NEW w \in Workers, HandOver(w), ~ stale'
    PROVE  Books'
<1>1. PICK n \in Tickets, v \in Users, b \in Users :
          n = job[w].ticket /\ v = job[w].user /\ b = job[w].to
  BY DEF TypeOK, Job
<1>2. /\ step[w] = "hand-over" /\ owner[n] = v /\ owner' = [owner EXCEPT ![n] = b]
      /\ Answer(w) /\ UNCHANGED <<listing, transfer>>
  BY <1>1 DEF HandOver, UpdateOwner, Stale
<1>3. /\ step'[w] # "hand-over"
      /\ \A d \in Workers : d # w => step'[d] = step[d] /\ job'[d] = job[d]
  BY <1>2 DEF TypeOK, Answer, Go
<1> SUFFICES ASSUME NEW t \in Tickets, NEW u \in Users PROVE Countable(u, t)' /\ Balance(u, t)'
  BY DEF Books
<1>4. Countable(u, t) /\ Balance(u, t)
  BY DEF Books
<1>5. /\ BoughtBy(u, t)' = BoughtBy(u, t) /\ SoldBy(u, t)' = SoldBy(u, t)
      /\ GivenTo(u, t)' = GivenTo(u, t) /\ GivenBy(u, t)' = GivenBy(u, t)
  BY <1>2 DEF BoughtBy, SoldBy, Sold, GivenTo, GivenBy, Approved
<1>6. PICK toU \in BOOLEAN : toU <=> n = t /\ b = u
  OBVIOUS
<1>7. PICK fromU \in BOOLEAN : fromU <=> n = t /\ v = u
  OBVIOUS
<1>8. /\ toU <=> w \in ComingTo(u, t)
      /\ fromU <=> w \in LeavingFrom(u, t)
      /\ ComingTo(u, t)' = ComingTo(u, t) \ {w}
      /\ LeavingFrom(u, t)' = LeavingFrom(u, t) \ {w}
  BY <1>1, <1>2, <1>3, <1>6, <1>7 DEF ComingTo, LeavingFrom, HandingOver
<1>9. /\ IsFiniteSet(ComingTo(u, t)') /\ Cardinality(ComingTo(u, t)) \in Nat
      /\ Cardinality(ComingTo(u, t)') = Cardinality(ComingTo(u, t)) - (IF toU THEN 1 ELSE 0)
  BY <1>4, <1>8, CountLess DEF Countable
<1>10. /\ IsFiniteSet(LeavingFrom(u, t)') /\ Cardinality(LeavingFrom(u, t)) \in Nat
       /\ Cardinality(LeavingFrom(u, t)') = Cardinality(LeavingFrom(u, t)) - (IF fromU THEN 1 ELSE 0)
  BY <1>4, <1>8, CountLess DEF Countable
<1>11. Countable(u, t)'
  BY <1>4, <1>5, <1>9, <1>10 DEF Countable
<1>12. /\ Cardinality(BoughtBy(u, t)) \in Nat /\ Cardinality(SoldBy(u, t)) \in Nat
       /\ Cardinality(GivenTo(u, t)) \in Nat /\ Cardinality(GivenBy(u, t)) \in Nat
  BY <1>4, FS_CardinalityType DEF Countable
<1>13. /\ In(u, t) = Cardinality(BoughtBy(u, t)) + Cardinality(GivenTo(u, t)) - Cardinality(ComingTo(u, t))
       /\ Out(u, t) = Cardinality(SoldBy(u, t)) + Cardinality(GivenBy(u, t)) - Cardinality(LeavingFrom(u, t))
       /\ In(u, t)' = Cardinality(BoughtBy(u, t)) + Cardinality(GivenTo(u, t)) - Cardinality(ComingTo(u, t)')
       /\ Out(u, t)' = Cardinality(SoldBy(u, t)) + Cardinality(GivenBy(u, t)) - Cardinality(LeavingFrom(u, t)')
  BY <1>5 DEF In, Out, BoughtBy, SoldBy, GivenTo, GivenBy, ComingTo, LeavingFrom
<1>14. owner'[t] = IF t = n THEN b ELSE owner[t]
  BY <1>2 DEF TypeOK
<1>15. Balance(u, t)'
  BY <1>2, <1>4, <1>6, <1>7, <1>9, <1>10, <1>12, <1>13, <1>14 DEF Balance
<1>16. QED
  BY <1>11, <1>15

\* The steps of the marketplace: a purchase aside, they leave the deals alone.
LEMMA BooksMarket ==
    ASSUME TypeOK, DealInv, Books, NEW w \in Workers, Market(w), ~ stale'
    PROVE  Books'
<1>j. job[w] \in Job
  BY DEF TypeOK
<1>1. CASE InsertListing(w)
  <2>1. PICK l \in Listings :
            /\ listing[l].status = "none"
            /\ listing' = [listing EXCEPT ![l] =
                 [ticket |-> job[w].ticket, seller |-> job[w].user, buyer |-> NoUser,
                  status |-> "active"]]
    BY <1>1 DEF InsertListing
  <2>2. SoldRowsStay
    BY <2>1 DEF SoldRowsStay, TypeOK
  <2>3. ApprovedRowsStay /\ HandersStay /\ UNCHANGED owner
    BY <1>1, NotHanding DEF InsertListing, ApprovedRowsStay, Answer
  <2>4. QED
    BY <2>2, <2>3, BooksQuiet
<1>2. CASE SaveUnlisted(w)
  <2>1. /\ listing[job[w].id] = job[w].wasListing /\ job[w].id \in Listings
        /\ job[w].wasListing.status = "active" /\ job[w].wasListing \in Listing
    BY <1>2, <1>j DEF SaveUnlisted, Stale, DealInv, Job
  <2>2. PICK row : /\ row.status = "cancelled"
                   /\ listing' = [listing EXCEPT ![job[w].id] = row]
    BY <1>2, <2>1 DEF SaveUnlisted, Listing
  <2>3. SoldRowsStay
    BY <2>1, <2>2 DEF SoldRowsStay, TypeOK
  <2>4. ApprovedRowsStay /\ HandersStay /\ UNCHANGED owner
    BY <1>2, NotHanding DEF SaveUnlisted, ApprovedRowsStay, Answer
  <2>5. QED
    BY <2>3, <2>4, BooksQuiet
<1>3. ASSUME NEW u \in Users, NEW t \in Tickets, BeginListing(w, u, t) PROVE Books'
  BY <1>3, BooksRead DEF BeginListing
<1>4. CASE CheckListing(w)
  BY <1>4, BooksRead DEF CheckListing, Answer
<1>5. ASSUME NEW u \in Users, NEW l \in Listings, BeginBuy(w, u, l) PROVE Books'
  BY <1>5, BooksRead DEF BeginBuy
<1>6. CASE CheckTicket(w)
  BY <1>6, BooksRead DEF CheckTicket, Answer
<1>7. ASSUME NEW l \in Listings, BeginUnlist(w, l) PROVE Books'
  BY <1>7, BooksRead DEF BeginUnlist
<1>8. QED
  BY <1>1, <1>2, <1>3, <1>4, <1>5, <1>6, <1>7, BooksSale DEF Market

\* The steps of transfers and gifts.
LEMMA BooksHand ==
    ASSUME TypeOK, DealInv, Books, NEW w \in Workers, Hand(w), ~ stale'
    PROVE  Books'
<1>j. /\ job[w] \in Job /\ job[w].ticket \in Tickets
      /\ job[w].user \in Users /\ job[w].to \in Users
  BY DEF TypeOK, Job
<1>1. CASE InsertTransfer(w)
  <2>1. PICK x \in Transfers :
            /\ transfer[x].status = "none"
            /\ transfer' = [transfer EXCEPT ![x] =
                 [ticket |-> job[w].ticket, from |-> job[w].user, to |-> job[w].to,
                  status |-> "pending"]]
    BY <1>1 DEF InsertTransfer, NewTransfer
  <2>2. ApprovedRowsStay
    BY <2>1 DEF ApprovedRowsStay, TypeOK
  <2>3. SoldRowsStay /\ HandersStay /\ UNCHANGED owner
    BY <1>1, NotHanding DEF InsertTransfer, SoldRowsStay, Answer
  <2>4. QED
    BY <2>2, <2>3, BooksQuiet
<1>2. CASE SaveApproved(w) \/ SaveRejected(w)
  <2>1. /\ transfer[job[w].id] = job[w].wasTransfer /\ job[w].id \in Transfers
        /\ job[w].wasTransfer \in Transfer /\ job[w].wasTransfer.status = "pending"
        /\ job[w].wasTransfer.ticket = job[w].ticket
        /\ job[w].wasTransfer.from = job[w].user /\ job[w].wasTransfer.to = job[w].to
    BY <1>2, <1>j DEF SaveApproved, SaveRejected, Stale, DealInv, Job
  <2>2. CASE SaveApproved(w)
    <3> DEFINE row == [job[w].wasTransfer EXCEPT !.status = "approved"]
    <3>1. /\ row \in Transfer /\ row.status = "approved" /\ row.ticket = job[w].ticket
          /\ row.from = job[w].user /\ row.to = job[w].to
      BY <2>1 DEF Transfer, TransferStatus
    <3>2. /\ transfer' = [transfer EXCEPT ![job[w].id] = row] /\ step[w] = "approve"
          /\ Go(w, "hand-over", job[w]) /\ UNCHANGED <<listing, owner>>
      BY <2>2 DEF SaveApproved
    <3> HIDE DEF row
    <3>3. QED
      BY <2>1, <3>1, <3>2, BooksAgree
  <2>3. CASE SaveRejected(w)
    <3>1. PICK row : /\ row.status = "rejected"
                     /\ transfer' = [transfer EXCEPT ![job[w].id] = row]
      BY <2>1, <2>3 DEF SaveRejected, Transfer
    <3>2. ApprovedRowsStay
      BY <2>1, <3>1 DEF ApprovedRowsStay, TypeOK
    <3>3. SoldRowsStay /\ HandersStay /\ UNCHANGED owner
      BY <2>3, NotHanding DEF SaveRejected, SoldRowsStay, Answer
    <3>4. QED
      BY <3>2, <3>3, BooksQuiet
  <2>4. QED
    BY <1>2, <2>2, <2>3
<1>3. CASE InsertGift(w)
  <2> DEFINE row == [ticket |-> job[w].ticket, from |-> job[w].user, to |-> job[w].to,
                     status |-> "approved"]
  <2>1. /\ row \in Transfer /\ row.status = "approved" /\ row.ticket = job[w].ticket
        /\ row.from = job[w].user /\ row.to = job[w].to
    BY <1>j DEF Transfer, TransferStatus
  <2>2. PICK x \in Transfers : /\ transfer[x].status = "none"
                               /\ transfer' = [transfer EXCEPT ![x] = row]
    BY <1>3 DEF InsertGift, NewTransfer
  <2>3. step[w] = "gift" /\ Go(w, "hand-over", job[w]) /\ UNCHANGED <<listing, owner>>
    BY <1>3 DEF InsertGift
  <2> HIDE DEF row
  <2>4. QED
    BY <2>1, <2>2, <2>3, BooksAgree
<1>4. ASSUME NEW u \in Users, NEW to \in Users, NEW t \in Tickets,
             BeginTransfer(w, u, t, to) \/ BeginGift(w, u, t, to)
      PROVE  Books'
  <2>1. CASE BeginTransfer(w, u, t, to)
    BY <2>1, BooksRead DEF BeginTransfer
  <2>2. CASE BeginGift(w, u, t, to)
    BY <2>2, BooksRead DEF BeginGift
  <2>3. QED
    BY <1>4, <2>1, <2>2
<1>5. CASE CheckTransfer(w)
  BY <1>5, BooksRead DEF CheckTransfer, Answer
<1>6. ASSUME NEW x \in Transfers, NEW verdict \in {"approve", "reject"},
             BeginReview(w, x, verdict)
      PROVE  Books'
  BY <1>6, BooksRead DEF BeginReview
<1>7. QED
  BY <1>1, <1>2, <1>3, <1>4, <1>5, <1>6, BooksHandOver DEF Hand

\* What was dropped once remains so.
LEMMA DroppedStays == [Next]_vars /\ dropped => dropped'
<1> SUFFICES ASSUME [Next]_vars, dropped PROVE dropped'
  OBVIOUS
<1>1. ASSUME NEW w \in Workers, Market(w) PROVE dropped'
  <2>1. CASE InsertListing(w) \/ CommitBuy(w) \/ SaveUnlisted(w)
    BY <2>1 DEF InsertListing, CommitBuy, SaveUnlisted
  <2>2. CASE ~ InsertListing(w) /\ ~ CommitBuy(w) /\ ~ SaveUnlisted(w)
    <3>1. ReadOnly
      BY <1>1, <2>2 DEF Market, BeginListing, CheckListing, BeginBuy, CheckTicket, BeginUnlist
    <3>2. QED
      BY <3>1 DEF ReadOnly, history
  <2>3. QED
    BY <2>1, <2>2
<1>2. ASSUME NEW w \in Workers, Hand(w) PROVE dropped'
  <2>1. CASE InsertTransfer(w) \/ SaveApproved(w) \/ SaveRejected(w) \/ InsertGift(w) \/ HandOver(w)
    BY <2>1 DEF InsertTransfer, SaveApproved, SaveRejected, InsertGift, HandOver
  <2>2. CASE /\ ~ InsertTransfer(w) /\ ~ SaveApproved(w) /\ ~ SaveRejected(w)
             /\ ~ InsertGift(w) /\ ~ HandOver(w)
    <3>1. ReadOnly
      BY <1>2, <2>2 DEF Hand, BeginTransfer, BeginGift, CheckTransfer, BeginReview
    <3>2. QED
      BY <3>1 DEF ReadOnly, history
  <2>3. QED
    BY <2>1, <2>2
<1>3. ASSUME NEW w \in Workers, Fail(w) PROVE dropped'
  BY <1>3 DEF Fail
<1>4. ASSUME NEW t \in Tickets, EndTicket(t) PROVE dropped'
  BY <1>4 DEF EndTicket, history
<1>5. CASE UNCHANGED vars
  BY <1>5 DEF vars
<1> QED
  BY <1>1, <1>2, <1>3, <1>4, <1>5 DEF Next

LEMMA BooksNext == TypeOK /\ DealInv /\ BooksInv /\ [Next]_vars => BooksInv'
<1> SUFFICES ASSUME TypeOK, DealInv, BooksInv, [Next]_vars, ~ stale', ~ dropped'
             PROVE  Books'
  BY DEF BooksInv
<1>1. Books
  BY StaleStays, DroppedStays DEF BooksInv
<1>2. ASSUME NEW w \in Workers, Fail(w) PROVE Books'
  <2>1. step[w] # "hand-over"
    BY <1>2 DEF Fail
  <2>2. SoldRowsStay /\ ApprovedRowsStay /\ HandersStay /\ UNCHANGED owner
    BY <1>2, <2>1, NotHanding DEF Fail, Answer, rowVars, SoldRowsStay, ApprovedRowsStay
  <2>3. QED
    BY <1>1, <2>2, BooksQuiet
<1>3. CASE (\E t \in Tickets : EndTicket(t)) \/ UNCHANGED vars
  <2>1. SoldRowsStay /\ ApprovedRowsStay /\ HandersStay /\ UNCHANGED owner
    BY <1>3 DEF EndTicket, vars, SoldRowsStay, ApprovedRowsStay, HandersStay
  <2>2. QED
    BY <1>1, <2>1, BooksQuiet
<1>4. QED
  BY <1>1, <1>2, <1>3, BooksMarket, BooksHand DEF Next

\* Nothing is sold or given at the start.
LEMMA BooksInit == Init => BooksInv
<1> SUFFICES ASSUME Init PROVE Books
  BY DEF BooksInv
<1> SUFFICES ASSUME NEW t \in Tickets, NEW u \in Users PROVE Countable(u, t) /\ Balance(u, t)
  BY DEF Books
<1>1. /\ BoughtBy(u, t) = {} /\ SoldBy(u, t) = {} /\ GivenTo(u, t) = {} /\ GivenBy(u, t) = {}
      /\ ComingTo(u, t) = {} /\ LeavingFrom(u, t) = {}
  BY DEF Init, NoListing, NoTransfer, BoughtBy, SoldBy, Sold, GivenTo, GivenBy, Approved,
     ComingTo, LeavingFrom, HandingOver
<1>2. IsFiniteSet({}) /\ Cardinality({}) = 0
  BY FS_EmptySet
<1>3. Countable(u, t)
  BY <1>1, <1>2 DEF Countable
<1>4. In(u, t) = 0 + 0 - 0 /\ Out(u, t) = 0 + 0 - 0
  BY <1>1, <1>2 DEF In, Out, BoughtBy, SoldBy, GivenTo, GivenBy, ComingTo, LeavingFrom
<1>5. owner = FirstOwner
  BY DEF Init
<1>6. QED
  BY <1>3, <1>4, <1>5 DEF Balance

\* Unless a write was stale or a hand-over was dropped, the sold listings and
\* approved transfers say who owns a ticket: each of its owners got it once more
\* often than it gave it away, whatever the sessions interleave.
THEOREM OwnershipBooks == Spec => []BooksBalance
<1>1. BooksInv => BooksBalance
  BY DEF BooksInv, Books, Balance, BooksBalance
<1>2. TypeOK /\ DealInv /\ BooksInv /\ [Next]_vars => TypeOK' /\ DealInv' /\ BooksInv'
  BY TypeNext, DealNext, BooksNext
<1>3. QED
  BY <1>1, <1>2, TypeInit, DealInit, BooksInit, PTL DEF Spec

-----------------------------------------------------------------------------
(* Closed deals.                                                           *)

\* A closed listing is changed only by a session that read it active.
LEMMA ListingsStay ==
    ASSUME TypeOK, DealInv, [Next]_vars, NEW l \in Listings,
           listing[l].status \in {"sold", "cancelled"}, listing'[l] # listing[l]
    PROVE  \E w \in Workers : step[w] \in {"buy-commit", "unlist"}
                            /\ job[w].id = l /\ job[w].wasListing.status = "active"
<1> DEFINE Knew(w) == step[w] \in {"buy-commit", "unlist"}
                      /\ job[w].id = l /\ job[w].wasListing.status = "active"
<1>1. ASSUME NEW w \in Workers, Market(w) PROVE Knew(w)
  <2>1. ASSUME ReadOnly PROVE FALSE
    BY <2>1 DEF ReadOnly, rowVars
  <2>2. CASE InsertListing(w)
    <3>1. PICK k \in Listings :
            /\ listing[k].status = "none"
            /\ listing' = [listing EXCEPT ![k] =
                 [ticket |-> job[w].ticket, seller |-> job[w].user, buyer |-> NoUser,
                  status |-> "active"]]
      BY <2>2 DEF InsertListing
    <3>2. k # l
      BY <3>1
    <3>3. QED
      BY <3>1, <3>2 DEF TypeOK
  <2>3. CASE CommitBuy(w) \/ SaveUnlisted(w)
    <3>1. /\ step[w] \in {"buy-commit", "unlist"}
          /\ \E r : listing' = [listing EXCEPT ![job[w].id] = r]
      BY <2>3 DEF CommitBuy, SaveUnlisted
    <3>2. job[w].id = l
      BY <3>1 DEF TypeOK
    <3>3. QED
      BY <3>1, <3>2 DEF DealInv
  <2>4. QED
    BY <1>1, <2>1, <2>2, <2>3
    DEF Market, BeginListing, CheckListing, BeginBuy, CheckTicket, BeginUnlist
<1>2. ASSUME NEW w \in Workers, Hand(w) \/ Fail(w) PROVE UNCHANGED listing
  BY <1>2
  DEF Hand, BeginTransfer, BeginGift, CheckTransfer, InsertTransfer, BeginReview, SaveApproved,
      SaveRejected, InsertGift, HandOver, ReadOnly, rowVars, Fail
<1>3. ASSUME NEW t \in Tickets, EndTicket(t) PROVE UNCHANGED listing
  BY <1>3 DEF EndTicket
<1>4. QED
  BY <1>1, <1>2, <1>3 DEF Next, vars

\* A closed request is changed only by a review that read it pending.
LEMMA RequestsStay ==
    ASSUME TypeOK, DealInv, [Next]_vars, NEW x \in Transfers,
           transfer[x].status \in {"approved", "rejected"}, transfer'[x] # transfer[x]
    PROVE  \E w \in Workers : step[w] \in {"approve", "reject"}
                            /\ job[w].id = x /\ job[w].wasTransfer.status = "pending"
<1> DEFINE Knew(w) == step[w] \in {"approve", "reject"}
                      /\ job[w].id = x /\ job[w].wasTransfer.status = "pending"
<1>1. ASSUME NEW w \in Workers, Hand(w) PROVE Knew(w)
  <2>1. ASSUME ReadOnly \/ HandOver(w) PROVE FALSE
    BY <2>1 DEF ReadOnly, rowVars, HandOver
  <2>2. ASSUME NEW s, NewTransfer(w, s) PROVE FALSE
    <3>1. PICK y \in Transfers :
            /\ transfer[y].status = "none"
            /\ \E r : transfer' = [transfer EXCEPT ![y] = r]
      BY <2>2 DEF NewTransfer
    <3>2. y # x
      BY <3>1
    <3>3. QED
      BY <3>1, <3>2 DEF TypeOK
  <2>3. CASE SaveApproved(w) \/ SaveRejected(w)
    <3>1. /\ step[w] \in {"approve", "reject"}
          /\ \E r : transfer' = [transfer EXCEPT ![job[w].id] = r]
      BY <2>3 DEF SaveApproved, SaveRejected
    <3>2. job[w].id = x
      BY <3>1 DEF TypeOK
    <3>3. QED
      BY <3>1, <3>2 DEF DealInv
  <2>4. QED
    BY <1>1, <2>1, <2>2, <2>3
    DEF Hand, BeginTransfer, BeginGift, CheckTransfer, InsertTransfer, BeginReview, InsertGift
<1>2. ASSUME NEW w \in Workers, Market(w) \/ Fail(w) PROVE UNCHANGED transfer
  BY <1>2
  DEF Market, BeginListing, CheckListing, InsertListing, BeginBuy, CheckTicket, CommitBuy,
      BeginUnlist, SaveUnlisted, ReadOnly, rowVars, Fail
<1>3. ASSUME NEW t \in Tickets, EndTicket(t) PROVE UNCHANGED transfer
  BY <1>3 DEF EndTicket
<1>4. QED
  BY <1>1, <1>2, <1>3 DEF Next, vars

\* Whatever the sessions interleave, a closed deal is changed only by one that
\* read it open: nobody buys a listing that he reads as sold, and nobody reviews
\* a request twice.
THEOREM ClosedStay == Spec => ClosedDealsStay
<1> DEFINE Closed ==
      /\ \A l \in Listings :
             listing[l].status \in {"sold", "cancelled"} /\ listing'[l] # listing[l] =>
                \E w \in Workers : step[w] \in {"buy-commit", "unlist"}
                                  /\ job[w].id = l /\ job[w].wasListing.status = "active"
      /\ \A x \in Transfers :
             transfer[x].status \in {"approved", "rejected"} /\ transfer'[x] # transfer[x] =>
                \E w \in Workers : step[w] \in {"approve", "reject"}
                                  /\ job[w].id = x /\ job[w].wasTransfer.status = "pending"
<1>1. TypeOK /\ DealInv /\ [Next]_vars => [Closed]_vars
  BY ListingsStay, RequestsStay
<1>2. TypeOK /\ DealInv /\ [Next]_vars => TypeOK' /\ DealInv'
  BY TypeNext, DealNext
<1>3. QED
  BY <1>1, <1>2, TypeInit, DealInit, PTL DEF Spec, ClosedDealsStay

=============================================================================
