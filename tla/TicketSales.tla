----------------------------- MODULE TicketSales -----------------------------
(***************************************************************************)
(* What the purchase pipeline promises about the stock of the database,    *)
(* whatever fails and however often a message is delivered: units are held *)
(* for a request only while that many are left, a request is sold at most  *)
(* once, a sale is final, and units never come back to the stock.          *)
(***************************************************************************)
EXTENDS Integers

CONSTANTS Requests, TicketTypes, TypeOf, QuantityOf, InitialStock

VARIABLES
    left,       \* the units of a type that can still be held
    sale        \* where a request stands

salesVars == <<left, sale>>

SalesTypeOK ==
    /\ left \in [TicketTypes -> Nat]
    /\ sale \in [Requests -> {"open", "held", "sold"}]

SalesInit ==
    /\ left = InitialStock
    /\ sale = [r \in Requests |-> "open"]

\* The units of r are taken from the stock.
Hold(r) ==
    /\ sale[r] = "open"
    /\ left[TypeOf[r]] >= QuantityOf[r]
    /\ left' = [left EXCEPT ![TypeOf[r]] = @ - QuantityOf[r]]
    /\ sale' = [sale EXCEPT ![r] = "held"]

\* The units held for r become its ticket.
Sell(r) ==
    /\ sale[r] = "held"
    /\ sale' = [sale EXCEPT ![r] = "sold"]
    /\ UNCHANGED left

\* The units held for r are lost, and r may be tried again.
GiveUp(r) ==
    /\ sale[r] = "held"
    /\ sale' = [sale EXCEPT ![r] = "open"]
    /\ UNCHANGED left

\* Units of type t are lost without a sale.
Forfeit(t) ==
    /\ \E n \in 0 .. left[t] : left' = [left EXCEPT ![t] = n]
    /\ UNCHANGED sale

SalesNext ==
    \/ \E r \in Requests : Hold(r) \/ Sell(r) \/ GiveUp(r)
    \/ \E t \in TicketTypes : Forfeit(t)

SalesSpec == SalesInit /\ [][SalesNext]_salesVars

=============================================================================
