-------------------------- MODULE MCTicketPurchase --------------------------
(***************************************************************************)
(* Small instances of TicketPurchase.  Ann and Bob compete for the two     *)
(* units of type vip with a call for one unit and a call for two: Redis    *)
(* lets both through, the database only one.  Ann also calls for the one   *)
(* unit of type std, and Bob for more units of it than a user may have.    *)
(***************************************************************************)
EXTENDS TicketPurchase, TLC

CONSTANTS ann, bob, vip, std, p1, p2, annVip, bobVip, annStd, bobStd

MCUserOf == [r \in Requests |-> IF r \in {annVip, annStd} THEN ann ELSE bob]
MCTypeOf == [r \in Requests |-> IF r \in {annVip, bobVip} THEN vip ELSE std]
MCQuantityOf == [r \in Requests |-> IF r \in {bobVip, bobStd} THEN 2 ELSE 1]
MCInitialStock == vip :> 2 @@ std :> 1
MCMaxPerUser == vip :> 2 @@ std :> 1

\* One partition for all users, and one for each.
OnePartition == ann :> p1 @@ bob :> p1
TwoPartitions == ann :> p1 @@ bob :> p2

=============================================================================
