-------------------------- MODULE MCTicketLifecycle --------------------------
(***************************************************************************)
(* Small instances of TicketLifecycle: Ann and Bob want the two units of a *)
(* type, Bob both of them in one ticket, and Ann may buy again after a     *)
(* ticket of hers has ended.                                               *)
(***************************************************************************)
EXTENDS TicketLifecycle, TLC

CONSTANTS ann, bob, ann1, ann2, bob1

MCOwnerOf == [t \in Tickets |-> IF t = bob1 THEN bob ELSE ann]
MCQuantityOf == [t \in Tickets |-> IF t = ann1 THEN 1 ELSE 2]

=============================================================================
