-------------------------- MODULE MCTicketOwnership --------------------------
(***************************************************************************)
(* Small instances of TicketOwnership: one ticket that Ann has bought, and *)
(* Bob and Cat who may get it.                                             *)
(***************************************************************************)
EXTENDS TicketOwnership, TLC

CONSTANTS ann, bob, cat

MCFirstOwner == [t \in Tickets |-> ann]

\* The workers are alike, and so are the rows of a table.
Alike == Permutations(Workers) \cup Permutations(Listings) \cup Permutations(Transfers)

=============================================================================
