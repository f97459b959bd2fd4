----------------------------- MODULE MCEventSale -----------------------------
(***************************************************************************)
(* Small instances of EventSale.                                           *)
(***************************************************************************)
EXTENDS EventSale, TLC

\* The organizers' workers are alike, and so are the rows and the users.
Alike == Permutations(Admins) \cup Permutations(Types) \cup Permutations(Buyers)

\* Nothing is said of what follows a stale write, which stays recorded.
Fresh == ~ stale

=============================================================================
