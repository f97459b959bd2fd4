---------------------------- MODULE MCStreamSale ----------------------------
(***************************************************************************)
(* A small instance of StreamSale: Ann and Bob compete for the two units   *)
(* of type vip with a call for one unit and a call for two, and Ann calls  *)
(* for the one unit of type std.                                           *)
(***************************************************************************)
EXTENDS StreamSale, TLC

CONSTANTS ann, bob, vip, std, annVip, bobVip, annStd

MCUserOf == annVip :> ann @@ bobVip :> bob @@ annStd :> ann
MCTypeOf == annVip :> vip @@ bobVip :> vip @@ annStd :> std
MCQuantityOf == annVip :> 1 @@ bobVip :> 2 @@ annStd :> 1
MCInitialStock == vip :> 2 @@ std :> 1
MCMaxPerUser == vip :> 2 @@ std :> 1

=============================================================================
