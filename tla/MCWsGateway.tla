---------------------------- MODULE MCWsGateway ----------------------------
(***************************************************************************)
(* A small instance of WsGateway: two connections of Ann to one instance   *)
(* of the gateway, one of them in a room, and an instance without a router *)
(* that would send to her too.                                             *)
(***************************************************************************)
EXTENDS WsGateway, TLC

CONSTANTS ann, gw, seckill, a1, a2, m1, room

MCUserOf == [c \in Clients |-> ann]
MCHostOf == [c \in Clients |-> gw]
MCRoomOf == [c \in Clients |-> IF c = a1 THEN room ELSE NoRoom]
MCToOf == [m \in Messages |-> ann]

=============================================================================
