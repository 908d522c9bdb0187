----------------------------- MODULE MCWsServer -----------------------------
(* Two users and the MsgIds that their frames may draw.                     *)
EXTENDS WsServer

CONSTANTS alice, bob, m1, m2, m3
=============================================================================
