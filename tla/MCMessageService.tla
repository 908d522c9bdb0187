-------------------------- MODULE MCMessageService --------------------------
(* Small values for MessageService: two users, one retry, and a TTL that is *)
(* long enough for it.                                                      *)
EXTENDS MessageService

CONSTANTS alice, bob, m1, m2
=============================================================================
