------------------------------ MODULE MCFriends ------------------------------
(* Small values for Friends: two users, who may also name themselves.       *)
EXTENDS Friends

CONSTANTS alice, bob
=============================================================================
