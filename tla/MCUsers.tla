------------------------------ MODULE MCUsers ------------------------------
(* Small values for Users.                                                 *)
EXTENDS Users

CONSTANTS a1, a2, e1, e2, p1, r1
=============================================================================
