------------------------------- MODULE MCRooms -------------------------------
(* Small values for Rooms: a limit of one instead of twenty, two calls that *)
(* race for it, and one user of two registered.                             *)
EXTENDS Rooms, TLC

CONSTANTS alice, ghost, r1, r2, c1, c2, m1

Symmetry == Permutations(Rooms) \union Permutations(Calls)
=============================================================================
