-------------------------- MODULE MCMessagePender --------------------------
(* Small values for MessagePender: two messages, two callers, retries at    *)
(* every unit of time, two of them, and a TTL one unit longer than they     *)
(* take, as 30 s is longer than the 20 s of three retries every 5 s.        *)
EXTENDS MessagePender, TLC

CONSTANTS m1, m2, stray, c1, c2

Symmetry == Permutations({c1, c2}) \union Permutations({m1, m2})
============================================================================
