----------------------------- MODULE MCDelivery -----------------------------
(* Small values for Delivery: one addressee, two connections, two instances, *)
(* one message that is routed twice.                                         *)
EXTENDS Delivery

CONSTANTS alice, i1, i2, k1, k2, m

Frames == Ids \X (0 .. MaxRetry)

\* Orderly clients: nothing fails, or channels do and buffers are full.
OrderlySettings == {[orderly |-> TRUE, sends |-> TRUE, faults |-> F] : F \in {{}, {"channels", "full"}}}
=============================================================================
