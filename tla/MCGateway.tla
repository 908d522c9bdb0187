----------------------------- MODULE MCGateway -----------------------------
(* Small values for Gateway: one user, two connections, one or two instances, *)
(* one message.                                                            *)
EXTENDS Gateway

CONSTANTS alice, i1, i2, k1, k2, m

\* Orderly clients, messages and full buffers; any clients and redis errors.
\* (The registers do not depend on messages.)
AllSettings == {[orderly |-> TRUE, sends |-> TRUE, faults |-> {"full"}],
                [orderly |-> FALSE, sends |-> FALSE, faults |-> {"keys", "channels"}]}
CleanSettings == {[orderly |-> b, sends |-> FALSE, faults |-> {}] : b \in BOOLEAN}
=============================================================================
