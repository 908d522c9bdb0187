--------------------------- MODULE MCConversation ---------------------------
(* Small values for Conversation: two owners, two messages, and a call to   *)
(* create or open.                                                          *)
EXTENDS Conversation, TLC

CONSTANTS alice, bob, m1, m2, h1

Symmetry == Permutations(Owners) \union Permutations(Msgs)
=============================================================================
