------------------------------- MODULE Mailbox -------------------------------
(***************************************************************************)
(* What the whole of aichat promises about direct messages: one that was   *)
(* accepted is skipped, or published 1 + MaxRetry times at most until its  *)
(* fate is settled; what is published is shown to connections of its       *)
(* addressee only; and when clients are orderly and redis works (exact),   *)
(* to one of them, once, and nobody who is present is skipped.  Present is *)
(* who has an established connection whose messages the server handles.    *)
(*                                                                         *)
(* Nothing here is about instances, registers, subscriptions, the pending  *)
(* list or goroutines.                                                     *)
(***************************************************************************)
EXTENDS Naturals

CONSTANTS Users, Conns, Ids, MaxRetry, None

VARIABLES
  exact,        \* whether the stronger promises are made
  owner,        \* whose each connection is
  present,      \* users with a connection that is established and attended to
  to, status,   \* of each message its addressee, and its fate
  published,    \* frames <<message, n>> that were published
  shown         \* how often each connection was shown each of them

vars == <<exact, owner, present, to, status, published, shown>>
Frames == Ids \X (0 .. MaxRetry)

Init ==
  /\ exact \in BOOLEAN
  /\ owner = [k \in Conns |-> None] /\ present = {}
  /\ to = [i \in Ids |-> None] /\ status = [i \in Ids |-> "new"]
  /\ published = {}
  /\ shown = [f \in Frames |-> [k \in Conns |-> 0]]

Set(i, from, next) == status[i] = from /\ status' = [status EXCEPT ![i] = next]

Send(i, u) ==
  /\ Set(i, "new", "sending")
  /\ to' = [to EXCEPT ![i] = u]
  /\ UNCHANGED <<exact, owner, present, published, shown>>

Skip(i) ==
  /\ Set(i, "sending", "skipped")
  /\ \A n \in 0 .. MaxRetry : <<i, n>> \notin published
  /\ exact => to[i] \notin present
  /\ UNCHANGED <<exact, owner, present, to, published, shown>>

Publish(i, n) ==
  /\ status[i] = "sending" /\ <<i, n>> \notin published
  /\ published' = published \union {<<i, n>>}
  /\ UNCHANGED <<exact, owner, present, to, status, shown>>

\* Also after the message has failed: what is on its way is not recalled.
Show(i, n, k) ==
  /\ <<i, n>> \in published /\ owner[k] = to[i]
  /\ exact => \A c \in Conns : shown[<<i, n>>][c] = 0
  /\ shown' = [shown EXCEPT ![<<i, n>>][k] = @ + 1]
  /\ UNCHANGED <<exact, owner, present, to, status, published>>

Fail(i) ==
  /\ Set(i, "sending", "failed")
  /\ UNCHANGED <<exact, owner, present, to, published, shown>>

\* An instance ends, with messages that it was sending and connections.
Lose(S) ==
  /\ \A i \in S : status[i] = "sending"
  /\ status' = [i \in Ids |-> IF i \in S THEN "lost" ELSE status[i]]
  /\ present' \in SUBSET present
  /\ UNCHANGED <<exact, owner, to, published, shown>>

\* Connections come and go; one belongs to one user.
Connect ==
  /\ owner' \in [Conns -> Users \union {None}]
  /\ \A k \in Conns : owner[k] # None => owner'[k] = owner[k]
  /\ present' \in SUBSET Users
  /\ UNCHANGED <<exact, to, status, published, shown>>

Next ==
  \/ \E i \in Ids :
       \/ \E u \in Users : Send(i, u)
       \/ Skip(i) \/ Fail(i)
       \/ \E n \in 0 .. MaxRetry : Publish(i, n) \/ \E k \in Conns : Show(i, n, k)
  \/ \E S \in SUBSET Ids : Lose(S)
  \/ Connect

Spec == Init /\ [][Next]_vars

=============================================================================
