--------------------------- MODULE MessageOutcome ---------------------------
(***************************************************************************)
(* What the pender promises about a message handed to an online recipient: *)
(* it is sent, sent again at most MaxRetry times, and ends at most once,   *)
(* acknowledged or failed; a failed message is never sent again, and the   *)
(* outcome is final.                                                       *)
(***************************************************************************)
EXTENDS Naturals

CONSTANTS Ids, MaxRetry

VARIABLES status, resends

vars == <<status, resends>>

Init == /\ status = [i \in Ids |-> "new"]
        /\ resends = [i \in Ids |-> 0]

Move(i, from, to) == /\ status[i] = from
                     /\ status' = [status EXCEPT ![i] = to]
                     /\ UNCHANGED resends

\* An ACK that overtakes a retry does not recall it.
Resend(i) == /\ status[i] \in {"pending", "acked"} /\ resends[i] < MaxRetry
             /\ resends' = [resends EXCEPT ![i] = @ + 1]
             /\ UNCHANGED status

Next == \E i \in Ids : \/ Move(i, "new", "pending")
                       \/ Move(i, "pending", "acked")
                       \/ Move(i, "pending", "failed")
                       \/ Resend(i)

Spec == Init /\ [][Next]_vars

=============================================================================
