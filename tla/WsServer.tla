------------------------------ MODULE WsServer ------------------------------
(***************************************************************************)
(* MessageService behind the onMessage callback of gateway/ws/ws_server.go *)
(* (handleWs): whatever the frame, the server draws a fresh MsgId for it,  *)
(* stamps it, and hands it to SendMessage in the reader's goroutine.       *)
(***************************************************************************)
EXTENDS MessageService

VARIABLES
  issued,     \* MsgIds that onMessage has drawn
  ackFrames   \* history: MsgIds for which the recipient sent an ACK frame

wsVars == <<vars, issued, ackFrames>>

WsInit == Init /\ issued = {} /\ ackFrames = {}

Draw(i) == i \notin issued /\ issued' = issued \union {i}

OnMessageText(u, to) ==
  /\ now <= LastSendTime
  /\ \E i \in Ids : Draw(i) /\ SendMessage(u, i, to)
  /\ UNCHANGED ackFrames

\* The client acknowledges a message it has received.
OnMessageAck(u, acknowledged) ==
  /\ Frame("text", acknowledged) \in inbox[u]
  /\ \E i \in Ids : Draw(i) /\ SendAck(u, i)
  /\ ackFrames' = ackFrames \union {acknowledged}

WsNext ==
  \/ Server /\ UNCHANGED <<issued, ackFrames>>
  \/ \E u \in Users : \/ \E to \in Users \union {Room} : OnMessageText(u, to)
                      \/ \E i \in Ids : OnMessageAck(u, i)

WsSpec == WsInit /\ [][WsNext]_wsVars
WsFairSpec == WsSpec /\ Fairness

----------------------------------------------------------------------------
\* A message to one user (those to a room have no ACK) that the recipient has
\* acknowledged is marked delivered in the end, as docs/notes/week06-ack.md:224
\* asks, unless the ACK came after the pender had given the message up.
AckDelivers ==
  \A i \in Ids : i \in ackFrames /\ msgs[i].to # Room ~> i \in delivered \/ failed[i] > 0

\* What the overwritten MsgId comes to (ws_server.go:120): no row is ever marked
\* delivered and no sender is ever told that its message was received.
NothingDelivered ==
  delivered = {} /\ \A u \in Users, i \in Ids : Frame("ack", i) \notin inbox[u]

\* Every ACK frame whose UnPend returns leaves the pender's mutex locked
\* (message.go:111), and from the first one on the table stays as it is: nothing
\* is pended, retried anew or given up any more.
AckLosesMutex ==
  [][/\ \A u \in Users : at[u] = "unpend" /\ at'[u] # "unpend" => P!Leaked'
     /\ P!Leaked => P!Leaked' /\ msgList' = msgList]_wsVars

\* The MsgId that an ACK is handled under was drawn for it alone: no message has
\* it, nor does the pender.
AckIsFresh ==
  /\ \A i \in Ids : msgs[i] # NoMsg => i \in issued
  /\ \A u \in Users : at[u] = "unpend" => cur[u] \in issued /\ msgs[cur[u]] = NoMsg
  /\ \A u \in Users : at[u] \notin {"update", "notify"} /\ pc[u] \notin {"delete", "acked"}
  /\ delivered = {}

=============================================================================
