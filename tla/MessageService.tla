--------------------------- MODULE MessageService ---------------------------
(***************************************************************************)
(* MessageService of service/message.go composed with its pender: what one *)
(* call of SendMessage does, step by step, in the goroutine that reads a   *)
(* user's connection, and what the three callbacks do in the goroutine     *)
(* that runs them.  There is one connection per user, so a caller of the   *)
(* pender is named by its user.                                            *)
(*                                                                         *)
(* The router and the database are what SendMessage sees of them: a frame  *)
(* that is routed reaches the client or is lost (nobody subscribed, write  *)
(* buffer full, connection gone), a statement is executed or returns an    *)
(* error.  The goroutine that updates conversations is module              *)
(* Conversation.                                                           *)
(***************************************************************************)
EXTENDS Integers, FiniteSets

CONSTANTS
  Users, Ids,
  Room,          \* the room, as the target of a message
  NoMsg, NoId, Free, ClearUp,
  TTL, MaxRetry, RetryInterval, MaxTime,
  LastSendTime,  \* bound: no new message is sent after this instant
  Faults         \* what may go wrong: "router", "store"

ASSUME CallersAssumption == Free \notin Users /\ ClearUp \notin Users /\ Free # ClearUp
ASSUME IdsAssumption == NoId \notin Ids
ASSUME OptsAssumption ==
  TTL \in Nat /\ MaxRetry \in Nat /\ RetryInterval \in Nat \ {0}
ASSUME BoundsAssumption ==
  MaxTime \in Nat /\ LastSendTime \in Nat /\ MaxTime >= LastSendTime + TTL

Messages == [from : Users, to : Users \union {Room}, type : {"text", "failed"},
             sendAt : 0 .. LastSendTime]
ASSUME MessagesAssumption ==
  NoMsg \notin Messages /\ Room \notin Users

VARIABLES now, tick, mx, msgList, sendAt, lastRetryAt, retryCount, pc, arg,
          cpc, toFail, toRetry, pended, acked, failed, late

P == INSTANCE MessagePender WITH
       Callers <- Users, AckIds <- Ids

VARIABLES
  msgs,       \* Message objects, by MsgId; the pender shares them
  at, cur,    \* where each reader is in SendMessage, and for which MsgId
  online,     \* users whose online key is set in redis
  rows, delivered,   \* table messages, and its rows with is_delivered = 1
  inbox,      \* frames each user's client has received
  faults      \* what may go wrong in this behaviour

penderVars == <<now, tick, mx, msgList, sendAt, lastRetryAt, retryCount, pc,
                arg, cpc, toFail, toRetry, pended, acked, failed, late>>
serviceVars == <<msgs, at, cur, online, rows, delivered, inbox, faults>>
vars == <<penderVars, serviceVars>>

Frame(type, i) == [type |-> type, id |-> i]
Kinds == {"text", "sent", "ack", "failed"}
Steps == {"read", "save", "sent", "group", "online", "pend", "route",
          "unpend", "update", "notify"}

Init ==
  /\ P!Init
  /\ msgs = [i \in Ids |-> NoMsg]
  /\ at = [u \in Users |-> "read"]
  /\ cur = [u \in Users |-> NoId]
  /\ online \in SUBSET Users
  /\ rows = {} /\ delivered = {}
  /\ inbox = [u \in Users |-> {}]
  /\ faults \in SUBSET Faults

Go(u, step) == at' = [at EXCEPT ![u] = step]
Done(u) == Go(u, "read") /\ cur' = [cur EXCEPT ![u] = NoId]
Msg(u) == msgs[cur[u]]

\* router.Route to one user: the frame arrives, or is lost without an error
\* that anybody looks at.
Route(u, f) ==
  \/ inbox' = [inbox EXCEPT ![u] = @ \union {f}]
  \/ "router" \in faults /\ UNCHANGED inbox

----------------------------------------------------------------------------
(* SendMessage for an ordinary message.                                    *)

\* The call, with the fresh MsgId and the SendAt that onMessage stamped.
SendMessage(u, i, to) ==
  /\ at[u] = "read" /\ msgs[i] = NoMsg /\ u # to
  /\ msgs' = [msgs EXCEPT ![i] =
       [from |-> u, to |-> to, type |-> "text", sendAt |-> now]]
  /\ cur' = [cur EXCEPT ![u] = i]
  /\ Go(u, "save")
  /\ UNCHANGED <<penderVars, online, rows, delivered, inbox, faults>>

Save(u) ==
  /\ at[u] = "save"
  /\ rows' = rows \union {cur[u]}
  /\ Go(u, "sent")
  /\ UNCHANGED <<penderVars, msgs, cur, online, delivered, inbox, faults>>

SaveError(u) ==
  /\ at[u] = "save" /\ "store" \in faults
  /\ Done(u)
  /\ UNCHANGED <<penderVars, msgs, online, rows, delivered, inbox, faults>>

\* Mutant: no Sent reply.
NoReply(u) ==
  /\ at[u] = "sent"
  /\ Go(u, IF Msg(u).to = Room THEN "group" ELSE "online")
  /\ UNCHANGED <<penderVars, msgs, cur, online, rows, delivered, inbox, faults>>

ReplySent(u) ==
  /\ at[u] = "sent"
  /\ Route(Msg(u).from, Frame("sent", cur[u]))
  /\ Go(u, IF Msg(u).to = Room THEN "group" ELSE "online")
  /\ UNCHANGED <<penderVars, msgs, cur, online, rows, delivered, faults>>

\* Whether GetMembers answers or fails, no client hears: RouteGroup publishes a
\* message without a ToId, for which the router of the subscriber's instance
\* finds no connection (redis_router.go:58; Gateway, RouteGroup and Forward).
SendGroupMessage(u) ==
  /\ at[u] = "group"
  /\ Done(u)
  /\ UNCHANGED <<penderVars, msgs, online, rows, delivered, inbox, faults>>

RecipientOffline(u) ==
  /\ at[u] = "online" /\ Msg(u).to \notin online
  /\ Done(u)
  /\ UNCHANGED <<penderVars, msgs, online, rows, delivered, inbox, faults>>

\* Mutant: the message is stamped again when it is pended.
RecipientOnlineRestamp(u) ==
  /\ at[u] = "online" /\ Msg(u).to \in online
  /\ P!CallPend(u, cur[u], now)
  /\ Go(u, "pend")
  /\ UNCHANGED <<msgs, cur, online, rows, delivered, inbox, faults>>

RecipientOnline(u) ==
  /\ at[u] = "online" /\ Msg(u).to \in online
  /\ P!CallPend(u, cur[u], Msg(u).sendAt)
  /\ Go(u, "pend")
  /\ UNCHANGED <<msgs, cur, online, rows, delivered, inbox, faults>>

PendLock(u) == at[u] = "pend" /\ P!PendLock(u) /\ UNCHANGED serviceVars

Pend(u) ==
  /\ at[u] = "pend" /\ P!Pend(u)
  /\ Go(u, "route")
  /\ UNCHANGED <<msgs, cur, online, rows, delivered, inbox, faults>>

\* Mutant: what is routed counts as delivered.
RouteAndUpdate(u) ==
  /\ at[u] = "route"
  /\ Route(Msg(u).to, Frame(Msg(u).type, cur[u]))
  /\ delivered' = delivered \union {cur[u]}
  /\ Done(u)
  /\ UNCHANGED <<penderVars, msgs, online, rows, faults>>

\* The message itself, as the shared object is by now.
RouteMessage(u) ==
  /\ at[u] = "route"
  /\ Route(Msg(u).to, Frame(Msg(u).type, cur[u]))
  /\ Done(u)
  /\ UNCHANGED <<penderVars, msgs, online, rows, delivered, faults>>

----------------------------------------------------------------------------
(* SendMessage for an ACK that names MsgId i.                              *)

SendAck(u, i) ==
  /\ at[u] = "read"
  /\ P!CallUnPend(u, i)
  /\ cur' = [cur EXCEPT ![u] = i]
  /\ Go(u, "unpend")
  /\ UNCHANGED <<msgs, online, rows, delivered, inbox, faults>>

UnPendLock(u) == at[u] = "unpend" /\ P!UnPendLock(u) /\ UNCHANGED serviceVars
UnPendFound(u) == at[u] = "unpend" /\ P!UnPendFound(u) /\ UNCHANGED serviceVars
UnPendDelete(u) == at[u] = "unpend" /\ P!UnPendDelete(u) /\ UNCHANGED serviceVars

UnPendNotFound(u) ==
  /\ at[u] = "unpend" /\ P!UnPendNotFound(u)
  /\ Done(u)
  /\ UNCHANGED <<msgs, online, rows, delivered, inbox, faults>>

\* OnMsgAcked, whose two effects are the row and the notice to the sender.
OnMsgAcked(u) ==
  /\ at[u] = "unpend" /\ P!OnMsgAcked(u)
  /\ Go(u, "update")
  /\ UNCHANGED <<msgs, cur, online, rows, delivered, inbox, faults>>

UpdateDelivered(u) ==
  /\ at[u] = "update" /\ cur[u] \in rows
  /\ delivered' = delivered \union {cur[u]}
  /\ Go(u, "notify")
  /\ UNCHANGED <<penderVars, msgs, cur, online, rows, inbox, faults>>

\* Mutant: the sender is notified although the row was not updated.
UpdateErrorIgnored(u) ==
  /\ at[u] = "update"
  /\ cur[u] \notin rows \/ "store" \in faults
  /\ Go(u, "notify")
  /\ UNCHANGED <<penderVars, msgs, cur, online, rows, delivered, inbox, faults>>

UpdateError(u) ==
  /\ at[u] = "update"
  /\ cur[u] \notin rows \/ "store" \in faults
  /\ Done(u)
  /\ UNCHANGED <<penderVars, msgs, online, rows, delivered, inbox, faults>>

\* Mutant: the sender is not notified.
NoNotice(u) ==
  /\ at[u] = "notify"
  /\ Done(u)
  /\ UNCHANGED <<penderVars, msgs, online, rows, delivered, inbox, faults>>

NotifyAcked(u) ==
  /\ at[u] = "notify"
  /\ Route(Msg(u).from, Frame("ack", cur[u]))
  /\ Done(u)
  /\ UNCHANGED <<penderVars, msgs, online, rows, delivered, faults>>

----------------------------------------------------------------------------
(* The callbacks that clearUp makes.                                       *)

\* The shared object becomes a Failed message; the notice to the sender goes
\* through SendMessage, which only routes it.
OnMsgFailed(i) ==
  /\ P!OnMsgFailed(i)
  /\ msgs' = [msgs EXCEPT ![i].type = "failed"]
  /\ Route(msgs[i].from, Frame("failed", i))
  /\ UNCHANGED <<at, cur, online, rows, delivered, faults>>

OnMsgRetry(i) ==
  /\ P!OnMsgRetry(i)
  /\ Route(msgs[i].to, Frame(msgs[i].type, i))
  /\ UNCHANGED <<msgs, at, cur, online, rows, delivered, faults>>

ClearUpRun ==
  \/ /\ P!ClearUpTick \/ P!ClearUpLock \/ P!ClearUpScan \/ P!ClearUpDelete
        \/ P!ClearUpDone
     /\ UNCHANGED serviceVars
  \/ \E i \in Ids : OnMsgFailed(i) \/ OnMsgRetry(i)

----------------------------------------------------------------------------
\* A reader that has entered SendMessage keeps running.
ReaderRun(u) ==
  \/ Save(u) \/ SaveError(u) \/ ReplySent(u)
  \/ SendGroupMessage(u) \/ RecipientOffline(u) \/ RecipientOnline(u)
  \/ PendLock(u) \/ Pend(u) \/ RouteMessage(u)
  \/ UnPendLock(u) \/ UnPendFound(u) \/ UnPendNotFound(u) \/ UnPendDelete(u)
  \/ OnMsgAcked(u) \/ UpdateDelivered(u) \/ UpdateError(u) \/ NotifyAcked(u)

\* The online key is set and deleted by the gateway, or expires.
OnlineChange ==
  /\ \E u \in Users : \/ online' = online \union {u}
                      \/ online' = online \ {u}
  /\ UNCHANGED <<penderVars, msgs, at, cur, rows, delivered, inbox, faults>>

Advance == P!Advance /\ UNCHANGED serviceVars

\* Everything but the arrival of a client's frame.
Server == Advance \/ OnlineChange \/ ClearUpRun \/ \E u \in Users : ReaderRun(u)

\* A client sends messages, and acknowledges those it has received.
Client(u) ==
  \/ /\ now <= LastSendTime
     /\ \E i \in Ids, to \in Users \union {Room} : SendMessage(u, i, to)
  \/ \E i \in Ids : Frame("text", i) \in inbox[u] /\ SendAck(u, i)

Next == Server \/ \E u \in Users : Client(u)

Spec == Init /\ [][Next]_vars

Fairness ==
  /\ WF_vars(Advance)
  /\ WF_vars(ClearUpRun)
  /\ SF_vars(P!ClearUpLock /\ UNCHANGED serviceVars)
  /\ \A u \in Users : WF_vars(ReaderRun(u)) /\ SF_vars(PendLock(u) \/ UnPendLock(u))
FairSpec == Spec /\ Fairness

----------------------------------------------------------------------------
TypeOK ==
  /\ P!TypeOK
  /\ msgs \in [Ids -> Messages \union {NoMsg}]
  /\ at \in [Users -> Steps]
  /\ cur \in [Users -> Ids \union {NoId}]
  /\ online \subseteq Users
  /\ rows \subseteq Ids /\ delivered \subseteq rows
  /\ inbox \in [Users -> SUBSET [type : Kinds, id : Ids]]
  /\ faults \subseteq Faults

\* What a client hears is in the table, whatever statement failed: nobody, the
\* sender (Sent) or a recipient, hears of a message that was not saved
\* (message.go:199-220), and the sender is told that it was received only when
\* its row says so (message.go:164-175).
HeardIsStored ==
  \A u \in Users, i \in Ids :
    /\ \A f \in inbox[u] : f.id = i => i \in rows
    /\ Frame("ack", i) \in inbox[u] => i \in delivered

\* A message is not both delivered and reported as failed, nor is its sender
\* told both things (the ACK races with clearUp).
OneVerdict ==
  \A u \in Users, i \in Ids : Frame("failed", i) \in inbox[u] =>
     i \notin delivered /\ Frame("ack", i) \notin inbox[u]

\* A verdict, Ack or Failed, comes after Sent on the sender's side: with no
\* frame lost, a sender that has the verdict has the Sent that matches the
\* ClientMsgId to the MsgId (message.go:205-214).
SentBeforeVerdict ==
  "router" \notin faults =>
    \A i \in Ids, k \in {"ack", "failed"} : msgs[i] # NoMsg =>
      LET mine == inbox[msgs[i].from] IN
      Frame(k, i) \in mine => Frame("sent", i) \in mine

\* When clients acknowledge what they have received, a row says "delivered" only
\* of a message that its addressee's client has received, although UnPend goes by
\* the id alone and does not look at who acknowledges (message.go:105-120,
\* 164-167); and no client receives what is for others.
DeliveredWasReceived ==
  /\ \A u \in Users, i \in Ids : Frame("text", i) \in inbox[u] => u = msgs[i].to
  /\ \A i \in delivered : Frame("text", i) \in inbox[msgs[i].to]

\* Where DeliveredWasReceived comes from: a reader that handles an ACK is that of
\* a recipient, and only messages to one user are pended.
Received ==
  /\ DeliveredWasReceived
  /\ \A u \in Users :
       /\ at[u] \in {"unpend", "update", "notify"} => Frame("text", cur[u]) \in inbox[u]
       /\ at[u] \in {"online", "pend", "route"} => Msg(u).to # Room
       /\ at[u] = "group" => Msg(u).to = Room
  /\ \A i \in pended : msgs[i].to # Room

\* Seen from the pender, the service is one more set of callers: it calls
\* Pend and UnPend only from goroutines that are not already in a call, pends
\* a MsgId once, and adds nothing to what the callbacks do to the table.
UsesPender == P!Spec

\* With no fault, the sender of a pended message hears of its fate, unless an
\* ACK that missed has left the pender's mutex locked.
SenderHears ==
  \A i \in Ids : (i \in msgList /\ faults = {}) ~>
    \/ P!Leaked
    \/ \E u \in Users : \/ Frame("ack", i) \in inbox[u]
                        \/ Frame("failed", i) \in inbox[u]

\* SendMessage returns to the reader of the connection, whatever fails and
\* whatever clearUp does, as long as the mutex is not lost: a reader that is
\* stuck reads no frame of its user any more (ws_conn.go:83-112).
ReaderReturns == \A u \in Users : at[u] # "read" ~> at[u] = "read" \/ P!Leaked

\* A message given to the pender is acknowledged or declared failed in the
\* end, whatever frames are lost and statements fail, as long as the mutex is
\* not lost (docs/notes/week06-ack.md:25).
Settled ==
  \A i \in Ids : i \in msgList ~> acked[i] + failed[i] = 1 \/ P!Leaked

=============================================================================
