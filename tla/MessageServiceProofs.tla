------------------------- MODULE MessageServiceProofs -------------------------
(***************************************************************************)
(* Proofs about MessageService and WsServer, for any users, messages,       *)
(* members of the room, options of the pender and faults: the service uses *)
(* its pender as MessagePender says, so that what is proved about the      *)
(* pender holds here, and what the clients are told agrees with the table. *)
(***************************************************************************)
EXTENDS WsServer, TLAPS

PP == INSTANCE MessagePenderProofs WITH Callers <- Users, AckIds <- Ids

----------------------------------------------------------------------------
(* The inductive invariant.                                                *)

Frames == [type : Kinds, id : Ids]
Types ==
  /\ msgs \in [Ids -> Messages \union {NoMsg}]
  /\ at \in [Users -> Steps] /\ cur \in [Users -> Ids \union {NoId}]
  /\ rows \subseteq Ids /\ delivered \subseteq rows /\ pended \subseteq rows
  /\ inbox \in [Users -> SUBSET Frames]
  /\ \A i \in rows : msgs[i] # NoMsg
  /\ online \subseteq Users /\ faults \subseteq Faults

\* A reader in the pender is there for the message it is handling, which is
\* known, and saved once the reader is past that.
Readers ==
  \A u \in Users :
    /\ pc[u] # "idle" => at[u] \in {"pend", "unpend"} /\ arg[u] = cur[u]
    /\ at[u] # "read" => cur[u] \in Ids
    /\ at[u] \in {"save", "sent", "group", "online", "pend", "route"} => msgs[cur[u]] # NoMsg
    /\ at[u] \in {"sent", "group", "online", "pend", "route"} => cur[u] \in rows
    /\ at[u] \in {"update", "notify"} => acked[cur[u]] > 0
    /\ at[u] = "notify" => cur[u] \in delivered

\* What rows, objects and frames say is what the pender has decided.
Verdicts ==
  /\ \A i \in delivered : acked[i] > 0
  /\ \A i \in Ids : msgs[i] # NoMsg =>
       msgs[i].sendAt <= now /\ (msgs[i].type = "failed" => failed[i] > 0)
  /\ \A u \in Users : \A f \in inbox[u] :
       /\ f.id \in rows
       /\ f.type = "ack" => f.id \in delivered
       /\ f.type = "failed" => failed[f.id] > 0

\* When no frame is lost, a sender has Sent for what was pended.
SentKnown(i) == Frame("sent", i) \in inbox[msgs[i].from]
Sent ==
  "router" \notin faults =>
    /\ \A i \in pended : SentKnown(i)
    /\ \A u \in Users : at[u] \in {"group", "online", "pend", "route"} => SentKnown(cur[u])

Known == Types /\ Readers /\ Verdicts /\ Sent
ServiceInv == PP!IndInv /\ Known

----------------------------------------------------------------------------
(* The pender.                                                             *)

LEMMA PenderAssumptions ==
  PP!CallersAssumption /\ PP!IdsAssumption /\ PP!OptsAssumption /\ PP!BoundsAssumption
  BY CallersAssumption, IdsAssumption, OptsAssumption, BoundsAssumption
  DEF PP!CallersAssumption, PP!IdsAssumption, PP!OptsAssumption, PP!BoundsAssumption

\* The two names of the pender mean the same.
LEMMA SameInit == P!Init => PP!Init
  BY DEF P!Init, PP!Init

LEMMA SameNext == [P!Next]_P!vars => [PP!Next]_PP!vars
  BY DEF P!Next, PP!Next, P!Advance, PP!Advance, P!CallPend, PP!CallPend, P!Stamps, PP!Stamps,
         P!CallUnPend, PP!CallUnPend, P!CallerRun, PP!CallerRun, P!PendLock, PP!PendLock,
         P!Pend, PP!Pend, P!UnPendLock, PP!UnPendLock, P!UnPendFound, PP!UnPendFound,
         P!UnPendNotFound, PP!UnPendNotFound, P!UnPendDelete, PP!UnPendDelete,
         P!OnMsgAcked, PP!OnMsgAcked, P!ClearUpRun, PP!ClearUpRun, P!ClearUpTick,
         PP!ClearUpTick, P!ClearUpLock, PP!ClearUpLock, P!ClearUpScan, PP!ClearUpScan,
         P!ClearUpDelete, PP!ClearUpDelete, P!ClearUpDone, PP!ClearUpDone, P!OnMsgFailed,
         PP!OnMsgFailed, P!OnMsgRetry, PP!OnMsgRetry, P!GivenUp, PP!GivenUp, P!Expired,
         PP!Expired, P!RetryDue, PP!RetryDue, P!Goto, PP!Goto, P!Return, PP!Return, P!Lock,
         PP!Lock, P!Unlock, PP!Unlock, P!vars, PP!vars, P!settings, PP!settings,
         P!callerVars, PP!callerVars, P!clearUpVars, PP!clearUpVars, P!records, PP!records,
         P!history, PP!history

\* What the service needs to know of it.
LEMMA PenderFacts ==
  ASSUME PP!IndInv
  PROVE  /\ now \in 0 .. MaxTime /\ MaxTime \in Nat /\ LastSendTime \in Nat
         /\ pc \in [Users -> PP!CallerSteps] /\ arg \in [Users -> Ids \union {NoId}]
         /\ pended \subseteq Ids
         /\ acked \in [Ids -> Nat] /\ failed \in [Ids -> Nat]
         /\ \A i \in Ids : acked[i] = 0 \/ failed[i] = 0
         /\ \A i \in Ids : i \notin pended => acked[i] = 0 /\ failed[i] = 0
         /\ cpc = "callbacks" => toFail \subseteq pended /\ toRetry \subseteq pended
<1> USE DEF PP!IndInv
<1>1. /\ now \in 0 .. MaxTime /\ pended \subseteq Ids
      /\ pc \in [Users -> PP!CallerSteps] /\ arg \in [Users -> Ids \union {NoId}]
      /\ acked \in [Ids -> Nat] /\ failed \in [Ids -> Nat]
  BY DEF PP!TypeOK
<1>2. \A i \in Ids : acked[i] = 0 \/ failed[i] = 0
  <2> TAKE i \in Ids
  <2>1. acked[i] + failed[i] <= 1
    BY DEF PP!OneOutcome
  <2> QED  BY <1>1, <2>1
<1>3. \A i \in Ids : i \notin pended => acked[i] = 0 /\ failed[i] = 0
  BY DEF PP!OutcomeInv, PP!Unsettled
<1>4. cpc = "callbacks" => toFail \subseteq pended /\ toRetry \subseteq pended
  BY DEF PP!PlaceInv, PP!SnapshotInv
<1> QED
  BY <1>1, <1>2, <1>3, <1>4, BoundsAssumption

----------------------------------------------------------------------------
(* What the service adds to it.  One step per action, with a part for what  *)
(* it writes and a part for what that means.                                *)

\* An ACK comes in, for whatever MsgId.
LEMMA SendAckInv ==
  ASSUME ServiceInv, NEW u \in Users, NEW i \in Ids, SendAck(u, i)
  PROVE  Known'
<1> USE PenderFacts, MessagesAssumption
    DEF ServiceInv, Known, penderVars, serviceVars, Messages
<1>1. Types' /\ Readers'
  BY DEF SendAck, Go, P!CallUnPend, P!settings, P!callerVars, P!clearUpVars,
       P!records, P!history, P!Goto, P!Return, Types, Readers, Steps
<1>2. Verdicts' /\ Sent'
  BY DEF SendAck, Go, P!CallUnPend, P!settings, P!callerVars, P!clearUpVars,
       P!records, P!history, P!Goto, P!Return, Frame, Types, Readers, Verdicts,
       Sent, SentKnown
<1> QED
  BY <1>1, <1>2

\* A client's frame comes in.
LEMMA ClientInv ==
  ASSUME ServiceInv, NEW u \in Users, Client(u)
  PROVE  Known'
<1> USE PenderFacts, MessagesAssumption
    DEF ServiceInv, Known, penderVars, serviceVars, Messages
<1>1. ASSUME NEW i \in Ids, NEW to \in Users \union {Room}, now <= LastSendTime,
             SendMessage(u, i, to)
      PROVE  Known'
  <2>1. Types' /\ Readers'
    BY <1>1 DEF SendMessage, Go, Types, Readers, Steps
  <2>2. Verdicts' /\ Sent'
    BY <1>1 DEF SendMessage, Go, Frame, Types, Readers, Verdicts, Sent, SentKnown
  <2> QED  BY <2>1, <2>2
<1> QED
  BY <1>1, SendAckInv DEF Client

\* SendMessage for an ordinary message, but for the pender.
LEMMA SendInv ==
  ASSUME ServiceInv, NEW u \in Users,
         \/ Save(u) \/ SaveError(u) \/ ReplySent(u) \/ RouteMessage(u)
         \/ SendGroupMessage(u) \/ RecipientOffline(u)
  PROVE  Known'
<1> USE PenderFacts, MessagesAssumption
    DEF ServiceInv, Known, penderVars, serviceVars, Messages
<1>1. ASSUME Save(u) PROVE Known'
  <2>1. Types' /\ Readers'
    BY <1>1 DEF Save, Go, Types, Readers, Steps
  <2>2. Verdicts' /\ Sent'
    BY <1>1 DEF Save, Go, Frame, Types, Readers, Verdicts, Sent, SentKnown
  <2> QED  BY <2>1, <2>2
<1>2. ASSUME SaveError(u) PROVE Known'
  <2>1. Types' /\ Readers'
    BY <1>2 DEF SaveError, Go, Done, Types, Readers, Steps
  <2>2. Verdicts' /\ Sent'
    BY <1>2 DEF SaveError, Go, Done, Frame, Types, Readers, Verdicts, Sent, SentKnown
  <2> QED  BY <2>1, <2>2
<1>3. ASSUME ReplySent(u) PROVE Known'
  <2>1. Types' /\ Readers'
    BY <1>3 DEF ReplySent, Go, Msg, Route, Frame, Kinds, Frames, Types, Readers, Steps
  <2>2. Verdicts' /\ Sent'
    BY <1>3 DEF ReplySent, Go, Msg, Route, Frame, Kinds, Frames, Types, Readers,
         Verdicts, Sent, SentKnown
  <2> QED  BY <2>1, <2>2
<1>4. ASSUME RouteMessage(u) PROVE Known'
  <2>1. Types'
    BY <1>4 DEF RouteMessage, Go, Done, Msg, Route, Frame, Kinds, Frames, Types,
         Readers, Steps
  <2>3. Readers'
    BY <1>4 DEF RouteMessage, Go, Done, Types, Readers
  <2>2. Verdicts'
    <3>1. cur[u] \in rows /\ msgs[cur[u]] # NoMsg /\ Msg(u).type \in {"text", "failed"}
          /\ (Msg(u).type = "failed" => failed[cur[u]] > 0)
      BY <1>4 DEF RouteMessage, Msg, Types, Readers, Verdicts, Messages
    <3>2. \A v \in Users : inbox'[v] \subseteq inbox[v] \union {Frame(Msg(u).type, cur[u])}
      BY <1>4 DEF RouteMessage, Route, Types
    <3>3. UNCHANGED <<msgs, rows, delivered, acked, failed, now>>
      BY <1>4 DEF RouteMessage, penderVars
    <3> QED  BY <3>1, <3>2, <3>3 DEF Frame, Verdicts
  <2>4. Sent'
    <3>1. /\ \A v \in Users : inbox[v] \subseteq inbox'[v]
          /\ \A v \in Users : at'[v] \in {"group", "online", "pend", "route"} =>
               at[v] = at'[v] /\ cur'[v] = cur[v]
          /\ UNCHANGED <<msgs, pended, faults>>
      BY <1>4 DEF RouteMessage, Go, Done, Route, Types
    <3>2. /\ \A i \in pended : msgs[i].from \in Users
          /\ \A v \in Users : at[v] \in {"group", "online", "pend", "route"} =>
               msgs[cur[v]].from \in Users
      BY DEF Types, Readers
    <3>3. \A i : msgs[i].from \in Users /\ SentKnown(i) => SentKnown(i)'
      BY <3>1 DEF SentKnown, Frame
    <3> QED  BY <3>1, <3>2, <3>3 DEF Sent
  <2> QED  BY <2>1, <2>2, <2>3, <2>4
<1>5. ASSUME SendGroupMessage(u) PROVE Known'
  <2>1. Types' /\ Readers'
    BY <1>5 DEF SendGroupMessage, Go, Done, Types, Readers, Steps
  <2>2. Verdicts' /\ Sent'
    BY <1>5 DEF SendGroupMessage, Go, Done, Frame, Types, Readers, Verdicts,
         Sent, SentKnown
  <2> QED  BY <2>1, <2>2
<1>6. ASSUME RecipientOffline(u) PROVE Known'
  <2>1. Types' /\ Readers'
    BY <1>6 DEF RecipientOffline, Go, Done, Types, Readers, Steps
  <2>2. Verdicts' /\ Sent'
    BY <1>6 DEF RecipientOffline, Go, Done, Frame, Types, Readers, Verdicts, Sent,
         SentKnown
  <2> QED  BY <2>1, <2>2
<1> QED
  BY <1>1, <1>2, <1>3, <1>4, <1>5, <1>6

\* The calls of Pend and UnPend.
LEMMA PenderCallInv ==
  ASSUME ServiceInv, NEW u \in Users,
         \/ RecipientOnline(u) \/ PendLock(u) \/ Pend(u)
         \/ UnPendLock(u) \/ UnPendFound(u) \/ UnPendNotFound(u) \/ UnPendDelete(u)
  PROVE  Known'
<1> USE PenderFacts, MessagesAssumption
    DEF ServiceInv, Known, penderVars, serviceVars, Messages
<1>1. ASSUME RecipientOnline(u) PROVE Known'
  <2>1. Types' /\ Readers'
    BY <1>1 DEF RecipientOnline, Go, Msg, P!CallPend, P!settings, P!callerVars,
         P!clearUpVars, P!records, P!history, P!Goto, P!Return, Types, Readers, Steps
  <2>2. Verdicts' /\ Sent'
    BY <1>1 DEF RecipientOnline, Go, Msg, P!CallPend, P!settings, P!callerVars,
         P!clearUpVars, P!records, P!history, P!Goto, P!Return, Frame, Types, Readers,
         Verdicts, Sent, SentKnown
  <2> QED  BY <2>1, <2>2
<1>2. ASSUME PendLock(u) PROVE Known'
  <2>1. Types' /\ Readers'
    BY <1>2 DEF PendLock, P!PendLock, P!settings, P!callerVars, P!clearUpVars,
         P!records, P!history, P!Goto, P!Return, Types, Readers, Steps
  <2>2. Verdicts' /\ Sent'
    BY <1>2 DEF PendLock, P!PendLock, P!settings, P!callerVars, P!clearUpVars,
         P!records, P!history, P!Goto, P!Return, Frame, Types, Readers, Verdicts,
         Sent, SentKnown
  <2> QED  BY <2>1, <2>2
<1>3. ASSUME Pend(u) PROVE Known'
  <2>1. Types' /\ Readers'
    BY <1>3 DEF Pend, Go, P!Pend, P!settings, P!callerVars, P!clearUpVars, P!records,
         P!history, P!Goto, P!Return, Types, Readers, Steps
  <2>2. Verdicts' /\ Sent'
    BY <1>3 DEF Pend, Go, P!Pend, P!settings, P!callerVars, P!clearUpVars, P!records,
         P!history, P!Goto, P!Return, Frame, Types, Readers, Verdicts, Sent, SentKnown
  <2> QED  BY <2>1, <2>2
<1>4. ASSUME UnPendLock(u) PROVE Known'
  <2>1. Types' /\ Readers'
    BY <1>4 DEF UnPendLock, P!UnPendLock, P!settings, P!callerVars, P!clearUpVars,
         P!records, P!history, P!Goto, P!Return, Types, Readers, Steps
  <2>2. Verdicts' /\ Sent'
    BY <1>4 DEF UnPendLock, P!UnPendLock, P!settings, P!callerVars, P!clearUpVars,
         P!records, P!history, P!Goto, P!Return, Frame, Types, Readers, Verdicts,
         Sent, SentKnown
  <2> QED  BY <2>1, <2>2
<1>5. ASSUME UnPendFound(u) PROVE Known'
  <2>1. Types' /\ Readers'
    BY <1>5 DEF UnPendFound, P!UnPendFound, P!settings, P!callerVars, P!clearUpVars,
         P!records, P!history, P!Goto, P!Return, Types, Readers, Steps
  <2>2. Verdicts' /\ Sent'
    BY <1>5 DEF UnPendFound, P!UnPendFound, P!settings, P!callerVars, P!clearUpVars,
         P!records, P!history, P!Goto, P!Return, Frame, Types, Readers, Verdicts,
         Sent, SentKnown
  <2> QED  BY <2>1, <2>2
<1>6. ASSUME UnPendNotFound(u) PROVE Known'
  <2>1. Types' /\ Readers'
    BY <1>6 DEF UnPendNotFound, Go, Done, P!UnPendNotFound, P!settings, P!callerVars,
         P!clearUpVars, P!records, P!history, P!Goto, P!Return, Types, Readers, Steps
  <2>2. Verdicts' /\ Sent'
    BY <1>6 DEF UnPendNotFound, Go, Done, P!UnPendNotFound, P!settings, P!callerVars,
         P!clearUpVars, P!records, P!history, P!Goto, P!Return, Frame, Types, Readers,
         Verdicts, Sent, SentKnown
  <2> QED  BY <2>1, <2>2
<1>7. ASSUME UnPendDelete(u) PROVE Known'
  <2>1. Types' /\ Readers'
    BY <1>7 DEF UnPendDelete, P!UnPendDelete, P!settings, P!callerVars, P!clearUpVars,
         P!records, P!history, P!Goto, P!Return, Types, Readers, Steps
  <2>2. Verdicts' /\ Sent'
    BY <1>7 DEF UnPendDelete, P!UnPendDelete, P!settings, P!callerVars, P!clearUpVars,
         P!records, P!history, P!Goto, P!Return, Frame, Types, Readers, Verdicts,
         Sent, SentKnown
  <2> QED  BY <2>1, <2>2
<1> QED
  BY <1>1, <1>2, <1>3, <1>4, <1>5, <1>6, <1>7

\* OnMsgAcked.
LEMMA AckInv ==
  ASSUME ServiceInv, NEW u \in Users,
         OnMsgAcked(u) \/ UpdateDelivered(u) \/ UpdateError(u) \/ NotifyAcked(u)
  PROVE  Known'
<1> USE PenderFacts, MessagesAssumption
    DEF ServiceInv, Known, penderVars, serviceVars, Messages
<1>1. ASSUME OnMsgAcked(u) PROVE Known'
  <2>1. Types' /\ Readers'
    BY <1>1 DEF OnMsgAcked, Go, P!OnMsgAcked, P!settings, P!callerVars, P!clearUpVars,
         P!records, P!history, P!Goto, P!Return, Types, Readers, Steps
  <2>2. Verdicts' /\ Sent'
    BY <1>1 DEF OnMsgAcked, Go, P!OnMsgAcked, P!settings, P!callerVars, P!clearUpVars,
         P!records, P!history, P!Goto, P!Return, Frame, Types, Readers, Verdicts,
         Sent, SentKnown
  <2> QED  BY <2>1, <2>2
<1>2. ASSUME UpdateDelivered(u) PROVE Known'
  <2>1. Types' /\ Readers'
    BY <1>2 DEF UpdateDelivered, Go, Types, Readers, Steps
  <2>2. Verdicts' /\ Sent'
    BY <1>2 DEF UpdateDelivered, Go, Frame, Types, Readers, Verdicts, Sent, SentKnown
  <2> QED  BY <2>1, <2>2
<1>3. ASSUME UpdateError(u) PROVE Known'
  <2>1. Types' /\ Readers'
    BY <1>3 DEF UpdateError, Go, Done, Types, Readers, Steps
  <2>2. Verdicts' /\ Sent'
    BY <1>3 DEF UpdateError, Go, Done, Frame, Types, Readers, Verdicts, Sent,
         SentKnown
  <2> QED  BY <2>1, <2>2
<1>4. ASSUME NotifyAcked(u) PROVE Known'
  <2>1. Types' /\ Readers'
    BY <1>4 DEF NotifyAcked, Go, Done, Msg, Route, Frame, Kinds, Frames, Types,
         Readers, Steps
  <2>2. Verdicts' /\ Sent'
    BY <1>4 DEF NotifyAcked, Go, Done, Msg, Route, Frame, Kinds, Frames, Types,
         Readers, Verdicts, Sent, SentKnown
  <2> QED  BY <2>1, <2>2
<1> QED
  BY <1>1, <1>2, <1>3, <1>4

\* clearUp and its callbacks.
LEMMA ClearUpInv ==
  ASSUME ServiceInv, ClearUpRun
  PROVE  Known'
<1> USE PenderFacts, MessagesAssumption
    DEF ServiceInv, Known, penderVars, serviceVars, Messages
<1>1. ASSUME P!ClearUpTick \/ P!ClearUpLock \/ P!ClearUpScan \/ P!ClearUpDelete
                \/ P!ClearUpDone,
             UNCHANGED serviceVars PROVE Known'
  <2>1. Types' /\ Readers'
    BY <1>1 DEF P!ClearUpTick, P!ClearUpLock, P!ClearUpScan, P!ClearUpDelete,
         P!ClearUpDone, P!settings, P!callerVars, P!clearUpVars, P!records, P!history,
         P!Goto, P!Return, Types, Readers, Steps
  <2>2. Verdicts' /\ Sent'
    BY <1>1 DEF P!ClearUpTick, P!ClearUpLock, P!ClearUpScan, P!ClearUpDelete,
         P!ClearUpDone, P!settings, P!callerVars, P!clearUpVars, P!records, P!history,
         P!Goto, P!Return, Frame, Types, Readers, Verdicts, Sent, SentKnown
  <2> QED  BY <2>1, <2>2
<1>2. ASSUME NEW i \in Ids, OnMsgFailed(i) PROVE Known'
  <2>1. Types' /\ Readers'
    <3>1. Types'
      <4>1. msgs \in [Ids -> Messages \union {NoMsg}] /\ inbox \in [Users -> SUBSET Frames]
        BY DEF Types
      <4>2. i \in rows /\ msgs[i] \in Messages
        BY <1>2 DEF OnMsgFailed, P!OnMsgFailed, Types
      <4>3. msgs' = [msgs EXCEPT ![i] = [msgs[i] EXCEPT !.type = "failed"]]
            /\ [msgs[i] EXCEPT !.type = "failed"] \in Messages
        BY <1>2, <4>2 DEF OnMsgFailed
      <4>4. msgs' \in [Ids -> Messages \union {NoMsg}] /\ \A j \in rows : msgs'[j] # NoMsg
        BY <4>1, <4>3 DEF Types
      <4>5. msgs[i].from \in Users /\ Frame("failed", i) \in Frames
        BY <4>2 DEF Frame, Frames, Kinds
      <4>6. inbox' \in [Users -> SUBSET Frames]
        BY <1>2, <4>1, <4>5 DEF OnMsgFailed, Route
      <4>7. pended' = pended /\ UNCHANGED <<at, cur, rows, delivered, online, faults>>
        BY <1>2 DEF OnMsgFailed, P!OnMsgFailed, P!settings, P!history
      <4> QED  BY <4>4, <4>6, <4>7 DEF Types
    <3>2. Readers'
      BY <1>2 DEF OnMsgFailed, P!OnMsgFailed, P!callerVars, Types, Readers
    <3> QED  BY <3>1, <3>2
  <2>2. /\ i \in pended /\ acked' = acked /\ now' = now /\ pended' = pended
        /\ failed' = [failed EXCEPT ![i] = @ + 1]
        /\ msgs' = [msgs EXCEPT ![i].type = "failed"]
        /\ Route(msgs[i].from, Frame("failed", i))
        /\ UNCHANGED <<at, cur, rows, delivered, faults>>
    BY <1>2 DEF OnMsgFailed, P!OnMsgFailed, P!settings, P!history
  <2>3. Verdicts'
    BY <2>2 DEF Route, Frame, Types, Verdicts
  <2>4. Sent'
    BY <2>2 DEF Route, Frame, Types, Readers, Sent, SentKnown
  <2> QED  BY <2>1, <2>3, <2>4
<1>3. ASSUME NEW i \in Ids, OnMsgRetry(i) PROVE Known'
  <2>1. Types' /\ Readers'
    BY <1>3 DEF OnMsgRetry, P!OnMsgRetry, Route, Frame, Kinds, Frames, P!settings,
         P!callerVars, P!clearUpVars, P!records, P!history, P!Goto, P!Return, Types,
         Readers, Steps
  <2>2. Verdicts' /\ Sent'
    BY <1>3 DEF OnMsgRetry, P!OnMsgRetry, Route, Frame, Kinds, Frames, P!settings,
         P!callerVars, P!clearUpVars, P!records, P!history, P!Goto, P!Return, Types,
         Readers, Verdicts, Sent, SentKnown
  <2> QED  BY <2>1, <2>2
<1> QED
  BY <1>1, <1>2, <1>3 DEF ClearUpRun

\* Time and the online keys.
LEMMA WorldInv ==
  ASSUME ServiceInv, Advance \/ OnlineChange
  PROVE  Known'
<1> USE PenderFacts, MessagesAssumption
    DEF ServiceInv, Known, penderVars, serviceVars, Messages
<1>1. ASSUME Advance PROVE Known'
  <2>1. Types' /\ Readers'
    BY <1>1 DEF Advance, P!Advance, P!settings, P!callerVars, P!clearUpVars,
         P!records, P!history, P!Goto, P!Return, Types, Readers, Steps
  <2>2. Verdicts' /\ Sent'
    BY <1>1 DEF Advance, P!Advance, P!settings, P!callerVars, P!clearUpVars,
         P!records, P!history, P!Goto, P!Return, Frame, Types, Readers, Verdicts,
         Sent, SentKnown
  <2> QED  BY <2>1, <2>2
<1>2. ASSUME OnlineChange PROVE Known'
  <2>1. Types' /\ Readers'
    BY <1>2 DEF OnlineChange, Types, Readers, Steps
  <2>2. Verdicts' /\ Sent'
    BY <1>2 DEF OnlineChange, Frame, Types, Readers, Verdicts, Sent, SentKnown
  <2> QED  BY <2>1, <2>2
<1> QED
  BY <1>1, <1>2

LEMMA KnownStep == ServiceInv /\ [Next]_vars => Known'
<1>1. ASSUME ServiceInv, UNCHANGED vars PROVE Known'
  BY <1>1 DEF vars, penderVars, serviceVars, ServiceInv, Known, Types, Readers, Verdicts,
              Sent, SentKnown
<1>2. ASSUME ServiceInv, NEW u \in Users, ReaderRun(u) PROVE Known'
  BY <1>2, SendInv, PenderCallInv, AckInv DEF ReaderRun
<1> QED
  BY <1>1, <1>2, ClientInv, ClearUpInv, WorldInv DEF Next, Server

----------------------------------------------------------------------------
(* Every step is one of the pender's or leaves it alone.                   *)

\* A message is pended with its own MsgId and SendAt, which is past by then.
LEMMA PendStep ==
  ASSUME ServiceInv, NEW u \in Users, RecipientOnline(u)
  PROVE  P!Next
<1> USE PenderFacts, MessagesAssumption DEF ServiceInv, Known
<1>1. cur[u] \in Ids /\ msgs[cur[u]] \in Messages
  BY DEF RecipientOnline, Types, Readers
<1>2. Msg(u).sendAt \in P!Stamps
  BY <1>1 DEF Msg, Messages, Verdicts, P!Stamps
<1> QED
  BY <1>1, <1>2 DEF RecipientOnline, P!Next

LEMMA PenderStep == ServiceInv /\ [Next]_vars => [P!Next]_P!vars
<1> SUFFICES ASSUME ServiceInv, [Next]_vars PROVE P!Next \/ UNCHANGED P!vars
  OBVIOUS
<1>1. UNCHANGED penderVars => UNCHANGED P!vars
  BY DEF penderVars, P!vars, P!records, P!settings, P!callerVars, P!clearUpVars, P!history
<1>2. ASSUME NEW u \in Users, ReaderRun(u) PROVE P!Next \/ UNCHANGED P!vars
  <2>1. CASE RecipientOnline(u)
    BY <2>1, PendStep
  <2>2. CASE \/ PendLock(u) \/ Pend(u) \/ UnPendLock(u) \/ UnPendFound(u)
             \/ UnPendNotFound(u) \/ UnPendDelete(u) \/ OnMsgAcked(u)
    BY <2>2 DEF PendLock, Pend, UnPendLock, UnPendFound, UnPendNotFound, UnPendDelete,
                OnMsgAcked, P!Next, P!CallerRun
  <2>3. CASE \/ Save(u) \/ SaveError(u) \/ ReplySent(u) \/ RouteMessage(u)
             \/ SendGroupMessage(u) \/ RecipientOffline(u)
             \/ UpdateDelivered(u) \/ UpdateError(u) \/ NotifyAcked(u)
    BY <1>1, <2>3 DEF Save, SaveError, ReplySent, RouteMessage, SendGroupMessage,
                RecipientOffline, UpdateDelivered, UpdateError,
                NotifyAcked
  <2> QED  BY <1>2, <2>1, <2>2, <2>3 DEF ReaderRun
<1>3. ASSUME NEW u \in Users, Client(u) PROVE P!Next \/ UNCHANGED P!vars
  BY <1>1, <1>3 DEF Client, SendMessage, SendAck, P!Next
<1>4. CASE ClearUpRun
  BY <1>4 DEF ClearUpRun, OnMsgFailed, OnMsgRetry, P!Next, P!ClearUpRun
<1>5. CASE Advance \/ OnlineChange
  BY <1>1, <1>5 DEF Advance, OnlineChange, P!Next
<1>6. CASE UNCHANGED vars
  BY <1>1, <1>6 DEF vars
<1> QED
  BY <1>2, <1>3, <1>4, <1>5, <1>6 DEF Next, Server

LEMMA InitInv == Init => ServiceInv
<1> SUFFICES ASSUME Init PROVE ServiceInv
  OBVIOUS
<1>1. PP!IndInv
  BY PenderAssumptions, PP!InitInv, SameInit DEF Init
<1>2. Known
  BY MessagesAssumption
  DEF Init, P!Init, Known, Types, Readers, Verdicts, Sent, Steps
<1> QED
  BY <1>1, <1>2 DEF ServiceInv

LEMMA StepInv == ServiceInv /\ [Next]_vars => ServiceInv'
<1>1. PP!IndInv /\ [PP!Next]_PP!vars => PP!IndInv'
  BY PenderAssumptions, PP!StepInv
<1> QED
  BY <1>1, KnownStep, PenderStep, SameNext DEF ServiceInv

THEOREM Inductive == Spec => []ServiceInv
  BY InitInv, StepInv, PTL DEF Spec

----------------------------------------------------------------------------
\* Every variable of the service and its pender keeps its type: the message,
\* row and frame that a step of SendMessage or of a callback needs are there.
THEOREM TypeCorrect == Spec => []TypeOK
<1>1. PP!TypeOK => P!TypeOK
  BY DEF PP!TypeOK, P!TypeOK, PP!Goroutines, P!Goroutines, PP!CallerSteps, P!CallerSteps,
         PP!ClearUpSteps, P!ClearUpSteps
<1>2. ServiceInv => TypeOK
  BY <1>1 DEF ServiceInv, PP!IndInv, Known, Types, Frames, TypeOK
<1> QED
  BY Inductive, <1>2, PTL

\* SendMessage, its callbacks and its goroutines use the pender as
\* MessagePender says: everything proved about the pender holds in the service.
THEOREM ServiceUsesPender == Spec => UsesPender
<1>1. Init => P!Init
  BY DEF Init
<1> QED
  BY Inductive, PenderStep, <1>1, PTL DEF Spec, UsesPender, P!Spec

\* What a client hears is in the table: the message itself before Sent or a
\* delivery (message.go:199-220), its delivery before the notice of the ACK
\* (message.go:164-175).
THEOREM StoredBeforeHeard == Spec => []HeardIsStored
<1>1. ServiceInv => HeardIsStored
  BY DEF ServiceInv, Known, Verdicts, HeardIsStored, Frame
<1> QED
  BY Inductive, <1>1, PTL

\* No message is reported both as delivered and as failed, however its ACK
\* races with clearUp: the pender's OneOutcome, carried to table and clients.
THEOREM VerdictUnique == Spec => []OneVerdict
<1>1. ASSUME ServiceInv PROVE OneVerdict
  <2> SUFFICES ASSUME NEW u \in Users, NEW i \in Ids, Frame("failed", i) \in inbox[u]
               PROVE  i \notin delivered /\ Frame("ack", i) \notin inbox[u]
    BY DEF OneVerdict
  <2>1. failed[i] > 0
    BY <1>1 DEF ServiceInv, Known, Verdicts, Frame
  <2>2. i \notin delivered
    BY <1>1, <2>1, PenderFacts DEF ServiceInv, Known, Verdicts
  <2> QED
    BY <1>1, <2>2 DEF ServiceInv, Known, Verdicts, Frame
<1> QED
  BY Inductive, <1>1, PTL

\* With no frame lost, a sender that has the verdict has the Sent that tells
\* it the MsgId (message.go:205-214).
THEOREM SentComesFirst == Spec => []SentBeforeVerdict
<1>1. ASSUME ServiceInv PROVE SentBeforeVerdict
  <2> SUFFICES ASSUME "router" \notin faults, NEW i \in Ids, NEW k \in {"ack", "failed"},
                      msgs[i] # NoMsg, Frame(k, i) \in inbox[msgs[i].from]
               PROVE  SentKnown(i)
    BY DEF SentBeforeVerdict, SentKnown
  <2>1. msgs[i].from \in Users
    BY <1>1 DEF ServiceInv, Known, Types, Messages
  <2>2. acked[i] > 0 \/ failed[i] > 0
    BY <1>1, <2>1 DEF ServiceInv, Known, Verdicts, Frame
  <2>3. i \in pended
    BY <1>1, <2>2, PenderFacts DEF ServiceInv
  <2> QED
    BY <1>1, <2>3 DEF ServiceInv, Known, Sent
<1> QED
  BY Inductive, <1>1, PTL

----------------------------------------------------------------------------
(* Who receives what.                                                      *)

\* What ReceivedStep needs of the invariant.
LEMMA ServiceFacts ==
  ASSUME ServiceInv
  PROVE  /\ msgs \in [Ids -> Messages \union {NoMsg}]
         /\ at \in [Users -> Steps] /\ cur \in [Users -> Ids \union {NoId}]
         /\ inbox \in [Users -> SUBSET Frames]
         /\ delivered \subseteq pended /\ pended \subseteq rows /\ rows \subseteq Ids
         /\ \A i \in rows : msgs[i] \in Messages
         /\ \A u \in Users : \A f \in inbox[u] : f.id \in rows
         /\ \A u \in Users :
              /\ at[u] # "read" => cur[u] \in Ids
              /\ at[u] \in {"sent", "group", "online", "pend", "route"} => cur[u] \in rows
              /\ at[u] \in {"update", "notify"} => cur[u] \in pended
              /\ pc[u] # "idle" => arg[u] = cur[u]
         /\ Room \notin Users
<1> USE PenderFacts, MessagesAssumption DEF ServiceInv, Known, Types
<1>1. delivered \subseteq pended
  BY DEF Verdicts
<1>2. \A u \in Users : at[u] \in {"update", "notify"} => cur[u] \in pended
  BY DEF Readers
<1> QED
  BY <1>1, <1>2 DEF Readers, Verdicts

\* A frame may only reach a user whom its message is for; everybody else's
\* inbox, and who the messages are for, stays as it is.
LEMMA RoutedRight ==
  ASSUME ServiceInv, Received, NEW u \in Users, NEW type \in Kinds, NEW i \in rows,
         type = "text" => u = msgs[i].to, Route(u, Frame(type, i)),
         \A j \in rows : msgs'[j].to = msgs[j].to,
         delivered' = delivered
  PROVE  DeliveredWasReceived' /\ \A v \in Users : inbox[v] \subseteq inbox'[v]
<1> USE ServiceFacts DEF Route, Frame, Frames
<1>1. \A v \in Users : inbox[v] \subseteq inbox'[v]
  OBVIOUS
<1>2. ASSUME NEW v \in Users, NEW j \in Ids, Frame("text", j) \in inbox'[v]
      PROVE  v = msgs'[j].to
  <2>1. CASE Frame("text", j) \in inbox[v]
    <3>1. j \in rows
      BY <2>1
    <3> QED  BY <2>1, <3>1 DEF Received, DeliveredWasReceived
  <2>2. CASE Frame("text", j) \notin inbox[v]
    BY <1>2, <2>2
  <2> QED  BY <2>1, <2>2
<1>3. ASSUME NEW j \in delivered PROVE Frame("text", j) \in inbox'[msgs'[j].to]
  <2>1. j \in rows /\ msgs[j].to # Room /\ msgs[j].to \in Users
    BY DEF Received, Messages
  <2> QED
    BY <1>1, <2>1 DEF Received, DeliveredWasReceived
<1> QED
  BY <1>1, <1>2, <1>3 DEF DeliveredWasReceived

LEMMA ReceivedRead ==
  ASSUME ServiceInv, Received, NEW u \in Users, ReaderRun(u)
  PROVE  Received'
<1> USE ServiceFacts DEF penderVars, serviceVars, Go, Done, Msg, Steps
<1>1. CASE Save(u) \/ SaveError(u) \/ SendGroupMessage(u) \/ RecipientOffline(u)
  BY <1>1 DEF Save, SaveError, SendGroupMessage, RecipientOffline, Received,
     DeliveredWasReceived
<1>2. CASE ReplySent(u)
  <2>1. cur[u] \in rows /\ msgs[cur[u]].from \in Users
    BY <1>2 DEF ReplySent, Messages
  <2>2. DeliveredWasReceived' /\ \A v \in Users : inbox[v] \subseteq inbox'[v]
    BY <1>2, <2>1, RoutedRight DEF ReplySent, Kinds
  <2> QED
    BY <1>2, <2>1, <2>2 DEF ReplySent, Received
<1>3. CASE RouteMessage(u)
  <2>1. cur[u] \in rows /\ msgs[cur[u]].to \in Users /\ msgs[cur[u]].type \in Kinds
    BY <1>3 DEF RouteMessage, Received, Messages, Kinds
  <2>2. DeliveredWasReceived' /\ \A v \in Users : inbox[v] \subseteq inbox'[v]
    BY <1>3, <2>1, RoutedRight DEF RouteMessage
  <2> QED
    BY <1>3, <2>1, <2>2 DEF RouteMessage, Received
<1>4. CASE RecipientOnline(u)
  BY <1>4 DEF RecipientOnline, P!CallPend, Received, DeliveredWasReceived
<1>5. CASE PendLock(u) \/ UnPendLock(u) \/ UnPendFound(u) \/ UnPendDelete(u)
  BY <1>5 DEF PendLock, UnPendLock, UnPendFound, UnPendDelete, P!PendLock, P!UnPendLock,
     P!UnPendFound, P!UnPendDelete, P!settings, Received, DeliveredWasReceived
<1>6. CASE Pend(u) \/ UnPendNotFound(u) \/ OnMsgAcked(u)
  BY <1>6 DEF Pend, UnPendNotFound, OnMsgAcked, P!Pend, P!UnPendNotFound, P!OnMsgAcked,
     P!settings, Received, DeliveredWasReceived
<1>7. CASE UpdateDelivered(u)
  <2>1. cur[u] \in pended /\ msgs[cur[u]].to # Room
    BY <1>7 DEF UpdateDelivered, Received
  <2>2. Frame("text", cur[u]) \in inbox[msgs[cur[u]].to]
    BY <1>7, <2>1 DEF UpdateDelivered, Received, DeliveredWasReceived
  <2> QED
    BY <1>7, <2>2 DEF UpdateDelivered, Received, DeliveredWasReceived
<1>8. CASE UpdateError(u)
  BY <1>8 DEF UpdateError, Received, DeliveredWasReceived
<1>9. CASE NotifyAcked(u)
  <2>1. cur[u] \in rows /\ msgs[cur[u]].from \in Users
    BY <1>9 DEF NotifyAcked, Messages
  <2>2. DeliveredWasReceived' /\ \A v \in Users : inbox[v] \subseteq inbox'[v]
    BY <1>9, <2>1, RoutedRight DEF NotifyAcked, Kinds
  <2> QED
    BY <1>9, <2>1, <2>2 DEF NotifyAcked, Received
<1> QED
  BY <1>1, <1>2, <1>3, <1>4, <1>5, <1>6, <1>7, <1>8, <1>9 DEF ReaderRun

LEMMA ReceivedStep == ServiceInv /\ Received /\ [Next]_vars => Received'
<1> SUFFICES ASSUME ServiceInv, Received, [Next]_vars PROVE Received'
  OBVIOUS
<1> USE ServiceFacts DEF penderVars, serviceVars, Go, Done, Msg, Steps
<1>1. ASSUME NEW u \in Users, NEW i \in Ids, NEW to \in Users \union {Room},
             SendMessage(u, i, to)
      PROVE  Received'
  <2>1. i \notin rows /\ \A j \in Ids \ {i} : msgs'[j] = msgs[j]
    BY <1>1, MessagesAssumption DEF SendMessage
  <2>2. \A v \in Users : Frame("text", i) \notin inbox[v]
    BY <2>1 DEF Frame
  <2>3. DeliveredWasReceived'
    BY <1>1, <2>1, <2>2 DEF SendMessage, Received, DeliveredWasReceived
  <2>4. \A v \in Users : at[v] \in {"group", "online", "pend", "route"} => cur[v] # i
    BY <2>1
  <2> QED
    BY <1>1, <2>1, <2>3, <2>4 DEF SendMessage, Received
<1>2. ASSUME NEW u \in Users, NEW i \in Ids, Frame("text", i) \in inbox[u], SendAck(u, i)
      PROVE  Received'
  BY <1>2 DEF SendAck, P!CallUnPend, P!settings, Received, DeliveredWasReceived
<1>3. ASSUME NEW i \in Ids, OnMsgFailed(i) PROVE Received'
  <2>1. i \in rows /\ msgs[i].from \in Users /\ "failed" \in Kinds
    BY <1>3, PenderFacts DEF OnMsgFailed, P!OnMsgFailed, ServiceInv, Messages, Kinds
  <2>2. \A j \in rows : msgs'[j].to = msgs[j].to
    BY <1>3 DEF OnMsgFailed, Messages
  <2>3. DeliveredWasReceived' /\ \A v \in Users : inbox[v] \subseteq inbox'[v]
    BY <1>3, <2>1, <2>2, RoutedRight DEF OnMsgFailed
  <2>4. UNCHANGED <<at, cur, pended>>
    BY <1>3 DEF OnMsgFailed, P!OnMsgFailed, P!settings
  <2> QED
    BY <2>2, <2>3, <2>4 DEF Received
<1>4. ASSUME NEW i \in Ids, OnMsgRetry(i) PROVE Received'
  <2>1. i \in pended
    BY <1>4, PenderFacts DEF OnMsgRetry, P!OnMsgRetry, ServiceInv
  <2>2. i \in rows /\ msgs[i].to \in Users /\ msgs[i].type \in Kinds
    BY <2>1 DEF Received, Messages, Kinds
  <2>3. DeliveredWasReceived' /\ \A v \in Users : inbox[v] \subseteq inbox'[v]
    BY <1>4, <2>2, RoutedRight DEF OnMsgRetry
  <2>4. UNCHANGED <<msgs, at, cur, pended>>
    BY <1>4 DEF OnMsgRetry, P!OnMsgRetry, P!settings
  <2> QED
    BY <2>3, <2>4 DEF Received
<1>5. CASE \/ Advance \/ OnlineChange \/ UNCHANGED vars
           \/ /\ P!ClearUpTick \/ P!ClearUpLock \/ P!ClearUpScan \/ P!ClearUpDelete \/ P!ClearUpDone
              /\ UNCHANGED serviceVars
  <2>1. UNCHANGED <<msgs, at, cur, pended, delivered, inbox>>
    BY <1>5 DEF Advance, P!Advance, OnlineChange, vars, P!ClearUpTick, P!ClearUpLock,
       P!ClearUpScan, P!ClearUpDelete, P!ClearUpDone, P!settings
  <2> QED
    BY <2>1 DEF Received, DeliveredWasReceived
<1> QED
  BY <1>1, <1>2, <1>3, <1>4, <1>5, ReceivedRead DEF Next, Server, Client, ClearUpRun

\* When clients acknowledge what they received, "delivered" in a row means that
\* its addressee's client has the message, and nobody has what is for others.
THEOREM DeliveredIsReceived == Spec => []DeliveredWasReceived
<1>1. Init => Received
  BY DEF Init, P!Init, Received, DeliveredWasReceived
<1>2. Received => DeliveredWasReceived
  BY DEF Received
<1> QED
  BY Inductive, ReceivedStep, <1>1, <1>2, PTL DEF Spec

----------------------------------------------------------------------------
(* Behind onMessage.  Its steps are the service's, but that an ACK reaches  *)
(* the pender with any MsgId.                                               *)

LEMMA WsStep ==
  ASSUME [WsNext]_wsVars
  PROVE  \/ [Next]_vars
         \/ \E u \in Users, i \in Ids : SendAck(u, i)
<1>1. ASSUME NEW u \in Users, NEW to \in Users \union {Room}, OnMessageText(u, to)
      PROVE  Next
  BY <1>1 DEF OnMessageText, Next, Client
<1>2. ASSUME NEW u \in Users, NEW i \in Ids, OnMessageAck(u, i)
      PROVE  \E j \in Ids : SendAck(u, j)
  BY <1>2 DEF OnMessageAck
<1> QED
  BY <1>1, <1>2 DEF WsNext, wsVars, Next

LEMMA WsServiceInv ==
  ASSUME ServiceInv, [WsNext]_wsVars
  PROVE  ServiceInv' /\ [P!Next]_P!vars
<1>1. CASE [Next]_vars
  BY <1>1, StepInv, PenderStep
<1>2. ASSUME NEW u \in Users, NEW i \in Ids, SendAck(u, i)
      PROVE  ServiceInv' /\ [P!Next]_P!vars
  <2>1. P!Next
    BY <1>2 DEF SendAck, P!Next
  <2>2. PP!IndInv'
    BY <2>1, SameNext, PenderAssumptions, PP!StepInv DEF ServiceInv
  <2> QED
    BY <1>2, <2>1, <2>2, SendAckInv DEF ServiceInv
<1> QED
  BY <1>1, <1>2, WsStep

\* What an ACK brings to the pender is nowhere in it.
LEMMA NotPended ==
  ASSUME ServiceInv, AckIsFresh, NEW u \in Users, at[u] = "unpend"
  PROVE  cur[u] \notin pended /\ cur[u] \notin msgList
BY DEF ServiceInv, Known, Types, AckIsFresh, PP!IndInv, PP!PlaceInv

\* The reader of an ACK never gets beyond the look-up.
LEMMA ReaderIsFresh ==
  ASSUME ServiceInv, AckIsFresh, NEW u \in Users, ReaderRun(u), UNCHANGED issued
  PROVE  AckIsFresh'
<1> USE PenderFacts DEF penderVars, serviceVars, AckIsFresh, PP!CallerSteps, Steps
<1>1. /\ at \in [Users -> Steps] /\ cur \in [Users -> Ids \union {NoId}]
      /\ \A v \in Users : pc[v] # "idle" => at[v] \in {"pend", "unpend"} /\ arg[v] = cur[v]
      /\ pc \in [Users -> PP!CallerSteps]
  BY DEF ServiceInv, Known, Types, Readers
<1>2. CASE \/ Save(u) \/ SaveError(u) \/ ReplySent(u) \/ RouteMessage(u)
           \/ SendGroupMessage(u) \/ RecipientOffline(u)
  BY <1>1, <1>2 DEF Save, SaveError, ReplySent, RouteMessage, SendGroupMessage,
     RecipientOffline, Go, Done
<1>3. CASE RecipientOnline(u)
  BY <1>1, <1>3 DEF RecipientOnline, P!CallPend, P!Goto, Go
<1>4. CASE PendLock(u) \/ Pend(u)
  BY <1>1, <1>4 DEF PendLock, Pend, P!PendLock, P!Pend, P!Goto, P!Return, Go
<1>5. CASE UnPendLock(u) \/ UnPendNotFound(u)
  BY <1>1, <1>5 DEF UnPendLock, UnPendNotFound, P!UnPendLock, P!UnPendNotFound, P!Goto,
     P!Return, Go, Done
<1>6. ~UnPendFound(u)
  BY <1>1, NotPended DEF UnPendFound, P!UnPendFound
<1>7. /\ ~UnPendDelete(u) /\ ~OnMsgAcked(u) /\ ~UpdateDelivered(u)
      /\ ~UpdateError(u) /\ ~NotifyAcked(u)
  BY DEF UnPendDelete, OnMsgAcked, UpdateDelivered, UpdateError, NotifyAcked,
     P!UnPendDelete, P!OnMsgAcked
<1> QED
  BY <1>2, <1>3, <1>4, <1>5, <1>6, <1>7 DEF ReaderRun

LEMMA FreshStep == ServiceInv /\ AckIsFresh /\ [WsNext]_wsVars => AckIsFresh'
<1> SUFFICES ASSUME ServiceInv, AckIsFresh, [WsNext]_wsVars PROVE AckIsFresh'
  OBVIOUS
<1> USE PenderFacts DEF penderVars, serviceVars
<1>1. /\ at \in [Users -> Steps] /\ cur \in [Users -> Ids \union {NoId}]
      /\ msgs \in [Ids -> Messages \union {NoMsg}] /\ pc \in [Users -> PP!CallerSteps]
  BY DEF ServiceInv, Known, Types
<1>2. ASSUME NEW u \in Users, NEW i \in Ids, NEW to \in Users \union {Room},
             Draw(i), SendMessage(u, i, to)
      PROVE  AckIsFresh'
  BY <1>1, <1>2 DEF Draw, SendMessage, Go, AckIsFresh
<1>3. ASSUME NEW u \in Users, NEW i \in Ids, Draw(i), SendAck(u, i) PROVE AckIsFresh'
  BY <1>1, <1>3 DEF Draw, SendAck, P!CallUnPend, P!Goto, Go, AckIsFresh
<1>4. ASSUME NEW i \in Ids, OnMsgFailed(i), UNCHANGED issued PROVE AckIsFresh'
  <2>1. i \in toFail /\ i \in pended /\ msgs[i] # NoMsg
    BY <1>4 DEF OnMsgFailed, P!OnMsgFailed, ServiceInv, Known, Types
  <2>2. UNCHANGED <<at, cur, pc, delivered>> /\ \A j \in Ids \ {i} : msgs'[j] = msgs[j]
    BY <1>1, <1>4 DEF OnMsgFailed, P!OnMsgFailed, P!callerVars
  <2>3. \A v \in Users : at[v] = "unpend" => cur[v] \in Ids \ {i}
    BY <1>1, <2>1 DEF AckIsFresh, ServiceInv, Known, Readers
  <2> QED
    BY <1>4, <2>1, <2>2, <2>3 DEF AckIsFresh
<1>5. CASE \/ Advance \/ OnlineChange \/ UNCHANGED vars
           \/ ClearUpRun /\ ~\E i \in Ids : OnMsgFailed(i)
  <2>1. UNCHANGED <<msgs, at, cur, pc, delivered>>
    BY <1>5 DEF Advance, P!Advance, OnlineChange, ClearUpRun, P!ClearUpTick, P!ClearUpLock,
       P!ClearUpScan, P!ClearUpDelete, P!ClearUpDone, OnMsgRetry, P!OnMsgRetry,
       P!callerVars, vars
  <2>2. issued \subseteq issued'
    BY DEF WsNext, wsVars, OnMessageText, OnMessageAck, Draw
  <2> QED
    BY <2>1, <2>2 DEF AckIsFresh
<1> QED
  BY <1>2, <1>3, <1>4, <1>5, ReaderIsFresh
  DEF WsNext, wsVars, OnMessageText, OnMessageAck, Server

WsInv == ServiceInv /\ AckIsFresh

LEMMA WsInitInv == WsInit => WsInv
<1>1. Init => AckIsFresh
  BY DEF Init, P!Init, AckIsFresh
<1> QED
  BY <1>1, InitInv DEF WsInit, WsInv

LEMMA WsStepInv == WsInv /\ [WsNext]_wsVars => WsInv'
  BY WsServiceInv, FreshStep DEF WsInv

\* Behind onMessage the invariant of the service still holds, and the MsgId that
\* an ACK is handled under is no message's (ws_server.go:120).
THEOREM WsInductive == WsSpec => []WsInv
  BY WsInitInv, WsStepInv, PTL DEF WsSpec

\* The server's readers use the pender as MessagePender says.
THEOREM WsUsesPender == WsSpec => UsesPender
<1>1. WsInit => P!Init
  BY DEF WsInit, Init
<1>2. WsInv /\ [WsNext]_wsVars => [P!Next]_P!vars
  BY WsServiceInv DEF WsInv
<1> QED
  BY WsInductive, <1>1, <1>2, PTL DEF WsSpec, UsesPender, P!Spec

\* What the overwritten MsgId of ws_server.go:120 comes to: for any users and
\* messages, and with no fault at all, no row is ever marked delivered and no
\* sender is ever told that its message was received.
THEOREM NoAckDelivers == WsSpec => []NothingDelivered
<1>1. WsInv => NothingDelivered
  BY DEF WsInv, ServiceInv, Known, Verdicts, AckIsFresh, NothingDelivered, Frame
<1> QED
  BY WsInductive, <1>1, PTL

\* Every ACK frame whose UnPend returns leaves the mutex locked behind it
\* (message.go:111); from the first one on the table of pending messages stays
\* as it is.
THEOREM AcksLoseMutex == WsSpec => AckLosesMutex
<1>1. ASSUME WsInv, [WsNext]_wsVars, NEW u \in Users, at[u] = "unpend", at'[u] # "unpend"
      PROVE  P!Leaked'
  <2> USE <1>1 DEF WsInv, ServiceInv, Known, Types
  <2>1. UnPendNotFound(u)
    <3>1. ASSUME NEW v \in Users, ReaderRun(v) PROVE v = u
      BY <3>1 DEF ReaderRun, Save, SaveError, ReplySent, RouteMessage, SendGroupMessage,
         RecipientOffline, RecipientOnline, PendLock, Pend,
         UnPendLock, UnPendFound, UnPendNotFound, UnPendDelete, OnMsgAcked,
         UpdateDelivered, UpdateError, NotifyAcked, Go, Done, serviceVars
    <3>2. ASSUME NEW v \in Users, NEW i \in Ids,
                 SendAck(v, i) \/ \E to \in Users \union {Room} : SendMessage(v, i, to)
          PROVE  FALSE
      BY <3>2 DEF SendAck, SendMessage, Go
    <3>3. ~(Advance \/ OnlineChange \/ ClearUpRun \/ UNCHANGED vars)
      BY DEF Advance, OnlineChange, ClearUpRun, OnMsgFailed, OnMsgRetry, serviceVars, vars
    <3>4. ReaderRun(u)
      BY <3>1, <3>2, <3>3 DEF WsNext, wsVars, OnMessageText, OnMessageAck, Server
    <3> QED
      BY <3>4 DEF ReaderRun, Save, SaveError, ReplySent, RouteMessage, SendGroupMessage,
         RecipientOffline, RecipientOnline, PendLock, Pend,
         UnPendLock, UnPendFound, UnPendDelete, OnMsgAcked, P!OnMsgAcked,
         UpdateDelivered, UpdateError, NotifyAcked, AckIsFresh, serviceVars
  <2>2. mx = u
    BY <1>1, <2>1 DEF UnPendNotFound, P!UnPendNotFound, WsInv, ServiceInv, PP!IndInv,
       PP!MutexInv
  <2> QED
    BY <1>1, <2>1, <2>2, PenderFacts, CallersAssumption
    DEF UnPendNotFound, P!UnPendNotFound, P!Return, P!Goto, P!Leaked, P!InCriticalSection,
        WsInv, ServiceInv
<1>2. ASSUME WsInv, [WsNext]_wsVars, P!Leaked
      PROVE  P!Leaked' /\ msgList' = msgList
  <2>1. PP!IndInv /\ [PP!Next]_PP!vars
    BY <1>2, WsServiceInv, SameNext DEF WsInv, ServiceInv
  <2>2. PP!IndInv /\ [PP!Next]_PP!vars /\ PP!Leaked => PP!Leaked' /\ msgList' = msgList
    BY PenderAssumptions, PP!LeakStep
  <2> QED
    BY <1>2, <2>1, <2>2
    DEF P!Leaked, PP!Leaked, P!InCriticalSection, PP!InCriticalSection
<1>3. WsInv /\ [WsNext]_wsVars
      => [/\ \A u \in Users : at[u] = "unpend" /\ at'[u] # "unpend" => P!Leaked'
          /\ P!Leaked => P!Leaked' /\ msgList' = msgList]_wsVars
  BY <1>1, <1>2
<1> QED
  BY WsInductive, <1>3, PTL DEF WsSpec, AckLosesMutex

\* The server keeps the pender's promise of MessageOutcome, whatever frames come
\* in: what the service, the WebSocket and the faults add is invisible in it.
THEOREM ServerImplementsOutcome == WsSpec => PP!ImplementsOutcome
<1>1. PP!Spec => PP!ImplementsOutcome
  BY PenderAssumptions, PP!Implements
<1>2. WsInit => PP!Init
  BY SameInit DEF WsInit, Init
<1>3. WsInv /\ [WsNext]_wsVars => [PP!Next]_PP!vars
  BY WsServiceInv, SameNext DEF WsInv
<1> QED
  BY WsInductive, <1>1, <1>2, <1>3, PTL DEF WsSpec, PP!Spec
=============================================================================
