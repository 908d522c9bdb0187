------------------------------ MODULE Delivery ------------------------------
(***************************************************************************)
(* A direct message, from SendMessage (service/message.go) on one instance *)
(* to a connection of its addressee on another: the message service and    *)
(* its pender composed with the gateway.  Of the pender there is what it   *)
(* promises of one message (MessageOutcome), without clock; each time a    *)
(* message is routed a message of Gateway, called a frame, is published.   *)
(*                                                                         *)
(* Every instance has its own pender.  It may stop at any step, and its    *)
(* connections and its pending messages with it.                           *)
(***************************************************************************)
EXTENDS Gateway

CONSTANTS
  Ids,           \* messages
  MaxRetry       \* how often one is routed again

ASSUME DeliveryAssumption == MaxRetry \in Nat /\ Msgs = Ids \X (0 .. MaxRetry)

VARIABLES
  stage,        \* how far each message is, on the sender's instance
  home, to,     \* that instance; the addressee
  resends,      \* how often it was routed again
  locked        \* instances whose pender's mutex is never released

sending == <<stage, home, to, resends, locked>>
allVars == <<vars, sending>>

InFlight == {"saved", "online", "pending", "routed"}
Finished == {"failed", "skipped", "lost"}

DeliveryInit ==
  /\ Init
  /\ stage = [i \in Ids |-> "new"]
  /\ home = [i \in Ids |-> None] /\ to = [i \in Ids |-> None]
  /\ resends = [i \in Ids |-> 0]
  /\ locked = {}

Step(i, from, next) == stage[i] = from /\ stage' = [stage EXCEPT ![i] = next]
Shown(i, k) == \E n \in 0 .. MaxRetry : pushed[<<i, n>>][k] > 0

----------------------------------------------------------------------------
(* SendMessage.                                                            *)

\* The message is saved and the sender told so; neither fails here.
SendMessage(i, h, u) ==
  /\ setting.sends /\ Step(i, "new", "saved")
  /\ home' = [home EXCEPT ![i] = h] /\ to' = [to EXCEPT ![i] = u]
  /\ UNCHANGED <<vars, resends, locked>>

\* Mutant: offline is who has no connection on the sender's instance.
RecipientNotHere(i) ==
  /\ Step(i, "saved", "skipped")
  /\ conns[home[i]][to[i]] = None
  /\ UNCHANGED <<vars, home, to, resends, locked>>

\* GetOnlineStatus takes an error for an absent key.
RecipientOffline(i) ==
  /\ Step(i, "saved", "skipped")
  /\ to[i] \notin online \/ "keys" \in setting.faults
  /\ UNCHANGED <<vars, home, to, resends, locked>>

RecipientOnline(i) ==
  /\ Step(i, "saved", "online")
  /\ to[i] \in online
  /\ UNCHANGED <<vars, home, to, resends, locked>>

Pend(i) ==
  /\ Step(i, "online", "pending") /\ home[i] \notin locked
  /\ UNCHANGED <<vars, home, to, resends, locked>>

\* Mutant: redis keeps a frame for connections that have not subscribed yet.
PublishKept(f, u) ==
  /\ toId[f] = None /\ toId' = [toId EXCEPT ![f] = u]
  /\ channel' = [k \in Conns |-> IF userOf[k] = u THEN channel[k] \union {f} ELSE channel[k]]
  /\ UNCHANGED <<identity, handler, closer, closedBy, reader, conns, online, subMap, sub, pushed>>

\* A publish that fails is one nobody hears of.
Publish(f, u) == Route(f, u) \/ ("channels" \in setting.faults /\ UNCHANGED vars)

RouteMessage(i) ==
  /\ Step(i, "pending", "routed")
  /\ Publish(<<i, 0>>, to[i])
  /\ UNCHANGED <<home, to, resends, locked>>

----------------------------------------------------------------------------
(* clearUp.  That it finds the message before SendMessage has routed it is *)
(* in MessageService.                                                      *)

\* Mutant: the retry goes to the connections of the own instance.
RetryHere(i) ==
  /\ stage[i] = "routed" /\ home[i] \notin locked /\ resends[i] < MaxRetry
  /\ resends' = [resends EXCEPT ![i] = @ + 1]
  /\ UNCHANGED <<vars, stage, home, to, locked>>

Retry(i) ==
  /\ stage[i] = "routed" /\ home[i] \notin locked /\ resends[i] < MaxRetry
  /\ resends' = [resends EXCEPT ![i] = @ + 1]
  /\ Publish(<<i, resends[i] + 1>>, to[i])
  /\ UNCHANGED <<stage, home, to, locked>>

\* Mutant: who is offline has nothing to fail.
GiveUpOnline(i) ==
  /\ Step(i, "routed", "failed") /\ home[i] \notin locked
  /\ to[i] \in online
  /\ UNCHANGED <<vars, home, to, resends, locked>>

\* The sender is told that the message failed: after the last retry, or
\* earlier when it has expired.
GiveUp(i) ==
  /\ Step(i, "routed", "failed") /\ home[i] \notin locked
  /\ UNCHANGED <<vars, home, to, resends, locked>>

----------------------------------------------------------------------------
(* The addressee, and the instances.                                       *)

\* An ACK ends in the pender of the instance it arrives at, with an id drawn
\* for the ACK itself (WsServer): UnPend does not find it, and keeps the
\* mutex.
ClientAck(i, k) ==
  /\ Shown(i, k) /\ Reads(k) /\ reader[k] = "reading" /\ instOf[k] \notin locked
  /\ locked' = locked \union {instOf[k]}
  /\ UNCHANGED <<vars, stage, home, to, resends>>

\* A further ACK there, or a message that is to be pended, leaves its reader
\* waiting for the mutex.
ReaderBlocks(k) == instOf[k] \in locked /\ Block(k)

\* Of the messages in flight nothing is kept but their rows.
Restart(h) ==
  LET mine == {i \in Ids : home[i] = h /\ stage[i] \in InFlight} IN
  /\ mine # {} \/ h \in locked \/ ~Idle(h)
  /\ Stop(h)
  /\ stage' = [i \in Ids |-> IF i \in mine THEN "lost" ELSE stage[i]]
  /\ locked' = locked \ {h}
  /\ UNCHANGED <<home, to, resends>>

----------------------------------------------------------------------------
SendRun(i) == \/ RecipientOffline(i) \/ RecipientOnline(i) \/ Pend(i) \/ RouteMessage(i)
ClearUp(i) == Retry(i) \/ GiveUp(i)

\* What Gateway does beside messages, and the goroutines of subscriptions.
\* Connections are closed by their readers, or, when these are stuck, by their
\* writers.
Connections ==
  \/ \E k \in Conns :
       \/ \E u \in Users, i \in Instances : Accept(k, u, i)
       \/ Close(k, "reader") \/ (reader[k] = "stuck" /\ Close(k, "other"))
       \/ HandlerRun(k) \/ CloserRun(k) \/ ReaderRun(k) \/ ReaderBlocks(k)
       \/ ReceiveError(k) \/ \E f \in Msgs : Receive(k, f)
  \/ \E u \in Users : Expire(u)

DeliveryNext ==
  \/ Connections /\ UNCHANGED sending
  \/ \E i \in Ids :
       \/ \E h \in Instances, u \in Users : SendMessage(i, h, u)
       \/ SendRun(i) \/ ClearUp(i)
       \/ \E k \in Conns : ClientAck(i, k)
  \/ \E h \in Instances : Restart(h)

DeliverySpec == DeliveryInit /\ [][DeliveryNext]_allVars

\* SendMessage goes on, and clearUp runs every five seconds.
DeliveryFairness ==
  \A i \in Ids : WF_allVars(SendRun(i)) /\ WF_allVars(ClearUp(i))
FairDeliverySpec == DeliverySpec /\ Fairness /\ DeliveryFairness

----------------------------------------------------------------------------
DeliveryTypeOK ==
  /\ TypeOK
  /\ stage \in [Ids -> {"new"} \union InFlight \union Finished]
  /\ home \in [Ids -> Instances \union {None}]
  /\ to \in [Ids -> Users \union {None}]
  /\ resends \in [Ids -> 0 .. MaxRetry]
  /\ locked \subseteq Instances

\* The whole is a gateway: messages and restarts do to connections, key,
\* maps and subscriptions nothing that Gateway does not do.
UsesGateway == Spec

\* A message is not skipped while its addressee has an established connection
\* on any instance whose reader is not stuck, whichever connections and
\* instances came and went before (message.go:229-233).
SkipsNobody ==
  [][\A i \in Ids :
       Undisturbed /\ stage[i] # "skipped" /\ stage'[i] = "skipped" =>
         \A k \in Conns : userOf[k] = to[i] => ~Attended(k)]_allVars

\* A connection is shown a message as often as it was routed at most, each
\* frame once, and nothing of one that was skipped or not yet routed: neither
\* a connection that moved between instances, nor the subscription that an
\* instance left behind, multiplies it.
ShownAtMost ==
  Undisturbed =>
    \A i \in Ids, n \in 0 .. MaxRetry, k \in Conns :
      pushed[<<i, n>>][k] <=
        IF n <= resends[i] /\ stage[i] \in {"routed", "failed", "lost"} THEN 1 ELSE 0

\* The message will be routed once more at least.
ToCome(i) == \/ stage[i] \in {"saved", "online", "pending"}
             \/ stage[i] = "routed" /\ resends[i] < MaxRetry

\* A message is shown to the connection that is established before it was
\* routed the last time, unless that connection ends: a first frame that fell
\* between the online key and the subscription (ws_server.go:78-82), or went to
\* an instance that had stopped, is made up for by the retries.  What can
\* prevent it is a stop of the sender's instance, its mutex lost, a clearUp that
\* comes so late that the message expires before its last retry, and a reader of
\* the connection that is stuck, behind which the key expires.
Reaches ==
  setting = [orderly |-> TRUE, sends |-> TRUE, faults |-> {}] =>
    \A i \in Ids, k \in Conns :
      (ToCome(i) /\ userOf[k] = to[i] /\ Established(k)) ~>
        \/ Shown(i, k) \/ closer[k] # "open" \/ reader[k] = "stuck"
        \/ stage[i] = "lost" \/ home[i] \in locked
        \/ stage[i] = "failed" /\ resends[i] < MaxRetry

\* Nothing that was saved is forgotten, whatever stops and whatever redis
\* loses: the addressee is shown it, or it was skipped because he seemed
\* offline, or the sender is told that it failed; but for the messages whose
\* own instance stopped, and those of a pender whose mutex an ACK has taken.
Accounted ==
  \A i \in Ids :
    stage[i] = "saved" ~>
      \/ \E k \in Conns : userOf[k] = to[i] /\ Shown(i, k)
      \/ stage[i] \in Finished
      \/ home[i] \in locked

----------------------------------------------------------------------------
(* The whole implements Mailbox: what is published is what has an          *)
(* addressee in the gateway, and what becomes of a message is its stage.   *)

Fate(i) == IF stage[i] \in InFlight THEN "sending" ELSE stage[i]
Present == {u \in Users : \E k \in Conns : Attended(k) /\ userOf[k] = u}

Box == INSTANCE Mailbox WITH
         exact <- Undisturbed, owner <- userOf, present <- Present,
         status <- [i \in Ids |-> Fate(i)],
         published <- {f \in Msgs : toId[f] # None}, shown <- pushed

\* Seen from its users, the composition of pender, service, router, maps and
\* keys over several instances that may stop is a mailbox: every step of a
\* goroutine is one of Mailbox or changes nothing it sees.
ImplementsMailbox == Box!Spec

----------------------------------------------------------------------------
\* No frame is published before its turn, or to anybody but the addressee.
Turns ==
  \A i \in Ids :
    /\ stage[i] # "new" => to[i] \in Users
    /\ stage[i] \in {"new", "saved", "online", "pending"} => resends[i] = 0
    /\ \A n \in 0 .. MaxRetry : toId[<<i, n>>] # None =>
         /\ n <= resends[i] /\ stage[i] \in {"routed", "failed", "lost"}
         /\ toId[<<i, n>>] = to[i]

DeliveryInv == DeliveryTypeOK /\ IndInv /\ Turns
=============================================================================
