------------------------------ MODULE Gateway ------------------------------
(***************************************************************************)
(* The life of WebSocket connections: handleWs (gateway/ws/ws_server.go),  *)
(* WsConn (gateway/ws/ws_conn.go), ConnManager (gateway/conn_manager.go)   *)
(* and RedisMsgRouter (service/router/redis_router.go), on one or several  *)
(* instances of the server that share redis.                               *)
(*                                                                         *)
(* Three goroutines work on a connection: the handler, which registers it, *)
(* starts its reader and writer and then runs onConnect; the reader, which *)
(* handles pongs and messages one after the other; and the first one to    *)
(* call Close, which runs onClose.  A subscription is named by the         *)
(* connection whose onConnect made it.                                     *)
(***************************************************************************)
EXTENDS Naturals, FiniteSets

CONSTANTS
  Users, Instances,
  Conns,        \* connections that may be made
  Msgs,         \* messages that may be published
  None,         \* no connection, no user, no instance
  Group,        \* the addressee of a group message: its ToId is empty
  Settings      \* what clients do and what fails, in the behaviours looked at

\* orderly: clients connect one at a time and stay until onConnect is over;
\* sends: messages are published; faults: redis returns errors to commands on
\* keys, or on channels, or write buffers are full.
ASSUME SettingsAssumption ==
  Settings \subseteq [orderly : BOOLEAN, sends : BOOLEAN,
                      faults : SUBSET {"keys", "channels", "full"}]
ASSUME NamesAssumption ==
  /\ None \notin Users /\ None \notin Conns /\ None \notin Instances
  /\ Group \notin Users /\ Group # None

VARIABLES
  setting,      \* the one of this behaviour
  userOf, instOf,   \* whose connection, and where
  handler,      \* progress of handleWs
  closer,       \* progress of Close
  closedBy,     \* who runs it: the connection's reader, or another goroutine
  reader,       \* what the reader does: it reads, is in onPong, or is stuck
  conns,        \* ConnManager.conns of each instance
  online,       \* users whose online key exists in redis
  subMap,       \* RedisMsgRouter.userChannlsMap of each instance
  sub,          \* what has become of the subscription each connection made
  toId,         \* addressee of each published message, or None
  channel,      \* messages each subscription has still to receive
  pushed        \* how often each message was pushed to each connection

identity == <<setting, userOf, instOf>>
messages == <<toId, channel, pushed>>
vars == <<identity, handler, closer, closedBy, reader, conns, online, subMap, sub, messages>>

HandlerSteps == {"none", "accepted", "added", "started", "online", "done"}
SubscriptionStates == {"none", "live", "ended", "shut"}
CloserSteps == {"open", "closing", "removed", "offline", "unsubscribed", "closed"}

Init ==
  /\ setting \in Settings
  /\ userOf = [k \in Conns |-> None] /\ instOf = [k \in Conns |-> None]
  /\ handler = [k \in Conns |-> "none"]
  /\ closer = [k \in Conns |-> "open"]
  /\ closedBy = [k \in Conns |-> "nobody"]
  /\ reader = [k \in Conns |-> "reading"]
  /\ conns = [i \in Instances |-> [u \in Users |-> None]]
  /\ online = {}
  /\ subMap = [i \in Instances |-> [u \in Users |-> None]]
  /\ sub = [k \in Conns |-> "none"]
  /\ toId = [m \in Msgs |-> None]
  /\ channel = [k \in Conns |-> {}]
  /\ pushed = [m \in Msgs |-> [k \in Conns |-> 0]]

Handle(k, from, to) == handler[k] = from /\ handler' = [handler EXCEPT ![k] = to]
CloseStep(k, from, to) == closer[k] = from /\ closer' = [closer EXCEPT ![k] = to]

Running(k) == handler[k] \in {"started", "online", "done"}
Established(k) == handler[k] = "done" /\ closer[k] = "open"
Gone(k) == handler[k] \in {"none", "done"} /\ (handler[k] = "done" => closer[k] = "closed")

----------------------------------------------------------------------------
(* handleWs and Start.                                                     *)

Accept(k, u, i) ==
  /\ Handle(k, "none", "accepted")
  /\ setting.orderly => \A o \in Conns : userOf[o] = u => Gone(o)
  /\ userOf' = [userOf EXCEPT ![k] = u]
  /\ instOf' = [instOf EXCEPT ![k] = i]
  /\ UNCHANGED setting
  /\ UNCHANGED <<closer, closedBy, reader, conns, online, subMap, sub, messages>>

\* Mutant: the connection is not registered.
AddConnForgotten(k) ==
  /\ Handle(k, "accepted", "added")
  /\ UNCHANGED <<identity, closer, closedBy, reader, conns, online, subMap, sub, messages>>

\* The map holds one connection per user: an older one is overwritten.
AddConn(k) ==
  /\ Handle(k, "accepted", "added")
  /\ conns' = [conns EXCEPT ![instOf[k]][userOf[k]] = k]
  /\ UNCHANGED <<identity, closer, closedBy, reader, online, subMap, sub, messages>>

\* The goroutines of Read and Write are started before onConnect runs.
Start(k) ==
  /\ Handle(k, "added", "started")
  /\ UNCHANGED <<identity, closer, closedBy, reader, conns, online, subMap, sub, messages>>

\* SetOnlineStatus(id, true), whose error nobody looks at.
ConnectOnline(k) ==
  /\ Handle(k, "started", "online")
  /\ \/ online' = online \union {userOf[k]}
     \/ "keys" \in setting.faults /\ UNCHANGED online
  /\ UNCHANGED <<identity, closer, closedBy, reader, conns, subMap, sub, messages>>

Subscribe(k) ==
  /\ Handle(k, "online", "done")
  /\ sub' = [sub EXCEPT ![k] = "live"]
  /\ subMap' = [subMap EXCEPT ![instOf[k]][userOf[k]] = k]
  /\ UNCHANGED <<identity, closer, closedBy, reader, conns, online, messages>>

----------------------------------------------------------------------------
(* Close.  The reader calls it when ReadMessage fails, the writer when a   *)
(* write fails, Clean when the user logs out; closeOnce lets one through.  *)

Close(k, who) ==
  /\ who = "reader" => Running(k) /\ reader[k] = "reading"
  /\ who = "other" => Running(k) \/ handler[k] = "added"
  /\ setting.orderly => handler[k] = "done"
  /\ CloseStep(k, "open", "closing")
  /\ closedBy' = [closedBy EXCEPT ![k] = who]
  /\ UNCHANGED <<identity, handler, reader, conns, online, subMap, sub, messages>>

\* Mutant: the connection stays in the map.
RemoveConnForgotten(k) ==
  /\ CloseStep(k, "closing", "removed")
  /\ UNCHANGED <<identity, handler, closedBy, reader, conns, online, subMap, sub, messages>>

\* RemoveConn goes by the user, whatever connection the map holds.
RemoveConn(k) ==
  /\ CloseStep(k, "closing", "removed")
  /\ conns' = [conns EXCEPT ![instOf[k]][userOf[k]] = None]
  /\ UNCHANGED <<identity, handler, closedBy, reader, online, subMap, sub, messages>>

CloseOffline(k) ==
  /\ CloseStep(k, "removed", "offline")
  /\ online' = online \ {userOf[k]}
  /\ UNCHANGED <<identity, handler, closedBy, reader, conns, subMap, sub, messages>>

\* SetOnlineStatus(id, false) fails: onClose returns there.
CloseOfflineError(k) ==
  /\ "keys" \in setting.faults
  /\ CloseStep(k, "removed", "unsubscribed")
  /\ UNCHANGED <<identity, handler, closedBy, reader, conns, online, subMap, sub, messages>>

\* Mutant: the subscription is not closed.
UnsubscribeNoClose(k) ==
  /\ CloseStep(k, "offline", "unsubscribed")
  /\ subMap' = [subMap EXCEPT ![instOf[k]][userOf[k]] = None]
  /\ UNCHANGED <<identity, handler, closedBy, reader, conns, online, sub, messages>>

Held(k) == subMap[instOf[k]][userOf[k]]

\* The goroutine of subscription s returns, and what waits at it is lost.
EndSubscription(s, how) ==
  /\ sub' = [k \in Conns |-> IF k = s THEN how ELSE sub[k]]
  /\ channel' = [k \in Conns |-> IF k = s THEN {} ELSE channel[k]]

\* Unsubscribe closes the subscription the map holds for the user, if any.
Unsubscribe(k) ==
  /\ CloseStep(k, "offline", "unsubscribed")
  /\ Held(k) # None => sub[Held(k)] # "shut"
  /\ EndSubscription(Held(k), "none")
  /\ subMap' = [subMap EXCEPT ![instOf[k]][userOf[k]] = None]
  /\ UNCHANGED <<identity, handler, closedBy, reader, conns, online, toId, pushed>>

\* PubSub.Close fails, or has been called before: it ends the subscription all
\* the same, but the map keeps its entry.
UnsubscribeError(k) ==
  /\ CloseStep(k, "offline", "unsubscribed")
  /\ Held(k) # None
  /\ "channels" \in setting.faults \/ sub[Held(k)] = "shut"
  /\ EndSubscription(Held(k), "shut")
  /\ UNCHANGED <<identity, handler, closedBy, reader, conns, online, subMap, toId, pushed>>

\* ReceiveMessage returns an error: the goroutine of the subscription ends, its
\* entry stays in the map.
ReceiveError(s) ==
  /\ "channels" \in setting.faults /\ sub[s] = "live"
  /\ EndSubscription(s, "ended")
  /\ UNCHANGED <<identity, handler, closer, closedBy, reader, conns, online, subMap,
                 toId, pushed>>

CloseSocket(k) ==
  /\ CloseStep(k, "unsubscribed", "closed")
  /\ UNCHANGED <<identity, handler, closedBy, reader, conns, online, subMap, sub, messages>>

----------------------------------------------------------------------------
(* The process of an instance ends.                                        *)

\* Both maps and the goroutines are gone, redis drops the subscriptions, no
\* onClose runs: the online keys stay until they expire.
Stop(i) ==
  LET lost == {k \in Conns : instOf[k] = i} IN
  /\ handler' = [k \in Conns |-> IF k \in lost THEN "done" ELSE handler[k]]
  /\ closer' = [k \in Conns |-> IF k \in lost THEN "closed" ELSE closer[k]]
  /\ reader' = [k \in Conns |-> IF k \in lost THEN "reading" ELSE reader[k]]
  /\ conns' = [conns EXCEPT ![i] = [u \in Users |-> None]]
  /\ subMap' = [subMap EXCEPT ![i] = [u \in Users |-> None]]
  /\ sub' = [k \in Conns |-> IF k \in lost THEN "none" ELSE sub[k]]
  /\ channel' = [k \in Conns |-> IF k \in lost THEN {} ELSE channel[k]]
  /\ UNCHANGED <<identity, closedBy, online, toId, pushed>>

Idle(i) ==
  \A k \in Conns : instOf[k] = i => Gone(k) /\ sub[k] = "none" /\ reader[k] = "reading"

Crash(i) == ~Idle(i) /\ Stop(i)

----------------------------------------------------------------------------
(* The reader, and the online key that it keeps.                           *)

\* The reader is there until it is itself the one that closes, or the socket is
\* closed under it.
Reads(k) == /\ Running(k) /\ closer[k] # "closed"
            /\ closer[k] = "open" \/ closedBy[k] = "other"

\* ReadMessage hands a pong to onPong, in the same goroutine.
PongRead(k) ==
  /\ Reads(k) /\ reader[k] = "reading"
  /\ reader' = [reader EXCEPT ![k] = "ponging"]
  /\ UNCHANGED <<identity, handler, closer, closedBy, conns, online, subMap, sub, messages>>

PongDone(k) == reader[k] = "ponging" /\ reader' = [reader EXCEPT ![k] = "reading"]

\* Mutant: the pong only extends the read deadline.
PongNoRefresh(k) ==
  /\ PongDone(k)
  /\ UNCHANGED <<identity, handler, closer, closedBy, conns, online, subMap, sub, messages>>

\* Close waits for no reader: the key may be set after onClose has deleted it.
PongSet(k) ==
  /\ PongDone(k)
  /\ online' = online \union {userOf[k]}
  /\ UNCHANGED <<identity, handler, closer, closedBy, conns, subMap, sub, messages>>

\* SET fails: it is logged, and the read deadline extended as ever.
PongError(k) ==
  /\ "keys" \in setting.faults
  /\ PongDone(k)
  /\ UNCHANGED <<identity, handler, closer, closedBy, conns, online, subMap, sub, messages>>

\* A message read by this reader comes to Pend or UnPend when the pender's
\* mutex is lost: onMessage never returns, and no pong is handled any more.
Block(k) ==
  /\ Reads(k) /\ reader[k] = "reading"
  /\ reader' = [reader EXCEPT ![k] = "stuck"]
  /\ UNCHANGED <<identity, handler, closer, closedBy, conns, online, subMap, sub, messages>>

\* Mutant: the key is set without a time to live.
ExpireNever(u) == UNCHANGED vars

\* The key lives 60 s, and a client is pinged every 54 s: it expires when no
\* reader of the user handles pongs, or when setting it fails.
Expire(u) ==
  /\ \/ \A k \in Conns : userOf[k] = u /\ Reads(k) => reader[k] = "stuck"
     \/ "keys" \in setting.faults
  /\ online' = online \ {u}
  /\ UNCHANGED <<identity, handler, closer, closedBy, reader, conns, subMap, sub, messages>>

----------------------------------------------------------------------------
(* Messages: redis.Publish, the goroutine of a subscription, ConnManager.  *)

\* What is published while nobody receives is lost.
SubscribersOf(U) == {k \in Conns : sub[k] = "live" /\ userOf[k] \in U}
Fan(m, S) == channel' = [k \in Conns |-> IF k \in S THEN channel[k] \union {m} ELSE channel[k]]

\* Route publishes on the channel of the addressee.
Route(m, u) ==
  /\ setting.sends /\ toId[m] = None
  /\ toId' = [toId EXCEPT ![m] = u]
  /\ Fan(m, SubscribersOf({u}))
  /\ UNCHANGED <<identity, handler, closer, closedBy, reader, conns, online, subMap, sub, pushed>>

\* RouteGroup publishes the message, which has no ToId, on every member's
\* channel; all users are members.
RouteGroup(m) ==
  /\ setting.sends /\ toId[m] = None
  /\ toId' = [toId EXCEPT ![m] = Group]
  /\ Fan(m, SubscribersOf(Users))
  /\ UNCHANGED <<identity, handler, closer, closedBy, reader, conns, online, subMap, sub, pushed>>

\* ConnManager.GetConn(message.ToId) on instance i.
GetConn(i, u) == IF u \in Users THEN conns[i][u] ELSE None

\* WsConn.Push: a free slot of writeCh, the closed closeCh, or the default
\* when the buffer is full.
Push(k, m) ==
  \/ pushed' = [pushed EXCEPT ![m][k] = @ + 1]
  \/ /\ "full" \in setting.faults \/ closer[k] # "open"
     /\ UNCHANGED pushed

\* The goroutine of subscription s hands a message to the local router.
Receive(s, m) ==
  LET k == GetConn(instOf[s], toId[m]) IN
  /\ sub[s] = "live" /\ m \in channel[s]
  /\ channel' = [channel EXCEPT ![s] = @ \ {m}]
  /\ IF k = None THEN UNCHANGED pushed ELSE Push(k, m)
  /\ UNCHANGED <<identity, handler, closer, closedBy, reader, conns, online, subMap, sub, toId>>

----------------------------------------------------------------------------
HandlerRun(k) == AddConn(k) \/ Start(k) \/ ConnectOnline(k) \/ Subscribe(k)
CloserRun(k) == \/ RemoveConn(k) \/ CloseOffline(k) \/ CloseOfflineError(k)
                \/ Unsubscribe(k) \/ UnsubscribeError(k) \/ CloseSocket(k)
ReaderRun(k) == PongRead(k) \/ PongSet(k) \/ PongError(k)

Next ==
  \/ \E k \in Conns :
       \/ \E u \in Users, i \in Instances : Accept(k, u, i)
       \/ \E who \in {"reader", "other"} : Close(k, who)
       \/ HandlerRun(k) \/ CloserRun(k) \/ ReaderRun(k) \/ Block(k)
       \/ ReceiveError(k) \/ \E m \in Msgs : Receive(k, m)
  \/ \E i \in Instances : Crash(i)
  \/ \E u \in Users : Expire(u)
  \/ \E m \in Msgs : RouteGroup(m) \/ \E u \in Users : Route(m, u)

Spec == Init /\ [][Next]_vars

\* The goroutines run, pings are answered, redis does not fail every SET, keys
\* expire; nobody has to connect, to leave or to send.
Fairness ==
  /\ \A k \in Conns : /\ WF_vars(HandlerRun(k)) /\ WF_vars(CloserRun(k))
                      /\ WF_vars(ReaderRun(k)) /\ SF_vars(PongSet(k))
                      /\ \A m \in Msgs : WF_vars(Receive(k, m))
  /\ \A u \in Users : WF_vars(Expire(u))
FairSpec == Spec /\ Fairness

----------------------------------------------------------------------------
TypeOK ==
  /\ setting \in Settings
  /\ userOf \in [Conns -> Users \union {None}]
  /\ instOf \in [Conns -> Instances \union {None}]
  /\ handler \in [Conns -> HandlerSteps]
  /\ closer \in [Conns -> CloserSteps]
  /\ closedBy \in [Conns -> {"nobody", "reader", "other"}]
  /\ reader \in [Conns -> {"reading", "ponging", "stuck"}]
  /\ conns \in [Instances -> [Users -> Conns \union {None}]]
  /\ online \subseteq Users
  /\ subMap \in [Instances -> [Users -> Conns \union {None}]]
  /\ sub \in [Conns -> SubscriptionStates]
  /\ toId \in [Msgs -> Users \union {None, Group}]
  /\ channel \in [Conns -> SUBSET Msgs]
  /\ pushed \in [Msgs -> [Conns -> Nat]]

\* Orderly clients, and no errors from redis.
Undisturbed == setting.orderly /\ setting.faults \subseteq {"full"}

\* The connection map never holds a connection whose onClose has removed it,
\* or one of another user or instance: AddConn comes before Start, so that no
\* Close can come first (ws_server.go:135-141).
NoZombie ==
  \A i \in Instances, u \in Users : LET k == conns[i][u] IN
    k # None => /\ instOf[k] = i /\ userOf[k] = u
                /\ closer[k] \in {"open", "closing"}

\* The subscription map holds subscriptions of its own user on its own instance
\* only, and none that was released: what it holds is live, unless redis has
\* ended its goroutine or its Unsubscribe with an error (redis_router.go:43-52,
\* 64-79).
SubMapLive ==
  \A i \in Instances, u \in Users : LET s == subMap[i][u] IN
    s # None => /\ instOf[s] = i /\ userOf[s] = u /\ sub[s] # "none"
                /\ "channels" \notin setting.faults => sub[s] = "live"

\* Both maps of every instance hold what is alive and its user's own.
MapsLive == NoZombie /\ SubMapLive

\* An established connection that handles what its client sends.
Attended(k) == Established(k) /\ reader[k] # "stuck"

\* The online key, by which GetOnlineStatus decides whether a message is sent
\* at all, is there for every user with an established connection.  (A reader
\* that is stuck would break it too, and is left out.)
OnlineWhileConnected == \A k \in Conns : Attended(k) => userOf[k] \in online

\* When clients are orderly and redis works, the three registers agree with
\* the connections: every established one has its place in the map that Push
\* uses and a subscription, and its key as long as its reader is not stuck.
Registered ==
  Undisturbed =>
    \A k \in Conns : Established(k) =>
      /\ reader[k] # "stuck" => userOf[k] \in online
      /\ conns[instOf[k]][userOf[k]] = k
      /\ subMap[instOf[k]][userOf[k]] = k

\* A message is not shown twice to a connection of an orderly client.
PushedOnce ==
  Undisturbed =>
    \A m \in Msgs, k \in Conns : pushed[m][k] <= 1

\* Whatever clients and redis do, a message is pushed to connections of its
\* addressee only, also when it waited at a subscription that an older
\* connection left behind: the connection is looked up by ToId
\* (redis_router.go:52-60).  One without ToId is pushed to nobody.
PushedToAddressee ==
  \A m \in Msgs, k \in Conns :
    pushed[m][k] # 0 => toId[m] \in Users /\ userOf[k] = toId[m]

\* When every connection of orderly clients has come and gone no subscription
\* is left: no goroutine leak (docs/notes/week14-redis-pubsub-benchmark.md:7-8).
SubscriptionsReleased ==
  Undisturbed /\ (\A k \in Conns : Gone(k))
    => \A k \in Conns : sub[k] = "none"

\* Nothing falls through between redis and an established connection of an
\* orderly client: what is published for its user, or for a group, waits at its
\* subscription, and leaves it only into its buffer, if that has room.
NoneFallsThrough ==
  [][Undisturbed => \A k \in Conns, m \in Msgs : Established(k) =>
       /\ toId[m] = None /\ toId'[m] \in {userOf[k], Group} => m \in channel'[k]
       /\ m \in channel[k] /\ toId[m] = userOf[k] =>
            \/ m \in channel'[k] \/ pushed'[m][k] > 0
            \/ ~Established(k)' \/ "full" \in setting.faults]_vars

\* When the last of a user's connections is gone his key is set only by a pong
\* that was in flight, each once, and none is added (ws_server.go:78-110).
Left(u) == \A k \in Conns : userOf[k] = u => Gone(k)
InFlightPongs(u) == {k \in Conns : userOf[k] = u /\ reader[k] = "ponging"}
NoRevival ==
  [][\A u \in Users : Left(u) =>
       /\ InFlightPongs(u)' \subseteq InFlightPongs(u)
       /\ u \in online' \ online => InFlightPongs(u)' # InFlightPongs(u)]_vars

\* A user whose connections are gone for good is offline for good, also when a
\* pong sets his key after onClose has deleted it (ws_server.go:94, 105).
EventuallyOffline ==
  \A u \in Users : <>[]Left(u) => <>[](u \notin online)

\* Whatever old connections did to the key on their way out, and however often
\* setting it failed, a user with a running connection is online again and
\* again, unless its reader is stuck: the pong repairs it.
OnlineAgain ==
  \A k \in Conns : [](Attended(k) => <>(userOf[k] \in online \/ ~Attended(k)))

----------------------------------------------------------------------------
(* What makes NoZombie, SubMapLive, Registered, SubscriptionsReleased and  *)
(* PushedOnce inductive.                                                   *)

\* A connection has a user and an instance, is closed only after it was put
\* into the map, and is in the maps only after it was put there.
Known ==
  /\ \A k \in Conns :
       /\ handler[k] # "none" => userOf[k] \in Users /\ instOf[k] \in Instances
       /\ handler[k] = "none" =>
            userOf[k] = None /\ instOf[k] = None /\ reader[k] = "reading"
       /\ reader[k] # "reading" => Running(k)
       /\ closer[k] # "open" => handler[k] \notin {"none", "accepted"}
       /\ sub[k] # "none" => handler[k] = "done"
       /\ sub[k] # "live" => channel[k] = {}
  /\ \A i \in Instances, u \in Users :
       conns[i][u] # None => handler[conns[i][u]] \notin {"none", "accepted"}

\* Of an orderly user's connections one at most is not gone.
OneAtATime ==
  setting.orderly =>
    /\ \A k, o \in Conns : k # o /\ userOf[k] = userOf[o] => Gone(k) \/ Gone(o)
    /\ \A k \in Conns : closer[k] # "open" => handler[k] = "done"

\* It is in each register from the step that puts it there to the one that
\* removes it, and has no subscription afterwards.
Stages ==
  Undisturbed => \A k \in Conns :
    /\ handler[k] \in {"added", "started", "online", "done"} /\ closer[k] \in {"open", "closing"}
         => conns[instOf[k]][userOf[k]] = k
    /\ handler[k] \in {"online", "done"} /\ closer[k] = "open" /\ reader[k] # "stuck"
         => userOf[k] \in online
    /\ handler[k] = "done" /\ closer[k] \in {"open", "closing", "removed", "offline"}
         => subMap[instOf[k]][userOf[k]] = k
    /\ sub[k] # "none" => closer[k] \in {"open", "closing", "removed", "offline"}

\* A message that waits at its addressee's one subscription was not pushed.
Waiting ==
  Undisturbed =>
    /\ \A k \in Conns : \A m \in channel[k] :
         sub[k] = "live" /\ toId[m] \in {userOf[k], Group}
    /\ \A m \in Msgs, k \in Conns : pushed[m][k] # 0 =>
         toId[m] \in Users /\ \A s \in Conns : m \notin channel[s]

ConnectionInv == TypeOK /\ Known /\ NoZombie /\ SubMapLive
RegisterInv == OneAtATime /\ Stages /\ Waiting /\ PushedOnce
IndInv == ConnectionInv /\ RegisterInv
=============================================================================
