---------------------------- MODULE GatewayProofs ----------------------------
(***************************************************************************)
(* Proofs about Gateway, for any users, instances, connections, messages   *)
(* and settings, and about Delivery, which is a gateway.  Each group of    *)
(* actions has a lemma, in it each action a step, and under it one step    *)
(* for what holds of any client (ConnectionInv) and one for what holds     *)
(* when clients are orderly and redis works (RegisterInv).                 *)
(***************************************************************************)
EXTENDS Delivery, TLAPS

LEMMA InitInv == Init => IndInv
  BY NamesAssumption
  DEF Init, IndInv, ConnectionInv, RegisterInv, TypeOK, HandlerSteps, CloserSteps, Known,
      SubscriptionStates, NoZombie, SubMapLive, OneAtATime, Stages, Waiting, PushedOnce,
      Undisturbed, Gone

----------------------------------------------------------------------------
\* The handler fills the registers one by one.
LEMMA HandlerInv ==
  ASSUME IndInv, NEW k \in Conns, HandlerRun(k)
  PROVE  IndInv'
<1> USE NamesAssumption DEF IndInv, ConnectionInv, RegisterInv, TypeOK, Known, Running
<1>1. ASSUME AddConn(k) PROVE IndInv'
  <2>1. ConnectionInv'
    BY <1>1 DEF AddConn, Handle, NoZombie, SubMapLive,
         HandlerSteps, CloserSteps, SubscriptionStates, identity, messages
  <2>2. RegisterInv'
    BY <1>1 DEF AddConn, Handle, OneAtATime, Stages, Waiting, PushedOnce,
         Undisturbed, Gone, HandlerSteps, CloserSteps, SubscriptionStates,
         identity, messages
  <2> QED  BY <2>1, <2>2
<1>2. ASSUME Start(k) PROVE IndInv'
  <2>1. ConnectionInv'
    BY <1>2 DEF Start, Handle, NoZombie, SubMapLive,
         HandlerSteps, CloserSteps, SubscriptionStates, identity, messages
  <2>2. RegisterInv'
    BY <1>2 DEF Start, Handle, OneAtATime, Stages, Waiting, PushedOnce,
         Undisturbed, Gone, HandlerSteps, CloserSteps, SubscriptionStates,
         identity, messages
  <2> QED  BY <2>1, <2>2
<1>3. ASSUME ConnectOnline(k) PROVE IndInv'
  <2>1. ConnectionInv'
    BY <1>3 DEF ConnectOnline, Handle, NoZombie, SubMapLive,
         HandlerSteps, CloserSteps, SubscriptionStates, identity, messages
  <2>2. RegisterInv'
    BY <1>3 DEF ConnectOnline, Handle, OneAtATime, Stages, Waiting, PushedOnce,
         Undisturbed, Gone, HandlerSteps, CloserSteps, SubscriptionStates,
         identity, messages
  <2> QED  BY <2>1, <2>2
<1>4. ASSUME Subscribe(k) PROVE IndInv'
  <2>1. ConnectionInv'
    BY <1>4 DEF Subscribe, Handle, NoZombie, SubMapLive,
         HandlerSteps, CloserSteps, SubscriptionStates, identity, messages
  <2>2. RegisterInv'
    BY <1>4 DEF Subscribe, Handle, OneAtATime, Stages, Waiting, PushedOnce,
         Undisturbed, Gone, HandlerSteps, CloserSteps, SubscriptionStates,
         identity, messages
  <2> QED  BY <2>1, <2>2
<1> QED
  BY <1>1, <1>2, <1>3, <1>4 DEF HandlerRun

----------------------------------------------------------------------------
\* onClose empties them; of an orderly user no other connection is in them.
LEMMA CloserInv ==
  ASSUME IndInv, NEW k \in Conns, CloserRun(k)
  PROVE  IndInv'
<1> USE NamesAssumption DEF IndInv, ConnectionInv, RegisterInv, TypeOK, Known, Running
<1>1. ASSUME RemoveConn(k) PROVE IndInv'
  <2>1. ConnectionInv'
    BY <1>1 DEF RemoveConn, CloseStep, NoZombie, SubMapLive,
         HandlerSteps, CloserSteps, SubscriptionStates, identity, messages
  <2>2. RegisterInv'
    BY <1>1 DEF RemoveConn, CloseStep, OneAtATime, Stages, Waiting, PushedOnce,
         Undisturbed, Gone, HandlerSteps, CloserSteps, SubscriptionStates,
         identity, messages
  <2> QED  BY <2>1, <2>2
<1>2. ASSUME CloseOffline(k) PROVE IndInv'
  <2>1. ConnectionInv'
    BY <1>2 DEF CloseOffline, CloseStep, NoZombie, SubMapLive,
         HandlerSteps, CloserSteps, SubscriptionStates, identity, messages
  <2>2. Stages'
    BY <1>2 DEF CloseOffline, CloseStep, OneAtATime, Stages, Undisturbed, Gone,
         HandlerSteps, CloserSteps, SubscriptionStates, identity
  <2>3. OneAtATime' /\ Waiting' /\ PushedOnce'
    BY <1>2 DEF CloseOffline, CloseStep, OneAtATime, Waiting, PushedOnce, Undisturbed, Gone,
         identity, messages
  <2> QED  BY <2>1, <2>2, <2>3
<1>3. ASSUME CloseOfflineError(k) PROVE IndInv'
  <2>1. ConnectionInv'
    BY <1>3 DEF CloseOfflineError, CloseStep, NoZombie, SubMapLive,
         HandlerSteps, CloserSteps, SubscriptionStates, identity, messages
  <2>2. RegisterInv'
    BY <1>3 DEF CloseOfflineError, CloseStep, OneAtATime, Stages, Waiting, PushedOnce,
         Undisturbed, Gone, HandlerSteps, CloserSteps, SubscriptionStates,
         identity, messages
  <2> QED  BY <2>1, <2>2
<1>4. ASSUME Unsubscribe(k) PROVE IndInv'
  <2>1. ConnectionInv'
    BY <1>4 DEF Unsubscribe, Held, EndSubscription, CloseStep, NoZombie, SubMapLive,
         HandlerSteps, CloserSteps, SubscriptionStates, identity, messages
  <2>2. RegisterInv'
    BY <1>4 DEF Unsubscribe, Held, EndSubscription, CloseStep, OneAtATime, Stages,
         Waiting, PushedOnce,
         Undisturbed, Gone, HandlerSteps, CloserSteps, SubscriptionStates,
         identity, messages
  <2> QED  BY <2>1, <2>2
<1>5. ASSUME UnsubscribeError(k) PROVE IndInv'
  <2>1. ConnectionInv'
    BY <1>5 DEF UnsubscribeError, Held, EndSubscription, CloseStep, NoZombie, SubMapLive,
         HandlerSteps, CloserSteps, SubscriptionStates, identity, messages
  <2>2. ~Undisturbed
    <3>1. userOf[k] \in Users /\ instOf[k] \in Instances
      BY <1>5 DEF UnsubscribeError, CloseStep
    <3>2. Held(k) # None => "channels" \in setting.faults \/ sub[Held(k)] = "live"
      BY <3>1 DEF Held, SubMapLive
    <3> QED  BY <1>5, <3>2 DEF UnsubscribeError, Undisturbed
  <2>3. RegisterInv'
    BY <1>5, <2>2 DEF UnsubscribeError, CloseStep, OneAtATime, Stages, Waiting, PushedOnce,
         Undisturbed, Gone, identity
  <2> QED  BY <2>1, <2>3
<1>6. ASSUME CloseSocket(k) PROVE IndInv'
  <2>1. ConnectionInv'
    BY <1>6 DEF CloseSocket, CloseStep, NoZombie, SubMapLive,
         HandlerSteps, CloserSteps, SubscriptionStates, identity, messages
  <2>2. RegisterInv'
    BY <1>6 DEF CloseSocket, CloseStep, OneAtATime, Stages, Waiting, PushedOnce,
         Undisturbed, Gone, HandlerSteps, CloserSteps, SubscriptionStates,
         identity, messages
  <2> QED  BY <2>1, <2>2
<1> QED
  BY <1>1, <1>2, <1>3, <1>4, <1>5, <1>6 DEF CloserRun

----------------------------------------------------------------------------
\* A client connects or leaves.
LEMMA ClientInv ==
  ASSUME IndInv, NEW k \in Conns,
         \/ \E u \in Users, i \in Instances : Accept(k, u, i)
         \/ \E who \in {"reader", "other"} : Close(k, who)
  PROVE  IndInv'
<1> USE NamesAssumption DEF IndInv, ConnectionInv, RegisterInv, TypeOK, Known, Running
<1>1. ASSUME NEW u \in Users, NEW i \in Instances, Accept(k, u, i) PROVE IndInv'
  <2>1. ConnectionInv'
    BY <1>1 DEF Accept, Handle, NoZombie, SubMapLive,
         HandlerSteps, CloserSteps, SubscriptionStates, identity, messages
  <2>2. RegisterInv'
    BY <1>1 DEF Accept, Handle, OneAtATime, Stages, Waiting, PushedOnce,
         Undisturbed, Gone, HandlerSteps, CloserSteps, SubscriptionStates,
         identity, messages
  <2> QED  BY <2>1, <2>2
<1>2. ASSUME NEW who \in {"reader", "other"}, Close(k, who) PROVE IndInv'
  <2>1. ConnectionInv'
    BY <1>2 DEF Close, CloseStep, Running, NoZombie, SubMapLive,
         HandlerSteps, CloserSteps, SubscriptionStates, identity, messages
  <2>2. RegisterInv'
    BY <1>2 DEF Close, CloseStep, Running, OneAtATime, Stages, Waiting, PushedOnce,
         Undisturbed, Gone, HandlerSteps, CloserSteps, SubscriptionStates,
         identity, messages
  <2> QED  BY <2>1, <2>2
<1> QED
  BY <1>1, <1>2

----------------------------------------------------------------------------
\* The reader keeps the key, is stuck, or a subscription ends with an error.
LEMMA ReaderInv ==
  ASSUME IndInv, NEW k \in Conns, ReaderRun(k) \/ Block(k) \/ ReceiveError(k)
  PROVE  IndInv'
<1> USE NamesAssumption DEF IndInv, ConnectionInv, RegisterInv, TypeOK, Known, Running
<1>1. ASSUME ReaderRun(k) \/ Block(k) PROVE IndInv'
  <2>1. reader' \in [Conns -> {"reading", "ponging", "stuck"}]
        /\ (\A c \in Conns : c # k => reader'[c] = reader[c])
        /\ Running(k) /\ (reader'[k] # "stuck" => reader[k] # "stuck")
    BY <1>1 DEF ReaderRun, PongRead, PongSet, PongError, PongDone, Block, Reads
  <2>2. online' \in {online, online \union {userOf[k]}}
        /\ UNCHANGED <<identity, handler, closer, closedBy, conns, subMap, sub, messages>>
    BY <1>1 DEF ReaderRun, PongRead, PongSet, PongError, PongDone, Block
  <2>3. userOf[k] \in Users
    BY <2>1 DEF Running
  <2>4. ConnectionInv'
    BY <2>1, <2>2, <2>3 DEF Running, NoZombie, SubMapLive, identity, messages
  <2>5. RegisterInv'
    BY <2>1, <2>2 DEF OneAtATime, Stages, Waiting, PushedOnce, Undisturbed, Gone,
         identity, messages
  <2> QED  BY <2>4, <2>5
<1>2. ASSUME ReceiveError(k) PROVE IndInv'
  <2>1. ConnectionInv'
    BY <1>2 DEF ReceiveError, EndSubscription, NoZombie, SubMapLive, Running,
         SubscriptionStates, identity
  <2>2. RegisterInv'
    BY <1>2 DEF ReceiveError, OneAtATime, Stages, Waiting, PushedOnce, Undisturbed, Gone,
         identity
  <2> QED  BY <2>1, <2>2
<1> QED
  BY <1>1, <1>2

----------------------------------------------------------------------------
\* A published message waits at its addressee's subscription, and was pushed to
\* nobody.
LEMMA RouteWaiting ==
  ASSUME IndInv, NEW m \in Msgs, NEW u \in Users, Route(m, u)
  PROVE  Waiting'
<1>1. /\ toId[m] = None /\ toId' = [toId EXCEPT ![m] = u]
      /\ UNCHANGED <<setting, userOf, sub, pushed>>
  BY DEF Route, identity
<1>2. \A k \in Conns : channel'[k] =
        IF sub[k] = "live" /\ userOf[k] = u THEN channel[k] \union {m} ELSE channel[k]
  BY DEF Route, Fan, SubscribersOf
<1>3. Waiting /\ toId \in [Msgs -> Users \union {None, Group}] /\ channel \in [Conns -> SUBSET Msgs]
  BY DEF IndInv, ConnectionInv, RegisterInv, TypeOK
<1>4. \A k \in Conns : sub[k] = "live" => userOf[k] \in Users
  BY DEF IndInv, ConnectionInv, Known
<1>5. toId'[m] = u /\ \A f \in Msgs : f # m => toId'[f] = toId[f]
  BY <1>1, <1>3
<1>6. ASSUME Undisturbed, NEW k \in Conns, NEW f \in channel'[k]
      PROVE  sub[k] = "live" /\ toId'[f] \in {userOf[k], Group}
  <2>1. CASE f \in channel[k]
    <3>1. sub[k] = "live" /\ toId[f] \in {userOf[k], Group}
      BY <1>3, <1>6, <2>1 DEF Waiting
    <3>2. f # m /\ f \in Msgs
      BY <1>1, <1>3, <1>4, <2>1, <3>1, NamesAssumption
    <3> QED  BY <1>5, <3>1, <3>2
  <2>2. CASE f \notin channel[k]
    <3>1. f = m /\ sub[k] = "live" /\ userOf[k] = u
      BY <1>2, <1>6, <2>2
    <3> QED  BY <1>5, <3>1
  <2> QED  BY <2>1, <2>2
<1>7. ASSUME Undisturbed, NEW f \in Msgs, NEW k \in Conns, pushed[f][k] # 0
      PROVE  toId'[f] \in Users /\ \A j \in Conns : f \notin channel'[j]
  <2>1. toId[f] \in Users /\ \A j \in Conns : f \notin channel[j]
    BY <1>3, <1>7 DEF Waiting
  <2>2. f # m
    BY <1>1, <2>1, NamesAssumption
  <2>3. toId'[f] \in Users
    BY <1>5, <2>1, <2>2
  <2>4. \A j \in Conns : f \notin channel'[j]
    BY <1>2, <2>1, <2>2
  <2> QED  BY <2>3, <2>4
<1> QED
  BY <1>1, <1>6, <1>7 DEF Waiting, Undisturbed

\* The key expires, or a message is published.
LEMMA RedisInv ==
  ASSUME IndInv, \/ \E u \in Users : Expire(u)
         \/ \E m \in Msgs : RouteGroup(m) \/ \E u \in Users : Route(m, u)
  PROVE  IndInv'
<1> USE NamesAssumption DEF IndInv, ConnectionInv, RegisterInv, TypeOK, Known, Running
<1>1. ASSUME NEW u \in Users, Expire(u) PROVE IndInv'
  <2>1. ConnectionInv'
    BY <1>1 DEF Expire, Reads, Running, NoZombie, SubMapLive,
         HandlerSteps, CloserSteps, SubscriptionStates, identity, messages
  <2>2. RegisterInv'
    BY <1>1 DEF Expire, Reads, Running, OneAtATime, Stages, Waiting, PushedOnce,
         Undisturbed, Gone, HandlerSteps, CloserSteps, SubscriptionStates,
         identity, messages
  <2> QED  BY <2>1, <2>2
<1>2. ASSUME NEW m \in Msgs, NEW u \in Users, Route(m, u) PROVE IndInv'
  <2>1. ConnectionInv'
    BY <1>2 DEF Route, Fan, SubscribersOf, NoZombie, SubMapLive,
         HandlerSteps, CloserSteps, SubscriptionStates, identity, messages
  <2>2. OneAtATime' /\ Stages'
    BY <1>2 DEF Route, Fan, OneAtATime, Stages, Undisturbed, Gone, identity
  <2>3. Waiting'
    BY <1>2, RouteWaiting
  <2>4. PushedOnce'
    BY <1>2 DEF Route, PushedOnce, Undisturbed, identity
  <2> QED  BY <2>1, <2>2, <2>3, <2>4
<1>3. ASSUME NEW m \in Msgs, RouteGroup(m) PROVE IndInv'
  <2>1. ConnectionInv'
    BY <1>3 DEF RouteGroup, Fan, SubscribersOf, NoZombie, SubMapLive,
         HandlerSteps, CloserSteps, SubscriptionStates, identity, messages
  <2>2. OneAtATime' /\ Stages'
    BY <1>3 DEF RouteGroup, Fan, OneAtATime, Stages, Undisturbed, Gone, identity
  <2>3. Waiting'
    BY <1>3 DEF RouteGroup, Fan, SubscribersOf, Waiting, Undisturbed, identity
  <2>4. PushedOnce'
    BY <1>3 DEF RouteGroup, PushedOnce, Undisturbed, identity
  <2> QED  BY <2>1, <2>2, <2>3, <2>4
<1> QED
  BY <1>1, <1>2, <1>3

----------------------------------------------------------------------------
\* A message is pushed at most once: its addressee has one subscription only,
\* which has handed it over now.
LEMMA ReceiveInv ==
  ASSUME IndInv, NEW s \in Conns, NEW m \in Msgs, Receive(s, m)
  PROVE  IndInv'
<1> USE NamesAssumption DEF IndInv, ConnectionInv, RegisterInv
<1> DEFINE k == GetConn(instOf[s], toId[m])
<1>1. sub[s] = "live" /\ m \in channel[s]
  BY DEF Receive
<1>2. k # None => k \in Conns /\ toId[m] \in Users
  BY <1>1 DEF GetConn, TypeOK, Known, Running
<1>3. \/ pushed' = pushed
      \/ k \in Conns /\ toId[m] \in Users /\ pushed' = [pushed EXCEPT ![m][k] = @ + 1]
  BY <1>2 DEF Receive, Push
<1>4. /\ channel' = [channel EXCEPT ![s] = @ \ {m}]
      /\ UNCHANGED <<setting, userOf, instOf, handler, closer, closedBy, conns, online,
                     reader, subMap, sub, toId>>
  BY DEF Receive, identity
<1>5. pushed' \in [Msgs -> [Conns -> Nat]]
  <2>1. CASE pushed' = pushed
    BY <2>1 DEF TypeOK
  <2>2. CASE k \in Conns /\ pushed' = [pushed EXCEPT ![m][k] = @ + 1]
    <3>1. pushed[m][k] + 1 \in Nat
      BY <2>2 DEF TypeOK
    <3> QED  BY <2>2, <3>1 DEF TypeOK
  <2> QED  BY <1>3, <2>1, <2>2
<1>6. TypeOK'
  BY <1>4, <1>5 DEF TypeOK
<1>7. Known' /\ NoZombie' /\ SubMapLive' /\ OneAtATime' /\ Stages'
  BY <1>4 DEF Known, Running, NoZombie, SubMapLive, OneAtATime, Stages, Undisturbed, Gone
<1>8. \A t \in Conns : channel'[t] \subseteq channel[t] /\ m \notin channel'[s]
  BY <1>4 DEF TypeOK
<1>9. ASSUME Undisturbed, toId[m] \in Users
      PROVE  \A t \in Conns : m \notin channel'[t]
  <2> SUFFICES ASSUME NEW t \in Conns, t # s, m \in channel[t] PROVE FALSE
    BY <1>8
  <2>1. sub[t] = "live" /\ userOf[t] = userOf[s]
    BY <1>1, <1>9 DEF Waiting
  <2>2. ~Gone(t) /\ ~Gone(s)
    BY <1>1, <1>9, <2>1 DEF Gone, Known, Stages
  <2> QED
    BY <1>9, <2>1, <2>2 DEF OneAtATime, Undisturbed
<1>10. Waiting'
  <2>1. ASSUME Undisturbed, NEW n \in Msgs, NEW o \in Conns, pushed'[n][o] # 0
        PROVE  toId[n] \in Users /\ \A t \in Conns : n \notin channel'[t]
    <3>1. CASE pushed[n][o] # 0
      BY <1>8, <2>1, <3>1 DEF Waiting
    <3>2. CASE pushed[n][o] = 0
      <4>1. n = m /\ toId[m] \in Users
        BY <1>3, <2>1, <3>2 DEF TypeOK
      <4> QED  BY <1>9, <2>1, <4>1
    <3> QED  BY <3>1, <3>2
  <2> QED  BY <1>4, <1>8, <2>1 DEF Waiting, Undisturbed
<1>11. PushedOnce'
  <2>1. Undisturbed => \A o \in Conns : pushed[m][o] = 0
    BY <1>1 DEF Waiting
  <2>2. ASSUME Undisturbed, NEW n \in Msgs, NEW o \in Conns PROVE pushed'[n][o] <= 1
    <3>1. CASE n = m
      BY <1>3, <2>1, <2>2, <3>1 DEF TypeOK
    <3>2. CASE n # m
      BY <1>3, <2>2, <3>2 DEF PushedOnce, TypeOK
    <3> QED  BY <3>1, <3>2
  <2> QED  BY <1>4, <2>2 DEF PushedOnce, Undisturbed
<1> QED
  BY <1>6, <1>7, <1>10, <1>11

----------------------------------------------------------------------------
\* An instance that ends empties its own maps and its own connections only.
LEMMA StopInv ==
  ASSUME IndInv, NEW i \in Instances, Stop(i)
  PROVE  IndInv'
<1> USE NamesAssumption DEF IndInv, ConnectionInv, RegisterInv, TypeOK, Known, Running
<1>1. TypeOK'
  BY DEF Stop, HandlerSteps, CloserSteps, SubscriptionStates, identity
<1>2. Known'
  <2>1. \A k \in Conns : instOf[k] = i => handler[k] # "none"
    OBVIOUS
  <2>2. \A a \in Instances, u \in Users :
          conns'[a][u] # None => a # i /\ conns'[a][u] = conns[a][u]
    BY DEF Stop
  <2> QED  BY <2>1, <2>2 DEF Stop, identity
<1>3. NoZombie' /\ SubMapLive'
  <2>1. ASSUME NEW a \in Instances, NEW u \in Users
        PROVE  /\ conns'[a][u] # None => a # i /\ conns'[a][u] = conns[a][u]
               /\ subMap'[a][u] # None => a # i /\ subMap'[a][u] = subMap[a][u]
    BY <2>1 DEF Stop
  <2>2. NoZombie'
    BY <2>1 DEF Stop, NoZombie, identity
  <2>3. SubMapLive'
    BY <2>1 DEF Stop, SubMapLive, identity
  <2> QED  BY <2>2, <2>3
<1>4. OneAtATime' /\ Waiting' /\ PushedOnce'
  BY DEF Stop, OneAtATime, Waiting, PushedOnce, Undisturbed, Gone, identity
<1>5. Stages'
  BY DEF Stop, Stages, Undisturbed, identity, HandlerSteps, CloserSteps
<1> QED
  BY <1>1, <1>2, <1>3, <1>4, <1>5

----------------------------------------------------------------------------
LEMMA NextInv == IndInv /\ [Next]_vars => IndInv'
<1>1. IndInv /\ UNCHANGED vars => IndInv'
  BY DEF vars, identity, messages, IndInv, ConnectionInv, RegisterInv, TypeOK, Known,
         Running, NoZombie, SubMapLive, OneAtATime, Stages, Waiting, PushedOnce,
         Undisturbed, Gone
<1> QED
  BY <1>1, HandlerInv, CloserInv, ClientInv, ReaderInv, RedisInv, ReceiveInv, StopInv
       DEF Next, Crash

\* The inductive invariant of Gateway.
THEOREM Inductive == Spec => []IndInv
  BY InitInv, NextInv, PTL DEF Spec

\* Both maps of every instance hold their users' own: connections that are not
\* removed, subscriptions that are not released and live but for redis, whatever
\* clients do and whichever call to redis fails.
THEOREM MapsHoldLive == Spec => []MapsLive
<1>1. IndInv => MapsLive
  BY DEF IndInv, ConnectionInv, MapsLive
<1> QED
  BY Inductive, <1>1, PTL

\* With orderly clients and redis at work, every established connection has
\* its place in the map, its subscription and, unless its reader is stuck, its
\* key.
THEOREM RegistersAgree == Spec => []Registered
<1>1. IndInv => Registered
  BY DEF IndInv, RegisterInv, Registered, Stages, Established
<1> QED
  BY Inductive, <1>1, PTL

\* Then no message is pushed to a connection twice.
THEOREM NothingPushedTwice == Spec => []PushedOnce
<1>1. IndInv => PushedOnce
  BY DEF IndInv, RegisterInv
<1> QED
  BY Inductive, <1>1, PTL

\* A connection that has a user keeps him, and so does a published message
\* its addressee.
LEMMA NamesStay ==
  ASSUME IndInv, [Next]_vars
  PROVE  /\ \A k \in Conns : userOf[k] # None => userOf'[k] = userOf[k]
         /\ \A m \in Msgs : toId[m] # None => toId'[m] = toId[m]
<1>1. CASE \E k \in Conns, u \in Users, i \in Instances : Accept(k, u, i)
  <2>1. PICK k \in Conns, u \in Users, i \in Instances : Accept(k, u, i)
    BY <1>1
  <2>2. userOf[k] = None
    BY <2>1 DEF Accept, Handle, IndInv, ConnectionInv, Known
  <2> QED
    BY <2>1, <2>2 DEF Accept, messages, IndInv, ConnectionInv, TypeOK
<1>2. CASE \E m \in Msgs : RouteGroup(m) \/ \E u \in Users : Route(m, u)
  BY <1>2 DEF RouteGroup, Route, identity, IndInv, ConnectionInv, TypeOK
<1>3. CASE \/ \E k \in Conns : \/ \E who \in {"reader", "other"} : Close(k, who)
                               \/ HandlerRun(k) \/ CloserRun(k) \/ ReaderRun(k)
                               \/ Block(k) \/ ReceiveError(k)
                               \/ \E m \in Msgs : Receive(k, m)
           \/ \E i \in Instances : Crash(i)
           \/ \E u \in Users : Expire(u)
           \/ UNCHANGED vars
  <2>1. UNCHANGED <<userOf, toId>>
    BY <1>3 DEF Close, HandlerRun, AddConn, Start, ConnectOnline, Subscribe, CloserRun,
         RemoveConn, CloseOffline, CloseOfflineError, Unsubscribe, UnsubscribeError,
         CloseSocket, ReaderRun, PongRead, PongSet, PongError, Block,
         ReceiveError, Receive, Crash, Stop, Expire, vars, messages, identity
  <2> QED  BY <2>1
<1> QED
  BY <1>1, <1>2, <1>3 DEF Next

\* Only a subscription pushes, and to the connection of the addressee.
LEMMA PushFindsAddressee ==
  ASSUME IndInv, [Next]_vars, NEW m \in Msgs, NEW k \in Conns, pushed'[m][k] # pushed[m][k]
  PROVE  toId[m] \in Users /\ userOf[k] = toId[m]
<1>1. PICK s \in Conns, f \in Msgs : Receive(s, f)
  BY DEF Next, Accept, Close, HandlerRun, AddConn, Start, ConnectOnline, Subscribe,
       CloserRun,
     RemoveConn, CloseOffline, CloseOfflineError, Unsubscribe, UnsubscribeError,
     CloseSocket, ReaderRun, PongRead, PongSet, PongError, Block, ReceiveError,
     Crash, Stop, Expire, Route, RouteGroup, vars, messages
<1>2. k = GetConn(instOf[s], toId[f]) /\ k # None /\ f = m
  BY <1>1, NamesAssumption DEF Receive, Push, IndInv, ConnectionInv, TypeOK
<1>3. instOf[s] \in Instances
  BY <1>1 DEF Receive, IndInv, ConnectionInv, Known
<1> QED
  BY <1>2, <1>3 DEF GetConn, IndInv, ConnectionInv, NoZombie

\* Whatever clients and redis do, a message is pushed to connections of its
\* addressee only, and a group message to nobody (redis_router.go:52-60).
THEOREM PushesFindAddressee == Spec => []PushedToAddressee
<1>1. Init => PushedToAddressee
  BY DEF Init, PushedToAddressee
<1>2. ASSUME IndInv, PushedToAddressee, [Next]_vars PROVE PushedToAddressee'
  <2> SUFFICES ASSUME NEW m \in Msgs, NEW k \in Conns, pushed'[m][k] # 0
               PROVE  toId'[m] \in Users /\ userOf'[k] = toId'[m]
    BY DEF PushedToAddressee
  <2>1. toId[m] \in Users /\ userOf[k] = toId[m]
    BY <1>2, PushFindsAddressee DEF PushedToAddressee
  <2>2. toId[m] # None /\ userOf[k] # None
    BY <2>1, NamesAssumption
  <2> QED
    BY <1>2, <2>1, <2>2, NamesStay
<1> QED
  BY Inductive, <1>1, <1>2, PTL DEF Spec

\* Then nothing is left of connections that are gone
\* (docs/notes/week14-redis-pubsub-benchmark.md:7-8).
THEOREM NothingLeaks == Spec => []SubscriptionsReleased
<1>1. IndInv => SubscriptionsReleased
  BY DEF IndInv, ConnectionInv, RegisterInv, TypeOK, Known, Stages, SubscriptionsReleased,
         Undisturbed, Gone
<1> QED
  BY Inductive, <1>1, PTL

\* What is published reaches the subscription of an orderly client's
\* connection: Subscribe has made one, and a frame waits there.
LEMMA PublishedWaits ==
  ASSUME IndInv, [Next]_vars, Undisturbed, NEW k \in Conns, NEW m \in Msgs, Established(k),
         toId[m] = None, toId'[m] \in {userOf[k], Group}
  PROVE  m \in channel'[k]
<1>1. userOf[k] \in Users /\ instOf[k] \in Instances
  BY DEF Established, IndInv, ConnectionInv, Known
<1>2. sub[k] = "live"
  BY <1>1, NamesAssumption DEF Established, IndInv, ConnectionInv, RegisterInv, Stages,
       SubMapLive, Undisturbed
<1>3. toId' # toId
  BY <1>1, NamesAssumption
<1>4. (\E u \in Users : Route(m, u)) \/ RouteGroup(m)
  <2>1. PICK n \in Msgs : RouteGroup(n) \/ \E u \in Users : Route(n, u)
    BY <1>3 DEF Next, Accept, Close, HandlerRun, AddConn, Start, ConnectOnline, Subscribe,
       CloserRun, RemoveConn, CloseOffline, CloseOfflineError, Unsubscribe,
       UnsubscribeError, CloseSocket, ReaderRun, PongRead, PongSet, PongError,
       Block, ReceiveError, Receive, Crash, Stop, Expire, vars, messages
  <2>2. n = m
    BY <2>1, <1>1, NamesAssumption DEF Route, RouteGroup, IndInv, ConnectionInv, TypeOK
  <2> QED
    BY <2>1, <2>2
<1>5. CASE RouteGroup(m)
  BY <1>1, <1>2, <1>5 DEF RouteGroup, Fan, SubscribersOf
<1>6. ASSUME NEW u \in Users, Route(m, u) PROVE m \in channel'[k]
  <2>1. u = userOf[k]
    BY <1>6, NamesAssumption DEF Route, IndInv, ConnectionInv, TypeOK
  <2> QED
    BY <1>2, <1>6, <2>1 DEF Route, Fan, SubscribersOf
<1> QED
  BY <1>4, <1>5, <1>6

\* It leaves the subscription only into the buffer of the connection, which is
\* in the map, or because that buffer is full, or with the connection.
LEMMA WaitingIsPushed ==
  ASSUME IndInv, [Next]_vars, Undisturbed, NEW k \in Conns, NEW m \in Msgs, Established(k),
         m \in channel[k], toId[m] = userOf[k], m \notin channel'[k], Established(k)'
  PROVE  pushed'[m][k] > 0 \/ "full" \in setting.faults
<1>1. userOf[k] \in Users /\ instOf[k] \in Instances
  BY DEF Established, IndInv, ConnectionInv, Known
<1>2. conns[instOf[k]][userOf[k]] = k /\ closer[k] = "open"
  BY DEF Established, IndInv, RegisterInv, Stages
<1>3. ~\E j \in Conns : Unsubscribe(j)
  <2> SUFFICES ASSUME NEW j \in Conns, Unsubscribe(j) PROVE FALSE
    OBVIOUS
  <2>1. subMap[instOf[j]][userOf[j]] = k
    BY DEF Unsubscribe, Held, EndSubscription, IndInv, ConnectionInv, TypeOK
  <2>2. closer[j] = "offline" /\ j # k
    BY <1>2 DEF Unsubscribe, Held, EndSubscription, CloseStep
  <2>3. handler[j] = "done" /\ userOf[j] \in Users /\ instOf[j] \in Instances
    BY <2>2 DEF IndInv, ConnectionInv, RegisterInv, Known, OneAtATime, Undisturbed
  <2>4. userOf[k] = userOf[j]
    BY <2>1, <2>3, NamesAssumption DEF IndInv, ConnectionInv, SubMapLive
  <2> QED
    BY <2>2, <2>3, <2>4, <1>2
    DEF Established, IndInv, RegisterInv, OneAtATime, Undisturbed, Gone
<1>4. ~\E i \in Instances : Crash(i)
  <2> SUFFICES ASSUME NEW i \in Instances, Crash(i) PROVE FALSE
    OBVIOUS
  <2>1. closer' = [j \in Conns |-> IF instOf[j] = i THEN "closed" ELSE closer[j]]
        /\ sub' = [j \in Conns |-> IF instOf[j] = i THEN "none" ELSE sub[j]]
        /\ channel' = [j \in Conns |-> IF instOf[j] = i THEN {} ELSE channel[j]]
    BY DEF Crash, Stop
  <2> QED  BY <2>1 DEF Crash, Stop, Established
<1>5. ~\E j \in Conns : UnsubscribeError(j) \/ ReceiveError(j)
  <2> SUFFICES ASSUME NEW j \in Conns, UnsubscribeError(j) PROVE FALSE
    BY DEF ReceiveError, Undisturbed
  <2>1. handler[j] = "done" /\ userOf[j] \in Users /\ instOf[j] \in Instances
    BY DEF UnsubscribeError, CloseStep, Undisturbed, IndInv, ConnectionInv, RegisterInv,
       Known, OneAtATime
  <2> QED
    BY <2>1 DEF UnsubscribeError, Held, Undisturbed, IndInv, ConnectionInv, SubMapLive
<1>6. Receive(k, m)
  <2>1. PICK s \in Conns, n \in Msgs : Receive(s, n)
    BY <1>3, <1>4, <1>5 DEF Next, Accept, Close, HandlerRun, AddConn, Start, ConnectOnline,
       Subscribe, CloserRun, RemoveConn, CloseOffline, CloseOfflineError,
       CloseSocket, ReaderRun, PongRead, PongSet, PongError, Block,
       Expire, Route, RouteGroup, Fan, vars, messages
  <2>2. channel' = [channel EXCEPT ![s] = @ \ {n}]
    BY <2>1 DEF Receive
  <2>3. s = k /\ n = m
    BY <2>2 DEF IndInv, ConnectionInv, TypeOK
  <2> QED
    BY <2>1, <2>3
<1>7. GetConn(instOf[k], toId[m]) = k /\ k # None
  BY <1>1, <1>2, NamesAssumption DEF GetConn
<1>8. pushed' = [pushed EXCEPT ![m][k] = @ + 1] \/ "full" \in setting.faults
  BY <1>2, <1>6, <1>7 DEF Receive, Push
<1> QED
  BY <1>8 DEF IndInv, ConnectionInv, TypeOK

\* For any users, connections and messages: between redis and an established
\* connection of an orderly client nothing falls through (redis_router.go:38-62).
THEOREM NothingFallsThrough == Spec => NoneFallsThrough
<1>1. IndInv /\ [Next]_vars
      => [Undisturbed => \A k \in Conns, m \in Msgs : Established(k) =>
            /\ toId[m] = None /\ toId'[m] \in {userOf[k], Group} => m \in channel'[k]
            /\ m \in channel[k] /\ toId[m] = userOf[k] =>
                 \/ m \in channel'[k] \/ pushed'[m][k] > 0
                 \/ ~Established(k)' \/ "full" \in setting.faults]_vars
  BY PublishedWaits, WaitingIsPushed
<1> QED
  BY Inductive, <1>1, PTL DEF Spec, NoneFallsThrough

\* The key of a user is set by the handler of one of his connections, or by a
\* pong that ends; a pong begins only at a connection that is there.
LEMMA KeyIsSet ==
  ASSUME IndInv, [Next]_vars, NEW u \in Users, Left(u)
  PROVE  /\ InFlightPongs(u)' \subseteq InFlightPongs(u)
         /\ u \in online' \ online => InFlightPongs(u)' # InFlightPongs(u)
<1> USE DEF IndInv, ConnectionInv, TypeOK, Known, Left, InFlightPongs
<1>1. ASSUME NEW k \in Conns, PongSet(k) \/ PongError(k)
      PROVE  /\ InFlightPongs(u)' \subseteq InFlightPongs(u)
             /\ u \in online' \ online => InFlightPongs(u)' # InFlightPongs(u)
  <2>1. reader[k] = "ponging" /\ reader' = [reader EXCEPT ![k] = "reading"]
        /\ userOf' = userOf
    BY <1>1 DEF PongSet, PongError, PongDone, identity
  <2>2. InFlightPongs(u)' \subseteq InFlightPongs(u)
    BY <2>1
  <2>3. u \in online' \ online => userOf[k] = u
    BY <1>1 DEF PongSet, PongError
  <2>4. userOf[k] = u => k \in InFlightPongs(u) /\ k \notin InFlightPongs(u)'
    BY <2>1
  <2> QED
    BY <2>2, <2>3, <2>4
<1>2. ASSUME NEW k \in Conns, PongRead(k) \/ Block(k) \/ ConnectOnline(k)
      PROVE  InFlightPongs(u)' = InFlightPongs(u) /\ online' \ online \subseteq Users \ {u}
  <2>1. userOf[k] # u /\ userOf[k] \in Users
    BY <1>2 DEF PongRead, Block, ConnectOnline, Handle, Reads, Running, Gone
  <2>2. online' \ online \subseteq {userOf[k]} /\ userOf' = userOf
        /\ (\A c \in Conns : c # k => reader'[c] = reader[c])
    BY <1>2 DEF PongRead, Block, ConnectOnline, identity
  <2> QED
    BY <2>1, <2>2
<1>3. ASSUME NEW k \in Conns, NEW w \in Users, NEW i \in Instances, Accept(k, w, i)
      PROVE  InFlightPongs(u)' = InFlightPongs(u) /\ online' = online
  <2>1. reader[k] = "reading" /\ reader' = reader /\ online' = online
        /\ userOf' = [userOf EXCEPT ![k] = w]
    BY <1>3 DEF Accept, Handle
  <2> QED
    BY <2>1
<1>4. ASSUME NEW i \in Instances, Crash(i)
      PROVE  InFlightPongs(u)' \subseteq InFlightPongs(u) /\ online' = online
  BY <1>4 DEF Crash, Stop, identity
<1>5. CASE \/ \E k \in Conns :
                \/ \E who \in {"reader", "other"} : Close(k, who)
                \/ AddConn(k) \/ Start(k) \/ Subscribe(k) \/ CloserRun(k) \/ ReceiveError(k)
                \/ \E m \in Msgs : Receive(k, m)
           \/ \E w \in Users : Expire(w)
           \/ \E m \in Msgs : RouteGroup(m) \/ \E w \in Users : Route(m, w)
           \/ UNCHANGED vars
  <2>1. UNCHANGED <<userOf, reader>> /\ online' \subseteq online
    BY <1>5 DEF Close, AddConn, Start, Subscribe, CloserRun, RemoveConn, CloseOffline,
         CloseOfflineError, Unsubscribe, UnsubscribeError, CloseSocket, ReceiveError,
         Receive, Expire, RouteGroup, Route, vars, identity
  <2> QED
    BY <2>1
<1> QED
  BY <1>1, <1>2, <1>3, <1>4, <1>5 DEF Next, HandlerRun, ReaderRun

\* Once a user's connections are gone no one sets his key again but the pongs
\* that were in flight, each once: then its time to live decides.
THEOREM KeyIsNotRevived == Spec => NoRevival
<1>1. IndInv /\ [Next]_vars
      => [\A u \in Users : Left(u) =>
            /\ InFlightPongs(u)' \subseteq InFlightPongs(u)
            /\ u \in online' \ online => InFlightPongs(u)' # InFlightPongs(u)]_vars
  BY KeyIsSet
<1> QED
  BY Inductive, <1>1, PTL DEF Spec, NoRevival

----------------------------------------------------------------------------
(* Delivery.                                                               *)

\* An instance that is idle has nothing in its maps, so that its restart is a
\* step of no gateway.
LEMMA IdleStop ==
  ASSUME IndInv, NEW h \in Instances, Idle(h), Stop(h)
  PROVE  UNCHANGED vars
<1> USE NamesAssumption DEF IndInv, ConnectionInv, TypeOK, Known, Idle, Gone
<1>1. ASSUME NEW k \in Conns, instOf[k] = h
      PROVE  /\ handler[k] = "done" /\ closer[k] = "closed" /\ sub[k] = "none"
             /\ channel[k] = {} /\ reader[k] = "reading"
  <2>1. Gone(k) /\ sub[k] = "none" /\ reader[k] = "reading"
    BY <1>1
  <2>2. handler[k] # "none"
    BY <1>1
  <2>3. channel[k] = {}
    BY <2>1
  <2> QED  BY <2>1, <2>2, <2>3
<1>2. handler' = handler /\ closer' = closer /\ reader' = reader
  BY <1>1 DEF Stop
<1>3. channel' = channel
  BY <1>1 DEF Stop
<1>4. sub' = sub
  BY <1>1 DEF Stop
<1>5. ASSUME NEW u \in Users PROVE conns[h][u] = None /\ subMap[h][u] = None
  <2>1. conns[h][u] \in Conns \union {None} /\ subMap[h][u] \in Conns \union {None}
    OBVIOUS
  <2>2. conns[h][u] = None
    <3>1. ASSUME NEW k \in Conns, conns[h][u] = k PROVE instOf[k] = h /\ closer[k] # "closed"
      BY <3>1 DEF NoZombie
    <3> QED  BY <1>1, <2>1, <3>1
  <2>3. subMap[h][u] = None
    BY <1>1, <2>1 DEF SubMapLive
  <2> QED  BY <2>2, <2>3
<1>6. conns' = conns /\ subMap' = subMap
  <2>1. conns[h] = [u \in Users |-> None] /\ subMap[h] = [u \in Users |-> None]
    BY <1>5
  <2> QED  BY <2>1 DEF Stop
<1> QED
  BY <1>2, <1>3, <1>4, <1>6 DEF Stop, vars, identity, messages

\* Every step of Delivery is one of Gateway, or leaves the gateway alone.
LEMMA DeliveryStep == DeliveryInv /\ [DeliveryNext]_allVars => [Next]_vars
<1> SUFFICES ASSUME DeliveryInv, [DeliveryNext]_allVars PROVE [Next]_vars
  OBVIOUS
<1>1. ASSUME NEW f, NEW u \in Users, f \in Msgs, Publish(f, u) PROVE [Next]_vars
  BY <1>1 DEF Publish, Next
<1>2. CASE Connections
  <2>1. ASSUME NEW k \in Conns, Close(k, "reader") \/ Close(k, "other") PROVE Next
    BY <2>1 DEF Next
  <2> QED  BY <1>2, <2>1 DEF Connections, ReaderBlocks, Next
<1>3. ASSUME NEW i \in Ids, NEW h \in Instances, NEW u \in Users, SendMessage(i, h, u)
      PROVE  UNCHANGED vars
  BY <1>3 DEF SendMessage
<1>4. ASSUME NEW i \in Ids, RecipientOffline(i) \/ RecipientOnline(i) \/ Pend(i) \/ GiveUp(i)
      PROVE  UNCHANGED vars
  BY <1>4 DEF RecipientOffline, RecipientOnline, Pend, GiveUp
<1>5. ASSUME NEW h \in Instances, Restart(h) PROVE [Next]_vars
  <2>1. IndInv /\ Stop(h)
    BY <1>5 DEF DeliveryInv, Restart
  <2>2. CASE Idle(h)
    BY <2>1, <2>2, IdleStop
  <2>3. CASE ~Idle(h)
    BY <2>1, <2>3 DEF Next, Crash
  <2> QED  BY <2>2, <2>3
<1>6. ASSUME NEW i \in Ids, RouteMessage(i) PROVE [Next]_vars
  <2>1. <<i, 0>> \in Msgs /\ to[i] \in Users
    BY <1>6, DeliveryAssumption DEF RouteMessage, Step, DeliveryInv, Turns
  <2> QED  BY <1>1, <1>6, <2>1 DEF RouteMessage
<1>7. ASSUME NEW i \in Ids, Retry(i) PROVE [Next]_vars
  <2>1. <<i, resends[i] + 1>> \in Msgs /\ to[i] \in Users
    BY <1>7, DeliveryAssumption DEF Retry, DeliveryInv, DeliveryTypeOK, Turns
  <2> QED  BY <1>1, <1>7, <2>1 DEF Retry
<1>8. ASSUME NEW i \in Ids, NEW k \in Conns, ClientAck(i, k) PROVE UNCHANGED vars
  BY <1>8 DEF ClientAck
<1>9. CASE UNCHANGED allVars
  BY <1>9 DEF allVars
<1> QED
  BY <1>2, <1>3, <1>4, <1>5, <1>6, <1>7, <1>8, <1>9 DEF DeliveryNext, SendRun, ClearUp

LEMMA DeliveryInitInv == DeliveryInit => DeliveryInv
<1> SUFFICES ASSUME DeliveryInit PROVE DeliveryInv
  OBVIOUS
<1>1. IndInv
  BY InitInv DEF DeliveryInit
<1>2. DeliveryTypeOK
  BY <1>1, DeliveryAssumption DEF DeliveryInit, DeliveryTypeOK, IndInv, ConnectionInv
<1>3. Turns
  BY DeliveryAssumption DEF DeliveryInit, Init, Turns
<1> QED
  BY <1>1, <1>2, <1>3 DEF DeliveryInv

\* Only the steps that route a message change which frames are published.
LEMMA OnlyRouted ==
  ASSUME Connections \/ \E h \in Instances : Stop(h)
  PROVE  toId' = toId
  BY DEF Connections, ReaderBlocks, Accept, Close, HandlerRun, AddConn, Start,
       ConnectOnline, Subscribe,
         CloserRun, RemoveConn, CloseOffline, CloseOfflineError, Unsubscribe,
         UnsubscribeError, CloseSocket, ReaderRun, PongRead, PongSet, PongError,
         Block, ReceiveError, Receive, Expire, Stop, messages

LEMMA DeliveryNextInv == DeliveryInv /\ [DeliveryNext]_allVars => DeliveryInv'
<1> SUFFICES ASSUME DeliveryInv, [DeliveryNext]_allVars PROVE DeliveryInv'
  OBVIOUS
<1>1. IndInv'
  BY DeliveryStep, NextInv DEF DeliveryInv
<1>2. ASSUME UNCHANGED <<toId, sending>> PROVE DeliveryInv'
  BY <1>1, <1>2 DEF sending, DeliveryInv, DeliveryTypeOK, Turns, IndInv, ConnectionInv
<1> USE DeliveryAssumption DEF DeliveryInv, DeliveryTypeOK, Turns, Step, InFlight, Finished
<1>3. TypeOK'
  BY <1>1 DEF IndInv, ConnectionInv
<1>4. CASE Connections /\ UNCHANGED sending
  BY <1>2, <1>4, OnlyRouted
<1>5. ASSUME NEW i \in Ids, NEW h \in Instances, NEW u \in Users, SendMessage(i, h, u)
      PROVE  DeliveryInv'
  BY <1>1, <1>3, <1>5 DEF SendMessage, vars, messages
<1>6. ASSUME NEW i \in Ids, RecipientOffline(i) \/ RecipientOnline(i) \/ Pend(i)
      PROVE  DeliveryInv'
  BY <1>1, <1>3, <1>6 DEF RecipientOffline, RecipientOnline, Pend, vars, messages
<1>7. ASSUME NEW f \in Msgs, NEW u \in Users, Publish(f, u)
      PROVE  toId'[f] \in {toId[f], u} /\ \A g \in Msgs : g # f => toId'[g] = toId[g]
  BY <1>7, <1>3 DEF Publish, Route, vars, messages, TypeOK
<1>8. ASSUME NEW i \in Ids, RouteMessage(i) PROVE DeliveryInv'
  <2>1. to' = to /\ resends' = resends /\ home' = home /\ locked' = locked
        /\ stage' = [stage EXCEPT ![i] = "routed"] /\ stage[i] = "pending"
    BY <1>8 DEF RouteMessage
  <2>2. toId'[<<i, 0>>] \in {toId[<<i, 0>>], to[i]}
        /\ \A j \in Ids, n \in 0 .. MaxRetry : <<j, n>> # <<i, 0>> => toId'[<<j, n>>] = toId[<<j, n>>]
    BY <1>7, <1>8 DEF RouteMessage
  <2>3. DeliveryTypeOK'
    BY <1>3, <2>1
  <2>4. ASSUME NEW j \in Ids, NEW n \in 0 .. MaxRetry, toId'[<<j, n>>] # None
        PROVE  n <= resends[j] /\ stage'[j] \in {"routed", "failed", "lost"} /\ toId'[<<j, n>>] = to[j]
    BY <2>1, <2>2, <2>4
  <2>5. Turns'
    BY <2>1, <2>4
  <2> QED
    BY <1>1, <2>3, <2>5
<1>9. ASSUME NEW i \in Ids, Retry(i) PROVE DeliveryInv'
  <2>1. resends[i] + 1 \in 0 .. MaxRetry
    BY <1>9 DEF Retry
  <2>2. to' = to /\ stage' = stage /\ home' = home /\ locked' = locked
        /\ resends' = [resends EXCEPT ![i] = @ + 1] /\ stage[i] = "routed"
    BY <1>9 DEF Retry
  <2>3. toId'[<<i, resends[i] + 1>>] \in {toId[<<i, resends[i] + 1>>], to[i]}
        /\ \A j \in Ids, n \in 0 .. MaxRetry :
             <<j, n>> # <<i, resends[i] + 1>> => toId'[<<j, n>>] = toId[<<j, n>>]
    BY <1>7, <1>9, <2>1 DEF Retry
  <2>4. DeliveryTypeOK'
    BY <1>3, <2>1, <2>2
  <2>5. ASSUME NEW j \in Ids, NEW n \in 0 .. MaxRetry, toId'[<<j, n>>] # None
        PROVE  n <= resends'[j] /\ stage[j] \in {"routed", "failed", "lost"} /\ toId'[<<j, n>>] = to[j]
    <3>1. CASE j = i /\ n = resends[i] + 1
      BY <2>2, <2>3, <2>5, <3>1
    <3>2. CASE ~(j = i /\ n = resends[i] + 1)
      <4>1. toId[<<j, n>>] # None /\ toId'[<<j, n>>] = toId[<<j, n>>]
        BY <2>3, <2>5, <3>2
      <4>2. n <= resends[j] /\ stage[j] \in {"routed", "failed", "lost"} /\ toId[<<j, n>>] = to[j]
        BY <4>1
      <4>3. resends'[j] = resends[j] \/ resends'[j] = resends[j] + 1
        BY <2>2
      <4>4. resends[j] \in Nat /\ n \in Nat
        OBVIOUS
      <4> QED  BY <4>1, <4>2, <4>3, <4>4
    <3> QED  BY <3>1, <3>2
  <2>6. Turns'
    BY <2>2, <2>4, <2>5
  <2> QED
    BY <1>1, <2>4, <2>6
<1>10. ASSUME NEW i \in Ids, GiveUp(i) PROVE DeliveryInv'
  BY <1>1, <1>3, <1>10 DEF GiveUp, vars, messages
<1>11. ASSUME NEW i \in Ids, NEW k \in Conns, ClientAck(i, k) PROVE DeliveryInv'
  BY <1>1, <1>3, <1>11 DEF ClientAck, Reads, Running, vars, messages, IndInv, ConnectionInv,
       TypeOK, Known
<1>12. ASSUME NEW h \in Instances, Restart(h) PROVE DeliveryInv'
  BY <1>1, <1>3, <1>12, OnlyRouted DEF Restart
<1>13. CASE UNCHANGED allVars
  BY <1>2, <1>13 DEF allVars, vars, messages
<1> QED
  BY <1>4, <1>5, <1>6, <1>8, <1>9, <1>10, <1>11, <1>12, <1>13
     DEF DeliveryNext, SendRun, ClearUp

\* The inductive invariant of Delivery.
THEOREM DeliveryInductive == DeliverySpec => []DeliveryInv
  BY DeliveryInitInv, DeliveryNextInv, PTL DEF DeliverySpec

\* With messages, retries, ACKs and restarts the whole is still a gateway, so
\* that what is proved of Gateway holds of it.
THEOREM DeliveryIsGateway == DeliverySpec => UsesGateway
<1>1. DeliveryInit => Init
  BY DEF DeliveryInit
<1> QED
  BY DeliveryInductive, DeliveryStep, <1>1, PTL DEF DeliverySpec, UsesGateway, Spec

\* With orderly clients and redis at work no frame is shown twice, however
\* often the addressee moves and instances stop.
THEOREM RetriesAreAll == DeliverySpec => []ShownAtMost
<1>1. DeliveryInv => ShownAtMost
  <2> SUFFICES ASSUME DeliveryInv, Undisturbed,
                      NEW i \in Ids, NEW n \in 0 .. MaxRetry, NEW k \in Conns
               PROVE  pushed[<<i, n>>][k] <=
                        IF n <= resends[i] /\ stage[i] \in {"routed", "failed", "lost"}
                        THEN 1 ELSE 0
    BY DEF ShownAtMost
  <2>1. <<i, n>> \in Msgs
    BY DeliveryAssumption
  <2>2. pushed[<<i, n>>][k] \in Nat /\ pushed[<<i, n>>][k] <= 1
    BY <2>1 DEF DeliveryInv, IndInv, ConnectionInv, RegisterInv, PushedOnce, TypeOK
  <2>3. pushed[<<i, n>>][k] # 0 =>
          n <= resends[i] /\ stage[i] \in {"routed", "failed", "lost"}
    BY <2>1, NamesAssumption DEF DeliveryInv, IndInv, RegisterInv, Waiting, Turns
  <2> QED
    BY <2>2, <2>3
<1> QED
  BY DeliveryInductive, <1>1, PTL

\* Then nobody with an established connection, on any instance, whose reader is
\* not stuck, is taken for offline.
THEOREM NobodyIsSkipped == DeliverySpec => SkipsNobody
<1>1. ASSUME DeliveryInv, [DeliveryNext]_allVars
      PROVE  [\A i \in Ids :
                Undisturbed /\ stage[i] # "skipped" /\ stage'[i] = "skipped" =>
                  \A k \in Conns : userOf[k] = to[i] => ~Attended(k)]_allVars
  <2> SUFFICES ASSUME NEW i \in Ids, Undisturbed, stage[i] # "skipped", stage'[i] = "skipped",
                      NEW k \in Conns, userOf[k] = to[i], Attended(k)
               PROVE  FALSE
    OBVIOUS
  <2>1. stage \in [Ids -> {"new"} \union InFlight \union Finished]
    BY <1>1 DEF DeliveryInv, DeliveryTypeOK
  <2>2. PICK j \in Ids : RecipientOffline(j)
    BY <1>1, <2>1 DEF DeliveryNext, allVars, sending, SendRun, ClearUp, SendMessage,
         RecipientOnline, Pend, RouteMessage, Retry, GiveUp, ClientAck, Restart, Step
  <2>3. j = i
    BY <2>1, <2>2 DEF RecipientOffline, Step
  <2>4. to[i] \in online
    BY <1>1 DEF DeliveryInv, IndInv, RegisterInv, Stages, Attended, Established
  <2> QED
    BY <2>2, <2>3, <2>4 DEF RecipientOffline, Undisturbed
<1> QED
  BY DeliveryInductive, <1>1, PTL DEF DeliverySpec, SkipsNobody

----------------------------------------------------------------------------
(* Delivery implements Mailbox.                                            *)

Fates == [i \in Ids |-> Fate(i)]
Routed == {f \in Msgs : toId[f] # None}

LEMMA MailboxInit == DeliveryInit => Box!Init
<1> SUFFICES ASSUME DeliveryInit PROVE Box!Init
  OBVIOUS
<1> USE DeliveryAssumption DEF DeliveryInit, Init
<1>1. Undisturbed \in BOOLEAN
  BY DEF Undisturbed
<1>2. Present = {}
  BY DEF Present, Attended, Established
<1>3. Fates = [i \in Ids |-> "new"]
  BY DEF Fates, Fate, InFlight
<1>4. Routed = {}
  BY DEF Routed
<1>5. pushed = [f \in Box!Frames |-> [k \in Conns |-> 0]]
  BY DEF Box!Frames
<1> QED
  BY <1>1, <1>2, <1>3, <1>4, <1>5 DEF Box!Init, Fates, Routed

\* Connections come and go: a user is never taken from one.
LEMMA MailboxConnect ==
  ASSUME DeliveryInv, DeliveryInv', UNCHANGED <<setting, pushed, toId, sending>>,
         \A k \in Conns : userOf[k] # None => userOf'[k] = userOf[k]
  PROVE  Box!Connect
<1>1. userOf' \in [Conns -> Users \union {None}]
  BY DEF DeliveryInv, DeliveryTypeOK, TypeOK
<1>2. Present' \in SUBSET Users
  BY DEF Present
<1>3. Undisturbed' = Undisturbed /\ to' = to
  BY DEF Undisturbed, sending
<1>4. Fates' = Fates
  BY DEF Fates, Fate, sending
<1>5. Routed' = Routed
  BY DEF Routed
<1> QED
  BY <1>1, <1>2, <1>3, <1>4, <1>5 DEF Box!Connect, Fates, Routed

\* What a subscription hands to the local router is shown to the addressee's
\* connection in the map, or to nobody.
LEMMA MailboxShow ==
  ASSUME DeliveryInv, DeliveryInv', NEW s \in Conns, NEW f \in Msgs, Receive(s, f),
         UNCHANGED sending
  PROVE  Box!Next
<1> USE DeliveryAssumption, NamesAssumption DEF DeliveryInv, IndInv, ConnectionInv
<1> DEFINE k == GetConn(instOf[s], toId[f])
<1>1. UNCHANGED <<setting, userOf, handler, closer, reader, toId>> /\ sub[s] = "live" /\ f \in channel[s]
  BY DEF Receive, identity
<1>2. CASE pushed' = pushed
  <2>1. Box!Connect
    BY <1>1, <1>2, MailboxConnect
  <2> QED  BY <2>1 DEF Box!Next
<1>3. CASE k # None /\ pushed' = [pushed EXCEPT ![f][k] = @ + 1]
  <2>1. PICK i \in Ids, n \in 0 .. MaxRetry : f = <<i, n>>
    OBVIOUS
  <2>2. instOf[s] \in Instances
    BY <1>1 DEF Known
  <2>3. toId[f] \in Users /\ k = conns[instOf[s]][toId[f]]
    BY <1>3 DEF GetConn
  <2>4. k \in Conns /\ userOf[k] = toId[f]
    BY <1>3, <2>2, <2>3 DEF NoZombie, TypeOK
  <2>5. f \in Routed /\ userOf[k] = to[i]
    BY <2>1, <2>3, <2>4 DEF Routed, Turns
  <2>6. Undisturbed => \A c \in Conns : pushed[f][c] = 0
    BY <1>1 DEF RegisterInv, Waiting
  <2>7. Undisturbed' = Undisturbed /\ Present' = Present /\ Fates' = Fates
        /\ Routed' = Routed /\ to' = to
    BY <1>1 DEF Undisturbed, Present, Attended, Established, Fates, Fate, Routed, sending
  <2>8. Box!Show(i, n, k)
    BY <1>1, <1>3, <2>1, <2>5, <2>6, <2>7 DEF Box!Show, Fates, Routed
  <2> QED  BY <2>4, <2>8 DEF Box!Next
<1> QED
  BY <1>2, <1>3 DEF Receive, Push

LEMMA MailboxConnections ==
  ASSUME DeliveryInv, DeliveryInv', Connections, UNCHANGED sending
  PROVE  Box!Next
<1>1. ASSUME NEW s \in Conns, NEW f \in Msgs, Receive(s, f) PROVE Box!Next
  BY <1>1, MailboxShow
<1>2. ASSUME NEW k \in Conns, NEW u \in Users, NEW i \in Instances, Accept(k, u, i)
      PROVE  Box!Connect
  <2>1. userOf[k] = None
    BY <1>2 DEF Accept, Handle, DeliveryInv, IndInv, ConnectionInv, Known
  <2>2. \A o \in Conns : userOf[o] # None => userOf'[o] = userOf[o]
    BY <1>2, <2>1 DEF Accept, DeliveryInv, DeliveryTypeOK, TypeOK
  <2> QED
    BY <1>2, <2>2, MailboxConnect DEF Accept, messages
<1>3. ASSUME \/ \E k \in Conns :
                  \/ Close(k, "reader") \/ Close(k, "other")
                  \/ HandlerRun(k) \/ CloserRun(k) \/ ReaderRun(k) \/ Block(k)
                  \/ ReceiveError(k)
             \/ \E u \in Users : Expire(u)
      PROVE  Box!Connect
  <2>1. UNCHANGED <<identity, toId, pushed>>
    BY <1>3 DEF Close, HandlerRun, AddConn, Start, ConnectOnline, Subscribe, CloserRun,
         RemoveConn, CloseOffline, CloseOfflineError, Unsubscribe, UnsubscribeError,
         CloseSocket, ReaderRun, PongRead, PongSet, PongError, Block,
         ReceiveError, Expire, messages
  <2> QED
    BY <2>1, MailboxConnect DEF identity
<1> QED
  BY <1>1, <1>2, <1>3 DEF Connections, ReaderBlocks, Box!Next

\* A message that changes its stage changes its fate, and nothing else does.
LEMMA FateChanges ==
  ASSUME DeliveryTypeOK, NEW i \in Ids, NEW from, NEW next, Step(i, from, next)
  PROVE  /\ Fates[i] = Fate(i)
         /\ Fates' = [Fates EXCEPT ![i] = IF next \in InFlight THEN "sending" ELSE next]
  BY DEF DeliveryTypeOK, Fates, Fate, Step

\* SendMessage and clearUp publish frames, and settle a message once.
LEMMA MailboxSend ==
  ASSUME DeliveryInv, NEW i \in Ids,
         \/ \E h \in Instances, u \in Users : SendMessage(i, h, u)
         \/ SendRun(i) \/ ClearUp(i)
  PROVE  Box!Next \/ UNCHANGED Box!vars
<1> USE DeliveryAssumption, NamesAssumption DEF DeliveryInv
<1>1. ASSUME UNCHANGED vars
      PROVE  UNCHANGED <<Undisturbed, userOf, Present, Routed, pushed>>
  BY <1>1 DEF vars, identity, messages, Undisturbed, Present, Attended, Established, Routed
<1>2. ASSUME NEW h \in Instances, NEW u \in Users, SendMessage(i, h, u) PROVE Box!Send(i, u)
  <2>1. Fates[i] = "new" /\ Fates' = [Fates EXCEPT ![i] = "sending"]
    BY <1>2, FateChanges DEF SendMessage, Step, Fate, InFlight
  <2> QED
    BY <1>1, <1>2, <2>1 DEF SendMessage, Box!Send, Box!Set, Fates, Routed
<1>3. ASSUME RecipientOffline(i) PROVE Box!Skip(i)
  <2>1. Fates[i] = "sending" /\ Fates' = [Fates EXCEPT ![i] = "skipped"]
    BY <1>3, FateChanges DEF RecipientOffline, Step, Fate, InFlight
  <2>2. \A n \in 0 .. MaxRetry : <<i, n>> \notin Routed
    BY <1>3 DEF RecipientOffline, Step, Turns, Routed
  <2>3. Undisturbed => to[i] \notin Present
    BY <1>3 DEF RecipientOffline, Undisturbed, Present, Attended, Established, IndInv,
         RegisterInv, Stages
  <2> QED
    BY <1>1, <1>3, <2>1, <2>2, <2>3 DEF RecipientOffline, Box!Skip, Box!Set, Fates, Routed
<1>4. ASSUME RecipientOnline(i) \/ Pend(i) PROVE UNCHANGED Box!vars
  <2>1. UNCHANGED <<vars, to>>
    BY <1>4 DEF RecipientOnline, Pend
  <2>2. Fates' = Fates
    BY <1>4 DEF RecipientOnline, Pend, Step, Fates, Fate, InFlight, DeliveryTypeOK
  <2> QED
    BY <1>1, <2>1, <2>2 DEF Box!vars, Fates, Routed
<1>5. ASSUME NEW n \in 0 .. MaxRetry, Publish(<<i, n>>, to[i]), Fates[i] = "sending",
             Fates' = Fates, to' = to, to[i] \in Users
      PROVE  Box!Next \/ UNCHANGED Box!vars
  <2>1. CASE UNCHANGED vars
    BY <1>1, <1>5, <2>1 DEF Box!vars, Fates, Routed
  <2>2. CASE Route(<<i, n>>, to[i])
    <3>1. <<i, n>> \notin Routed /\ Routed' = Routed \union {<<i, n>>}
      BY <1>5, <2>2 DEF Route, Routed, IndInv, ConnectionInv, TypeOK
    <3>2. UNCHANGED <<Undisturbed, userOf, Present, pushed>>
      BY <2>2 DEF Route, identity, Undisturbed, Present, Attended, Established
    <3>3. Box!Publish(i, n)
      BY <1>5, <3>1, <3>2 DEF Box!Publish, Fates, Routed
    <3> QED  BY <3>3 DEF Box!Next
  <2> QED  BY <1>5, <2>1, <2>2 DEF Publish
<1>6. ASSUME RouteMessage(i) PROVE Box!Next \/ UNCHANGED Box!vars
  <2>1. Fates[i] = "sending" /\ Fates' = Fates
    BY <1>6 DEF RouteMessage, Step, Fates, Fate, InFlight, DeliveryTypeOK
  <2>2. to[i] \in Users /\ 0 \in 0 .. MaxRetry
    BY <1>6 DEF RouteMessage, Step, Turns
  <2> QED
    BY <1>5, <1>6, <2>1, <2>2 DEF RouteMessage
<1>7. ASSUME Retry(i) PROVE Box!Next \/ UNCHANGED Box!vars
  <2>1. Fates[i] = "sending" /\ Fates' = Fates
    BY <1>7 DEF Retry, Fates, Fate, InFlight
  <2>2. to[i] \in Users /\ resends[i] + 1 \in 0 .. MaxRetry
    BY <1>7 DEF Retry, Turns, DeliveryTypeOK
  <2> QED
    BY <1>5, <1>7, <2>1, <2>2 DEF Retry
<1>8. ASSUME GiveUp(i) PROVE Box!Fail(i)
  <2>1. Fates[i] = "sending" /\ Fates' = [Fates EXCEPT ![i] = "failed"]
    BY <1>8, FateChanges DEF GiveUp, Step, Fate, InFlight
  <2> QED
    BY <1>1, <1>8, <2>1 DEF GiveUp, Box!Fail, Box!Set, Fates, Routed
<1> QED
  BY <1>2, <1>3, <1>4, <1>6, <1>7, <1>8 DEF SendRun, ClearUp, Box!Next

\* What stops takes its connections and its pending messages along.
LEMMA MailboxLose ==
  ASSUME DeliveryInv, NEW h \in Instances, Restart(h)
  PROVE  Box!Next
<1> DEFINE mine == {i \in Ids : home[i] = h /\ stage[i] \in InFlight}
<1>1. \A i \in mine : Fates[i] = "sending"
  BY DEF Fates, Fate
<1>2. Fates' = [i \in Ids |-> IF i \in mine THEN "lost" ELSE Fates[i]]
  BY DEF Restart, Fates, Fate, InFlight
<1>3. Present' \in SUBSET Present
  BY DEF Restart, Stop, Present, Attended, Established, identity, DeliveryInv,
       DeliveryTypeOK, TypeOK
<1>4. UNCHANGED <<Undisturbed, userOf, to, Routed, pushed>>
  BY DEF Restart, Stop, identity, Undisturbed, Routed
<1>5. Box!Lose(mine)
  BY <1>1, <1>2, <1>3, <1>4 DEF Box!Lose, Fates, Routed
<1> QED
  BY <1>5 DEF Box!Next

LEMMA MailboxStep ==
  ASSUME DeliveryInv, DeliveryInv', [DeliveryNext]_allVars
  PROVE  Box!Next \/ UNCHANGED Box!vars
<1>1. ASSUME NEW i \in Ids, NEW k \in Conns, ClientAck(i, k) PROVE UNCHANGED Box!vars
  BY <1>1 DEF ClientAck, Box!vars, vars, identity, messages, Undisturbed, Present,
       Attended, Established, Fate
<1>2. CASE UNCHANGED allVars
  BY <1>2 DEF allVars, sending, Box!vars, vars, identity, messages, Undisturbed, Present,
       Attended, Established, Fate
<1> QED
  BY <1>1, <1>2, MailboxConnections, MailboxSend, MailboxLose DEF DeliveryNext

\* Users of several instances that share redis, whose connections move, whose
\* messages are retried and whose servers stop, see a mailbox: nothing is shown
\* to anybody but its addressee, ever, and a message is shown once per frame and
\* skipped only for the absent when clients are orderly and redis works.
THEOREM DeliveryImplementsMailbox == DeliverySpec => ImplementsMailbox
<1>1. DeliveryInv /\ DeliveryInv' /\ [DeliveryNext]_allVars => [Box!Next]_(Box!vars)
  BY MailboxStep
<1> QED
  BY DeliveryInductive, MailboxInit, <1>1, PTL DEF DeliverySpec, ImplementsMailbox, Box!Spec
=============================================================================
