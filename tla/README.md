# A verification project for aichat

aichat is a chat server in Go: clients keep a WebSocket to one of several
instances, messages are stored in MySQL, instances find each other's clients
through redis, and the rest (friends, rooms, conversations, history) is JSON
over HTTP. This directory holds TLA+ modules translated from that code, TLC
configurations that check them, and proofs for TLAPS.

    tlc -workers 2 -config MCPenderSafety.cfg MCMessagePender.tla
    tlapm MessagePenderProofs.tla

Each component's proofs are in the module of its name with `Proofs`.

`PROJECT.json` lists components, runs, the source lines of every definition,
the hazards and the disagreements found between code and documents.

## The system

| component | state | operations | what makes it correct |
|---|---|---|---|
| pending list, `service/message.go` 13-120 | `msgList`, its mutex, retry counts | `Pend`, `UnPend`, `clearUp` every tick, three callbacks | one outcome per message, bounded and spaced retries, every message settled |
| message service, `service/message.go` 122-269 | `messages` table, Sent/Ack/Failed frames | `SendMessage`, `sendGroupMessage`, `OnMsgAcked`, `OnMsgFailed`, `OnMsgRetry` | nothing sent that is not saved, no false Ack, the sender hears |
| frames, `gateway/ws/ws_server.go` `onMessage` | - | stamps MsgId, SendAt, FromId; calls `SendMessage` | an ACK names the message it is for |
| gateway, `gateway/`, `service/router/`, `store/user_redis.go` | map of connections per instance, map of subscriptions, `online:{user}` key with 60 s to live | accept, start, `onConnect`, `onPong`, `onClose`, `Subscribe`, `Unsubscribe`, `Route`, `RouteGroup`, `Push` | maps, key and subscriptions agree with the connections; nothing leaks; messages arrive |
| conversations, `updateConversation`, `service/conversation.go`, `api/conversation.go` | one row per user and chat | update per message, create, open | exact unread counts, the last message, notifications |
| paging, `api/message.go`, `api/relation.go`, `api/conversation.go`, `api/utils.go` | the client's cursor | four paged reads | a client that reads to the end has seen everything, once |
| delivery across instances, `main.go` wiring the two above, one pender and router per process | per message: where it was sent, how far it is | send, route, retry, give up, ACK, stop and start of an instance | whoever is connected gets the message, once per routing; nothing saved is forgotten |
| friends, `api/relation.go`, `store/relationship_db.go` | `friend_relationships`, `friend_requests` | create, rename, delete, check, request, accept, reject | friendship is mutual, a chosen name stays |
| rooms, `service/room.go`, `store/room_db.go` | `rooms`, `room_members` | create, add, remove, read for a message | the limit per user, the right recipients |
| users, `service/user.go`, `api/user.go`, `store/user_db.go`, `store/user_redis.go`, `middleware/jwt.go` | `users`, `user:{id}` hash with 24 h to live, tokens | register, log in, set the avatar, read a profile | one account per email, profiles shown as the table has them |
| COS, HTTP helpers, MySQL set-up, benchmarks | - | - | not modelled |

A frame goes from a connection's reader goroutine through `onMessage` into
`SendMessage`, all in that goroutine. `SendMessage` saves the message, answers
Sent, reads the recipient's online key, pends the message, starts a goroutine
that updates the two conversations, and routes the message through redis to the
instance that holds the recipient's connection. The recipient's ACK comes back
the same way and ends in `UnPend`. `clearUp` runs in one goroutine per process
and shares the pender's mutex with all readers. `onClose` runs in whichever
goroutine closes the connection first. Pongs, which keep the online key, are
handled in the reader's goroutine, too: a reader that waits for a mutex that
nobody releases lets its user's key expire while the connection stays.

What is hard here: the ACK against the time-out; retries from a snapshot taken
under the mutex and used after it; connections of one user that overlap, with
three registers (map, key, subscription) all keyed by user; readers that are
stuck, pongs in flight, subscriptions that end by themselves; statements that
fail halfway, or were executed though they failed; instances that stop with messages in flight; conversation updates that overtake
each other; checks separated from the writes they guard; time cursors with whole
seconds over rows whose time goes down. `hazards` in
`PROJECT.json` has all of them, each at its line.

## Modules

| module | models | how |
|---|---|---|
| `MessageOutcome` | what the pender promises | status of each message and number of resends; nothing of mutex, clock or lists |
| `MessagePender` | `defaultMessagePender` | `pc` of each caller, `cpc` of `clearUp`, `mx` the holder of the mutex. One action per critical-section access and per callback. Implements `MessageOutcome` (`ImplementsOutcome`) |
| `MessageService` | `SendMessage` and the callbacks | composes with the pender by `INSTANCE`: each step that calls it is a pender's action conjoined with the service's; `UsesPender` says that the whole still is a pender |
| `WsServer` | `onMessage` | extends `MessageService` with the MsgIds drawn |
| `Mailbox` | what the whole promises about direct messages | fate of each message, frames published, how often each was shown to whom; nothing of instances, registers or goroutines |
| `Gateway` | `handleWs`, `WsConn`, `ConnManager`, `RedisMsgRouter`, online key | per connection a handler, a `reader` (reading, in `onPong`, or stuck in `onMessage`) and a closer; per instance two maps, lost when its process ends (`Crash`); a subscription is named by the connection that made it and is live, ended by an error, or shut with its entry left in the map |
| `Delivery` | a direct message from `SendMessage` on one instance to a connection on another | extends `Gateway` with the stage of each message on its sender's instance; a message of `Gateway` is one routing of it (a frame), so that retries are told apart. `Restart` stops an instance at any step. `UsesGateway`: the whole is still a `Gateway`. Implements `Mailbox` (`ImplementsMailbox`) |
| `Unread` | what a conversation list promises its owners | messages counted, numbers shown, owners told; nothing of rows, statements or failures |
| `Conversation` | `updateConversation`, create and open handlers | one row per owner of one chat; `sent` says how far `SendMessage` is with each message; one action per statement, which may fail before or after it was executed. Implements `Unread` (`ImplementsUnread`) |
| `Paging` | the four endpoints that page by a time cursor | one client and one table with writers, which put any second into a row; `endpoint` chooses comparison and cursor; a page may be cut short |
| `Friends` | tables and handlers of friendship | one action per statement or transaction |
| `Rooms` | rooms, members, group targets | one action per statement; a SELECT may be cut short |
| `Users` | accounts, tokens, the cached profile | an attempt to register is named by the id it draws; one action per statement or redis command, which may have been executed though it failed |
| `MessagePenderProofs`, `MessageServiceProofs`, `GatewayProofs`, `ConversationProofs`, `PagingProofs`, `FriendsProofs`, `RoomsProofs`, `UsersProofs` | | the proofs about the module of that name; those of `Delivery` are in `GatewayProofs`, those of `WsServer` in `MessageServiceProofs` |

`MC*` modules add model values and symmetry only.

What differs between deployments, clients or days is a variable that `Init`
chooses and no step changes, so that one run sees all of it: `faults` in
`MessageService` (frames are lost, statements fail), `setting` in `Gateway`
(`orderly` clients or any; whether there are messages, `sends`; and `faults`: redis
fails on `keys`, on `channels`, or buffers are `full`), `isRoom` and
`storeFails` in `Conversation`, `endpoint` and `ties` in `Paging` (may two rows
have the same second), `direct` in `Friends` (are relations also created and
deleted without a request), `faults` in `Users` (of MySQL and redis).

Deviations from the code, all deliberate:

- The pender reads the clock once per scan; the code reads it once per message.
  Time is counted in units that divide the TTL and the retry interval.
- A ticker's channel holds one tick (`tick`), as Go's does.
- `UnPend` may be called with any id of `AckIds` at any time. Which ids a client
  can make it be called with is decided in `MessageService` (any message it has
  received) and in `WsServer` (a fresh one).
- Nobody sends a message to himself in `MessageService`: a user is the name of
  his reader goroutine there, and the two sides' inboxes are kept apart. A message
  to oneself is not modelled, nor a frame that has both a `to_id` and a `room_id`
  (`SendMessage` treats it as a group message); the client sends one or the other.
- Frames whose type only the server sends (Sent, Failed, Update) are not taken
  from clients.
- `Route` of `MessageService` delivers or loses a frame; how is in `Gateway`. A
  group message is saved and answered Sent, and no client receives it: the redis
  router looks for its ToId (`Gateway`'s `RouteGroup` and `Receive`).
- `Gateway` and `Delivery` have no clock for keys. The key lives 60 s, the writer
  pings every 54 s (`pingPeriod`), the read deadline is 60 s. `Expire` is hence
  possible when no reader of the user handles pongs, or when redis may fail on
  keys. This takes for granted that a client that stops answering is closed by
  the read deadline before its key has been missing for long, and that a reader
  that is not stuck handles a frame in less than the six seconds between ping
  period and time to live.
- A reader gets stuck in `Gateway` at any time (`Block`); in `Delivery` only on an
  instance whose pender's mutex is lost (`ReaderBlocks`).
- `Unsubscribe` of a subscription that go-redis has closed before returns an error
  as the failing one does; a subscription that was given an error on `Close` is
  closed nevertheless.
- `Receive` in `Gateway` takes `GetConn` and `Push` as one step: a push to a
  connection that was closed in between goes into a buffer nobody reads.
- `ConnManager.RouteGroup` is not reached with the redis router.
- MySQL executes one statement atomically, and rolls a transaction back as a
  whole: `Friends` accepts a request in one step, so that a failure between its
  three statements is assumed away, not checked. Rows written in one second come
  in any order.
- A result whose rows end with an error is a result that is shorter: `rows.Err()`
  is read nowhere (`room_db.go:104`, `user_db.go:136`, and the paged SELECTs).
- `Paging` has no clock: a row gets any second. The writers take it from
  `message.SendAt`, written by goroutines that overtake each other
  (`message.go:309`), or leave it 0 (`service/conversation.go:36`). Rows that are
  deleted while a client reads (`/relation/delete`) are left out. Writes after
  the last page are not followed.
- `Delivery` keeps of the pender what `MessageOutcome` says of a message: it is
  retried some times and then given up, at any moment. That the pender implements
  this is `ImplementsOutcome`, for one process. Saving does not fail in it
  (`MessageService` has that), connections are closed by their readers, or, when
  these are stuck, by their writers. The first ACK at an instance takes the mutex for
  good (`MCWsAck`, `MCPenderForced`); the next frame that needs it leaves its reader
  stuck (`ReaderBlocks`).
- A process that stops loses maps, goroutines and pending messages at once, and
  redis its subscriptions; it starts again with empty ones. Nothing pending is
  stored, so there is no recovery to model; the keys it leaves expire.
- Passwords and signatures are right or wrong: a password is that of one id, and
  a token cannot be made up. Of a profile there are the email, by which accounts
  are told apart, and the avatar, the one field that changes.

## What the runs check

All bounds are constants of the `.cfg`: sets of one to four model values, and
`MaxTime`, the last instant told apart. Where a property fails in a known case,
the case is written into the property as a condition, and a run that expects a
violation shows it, or it is listed below.

| run | instance | shows |
|---|---|---|
| `MCPenderSafety` | two callers, two messages, one clock unit per retry interval, two retries | `OneOutcome`, `AtMostOneLateRetry`, `RetrySpacing`, `FailureJustified`, `LostForGood`, and the refinement `ImplementsOutcome` |
| `MCPenderForced` | the same with a shorter clock, fair, ACKs for one of the messages | **violated** `ForcedCleanUp`: `UnPend` of an id that is not pending returns with the mutex locked, and no message is ever cleared again (`message.go:111`) |
| `MCService` | two users and a room, one message, any faults | `HeardIsStored`, `OneVerdict`, `SentBeforeVerdict`, `DeliveredWasReceived`, the refinement `UsesPender`, and `SenderHears`, `ReaderReturns`, `Settled` |
| `MCWsAck` | two users, no faults | **violated** `AckDelivers`: `onMessage` overwrites the MsgId of an ACK, so that a direct message its addressee acknowledged is never marked delivered (`ws_server.go:120`) |
| `MCGateway` | one user, two connections, two instances that may crash, one message; orderly clients with full buffers and messages, or any clients with redis failing on keys and channels | `MapsLive`, `Registered`, `SubscriptionsReleased`, `EventuallyOffline`, `OnlineAgain` |
| `MCGatewayReconnect` | one user, two connections, no faults, no messages | **violated** `OnlineWhileConnected`: the late `onClose` of an old connection takes the new one's key (`ws_server.go:93`) |
| `MCDelivery` | one addressee, two connections, two instances, one message with one retry; orderly clients, redis' channels and buffers failing or not | `ShownAtMost`, the refinements `ImplementsMailbox` and `UsesGateway`, and `Reaches`, `Accounted` |
| `MCConversation` | two owners, two messages, one HTTP call; chat or room, failing statements or not | `UnreadExact`, `RecipientFollows`, `LastIsLatest`, and the refinement `ImplementsUnread` |
| `MCPaging` | four rows, two to a page, three seconds; every endpoint, ties or not | `NoRepeat`, `Complete`, `PagingEnds` |
| `MCFriends` | two users | `Mutual`, `ChosenStays` |
| `MCRooms` | limit 1, two calls, two rooms, one message, a member without account | `NoStranger`, `EveryMember`, `QuotaOverrun` |
| `MCUsers` | two attempts, two emails, one avatar, one reader; MySQL and redis failing or not | `OneAccount`, `AnsweredHasAccount`, `ProfileTrue`, `WholeInTheEnd` |

### Why the instances are large enough

- Pender: two messages and two callers make every race of the code, which knows
  pairs only: two owners of one entry, and a holder of the mutex and a waiter.
  Two retries (the code has three) leave one between the first and the last; the
  TTL is longer than they take, as 30 s is longer than 3 x 5 s; `MaxTime` reaches
  beyond the expiry of the last message that may be sent.
- Service: the pender's races are checked above; here it is one message from
  `Save` to its verdict, with the two sides' goroutines and `clearUp`.
- Gateway: two connections of one user overlap in every way, on one instance or
  two; users share no entry of any register. Frames are published for orderly
  clients only (`PushesFindAddressee`, which is about any, is proved), and redis
  fails for the others only, whose properties survive it.
- Delivery: a sender's instance and another, a connection that ends and one that
  follows it, a first routing and a retry. Messages do not share any state but
  the mutex, whose loss is a condition of the properties.
- Users: an email is disputed by two attempts or by none; further ones only
  repeat that. One reader, since readers change nothing.
- Conversation: two updates race for one row, and a handler with both.
- Paging: two full pages and a last one, with a tie at the boundary. Three seconds
  are 0, which new conversations hold, one above and one below the cursor between
  them. `PagingInv` was also checked with four (1.6 million states).
- Friends: no statement involves a third user. Rooms: two calls are the smallest
  race; another room shows that members are told apart.

The safety properties of all these runs, the refinements included, are also
proved for any sets (below), so that only the liveness properties rest on the size
of the instances.

Deadlock is checked everywhere except in `MCConversation` and `MCPaging`, where
a behaviour ends when every message is processed or everything is read.

### Reading the properties

- `AtMostOneLateRetry` is as strong as the code allows: a retry may follow the
  ACK, because the snapshot is used after the mutex is released.
- `SenderHears`, `ReaderReturns` and `Settled` hold unless the mutex is lost
  (`P!Leaked`), which one ACK for an id that is not pending brings about.
- `LostForGood` says what a lost mutex means: the table never changes again. That
  it is lost by the early return of `UnPend` alone is `LostByUnPendOnly`.
- `DeliveredWasReceived` is about clients that acknowledge what they have received;
  the pender itself goes by the id and would take the ACK of anybody. Like
  `AckDelivers` it is about messages to a user: group messages have no ACK
  (`docs/notes/week06-ack.md:184`).
- `SentBeforeVerdict` is mostly the program order of `SendMessage`. `RetrySpacing` is
  about the interval of the code, five seconds.
- `Registered`, `SubscriptionsReleased`, `ShownAtMost` and `Reaches` are about
  orderly clients: those of a user connect one at a time and stay until
  `onConnect` is over, so that they say nothing of overlapping connections, of a
  connection closed before it is subscribed, and of a second `Subscribe`. For these
  there are `MapsLive` (no closed connection in the map, no subscription that was
  released), `PushedToAddressee` (nobody is shown what is for others),
  `OnlineAgain` and `EventuallyOffline`; key and subscriptions do go wrong.
- `MapsLive` with redis failing: the entry of a subscription whose goroutine ended on
  an error (`redis_router.go:50`), or whose `Close` failed, stays in the map, until
  the next `Subscribe` or `Unsubscribe` of the user. It is never that of another
  user or instance, and never one that `Unsubscribe` has released.
- Every property of the online key leaves out a connection whose reader is stuck
  (`Attended`): `Registered` for the key, `OnlineAgain`, `SkipsNobody`, the presence of
  `Mailbox`, and `Reaches`. Such a user is offline for good while his connection
  lasts, and messages to him are skipped; nothing in the code makes up for it.
- `OnlineAgain` is about any clients and a redis that fails now and then, not at
  every SET. `EventuallyOffline` is about a user who has left for good: a pong that
  was in flight may set his key once more after `onClose` deleted it
  (`ws_server.go:105`), and it expires.
- `ImplementsMailbox` makes its stronger promises (`exact`) for orderly clients and
  a redis that works: a frame is shown to one connection, once, and nobody who has an
  established connection, with a reader that is not stuck, is skipped as offline. For others it still says that a
  message is published `1 + MaxRetry` times at most, in no case after its fate is
  settled, and shown to connections of its addressee only.
- `Complete` leaves out rows of a second at which a page ended, since the lists read
  strictly below the cursor, and reads that an error cut short. The second 0 is one
  of these, too: all conversations made by create or open and without a message
  hold it, and once a page ends among them the rest is never listed.
- `NoRepeat` allows for one case, which the code does reach: a conversation that was
  shown goes down, by an overtaken goroutine or by `/conversation/create`, and is
  shown again.
- `PagingEnds` leaves out the client that returns the
  cookie `/message/fetch` gives it, and pages full of one second.
- `LastIsLatest` leaves out what overtakes (`alone`), fails, is dropped because the
  recipient is offline (`sent`), and the calls; `RecipientFollows` is the order of one
  goroutine. Neither catches an overtaking of messages, which the code allows.
- `EveryMember` says to whom a group message is published, not who receives it, and
  leaves out messages one of whose SELECTs was cut short (`cut`).
- `AnsweredHasAccount` is about attempts that reached the INSERT: one that the
  validation or bcrypt (a password of more than 72 bytes) refuses leaves none.
- `UnreadExact` counts an update that was executed, also when its answer was lost.
- `Reaches` starts from a connection that is established while a routing is
  still to come. A first frame that falls between key and subscription, or was
  sent to an instance that had stopped, is made up for by the retry. `stage[i] =
  "failed" /\ resends[i] < MaxRetry` is a message that expired before its last
  retry, which takes a `clearUp` that comes seconds too late.
- `Accounted` leaves out the messages of an instance that stopped, or that lost
  its pender's mutex, for which the code has nothing. The ACK of a message sent from another instance ends in the
  pender of the recipient's instance, so that an ACK that kept its MsgId would
  still find nothing there, and would still take that mutex. With redis failing it
  includes frames published while the subscription of the addressee had ended.
- `WholeInTheEnd` is about registrations answered OK. One answered with an error
  after HSET may leave a hash without time to live, hence a profile that has no
  avatar for good.

### Disagreements without a run of their own

They are visible as the conditions above:

- a connection that dies before `onConnect` leaves a subscription
  (`ws_conn.go:77`; `setting.orderly`);
- conversations are not updated for a recipient who is offline (`message.go:231`
  against `docs/conversation-api.md:156`; `DropUpdates`);
- an older message may become the last one (`message.go:242`; `alone`), and
  `/conversation/create` on an existing row blanks its last message and its time,
  so that a client that pages through the list meets a row twice (`lowered`);
- a reader that waits for a lost mutex handles no pong, and its connected user is
  offline (`ws_conn.go:108` against
  `docs/notes/week07-online-status-history.md:182`; `Attended`);
- the interval of retries is 5 s (`message.go:145`), not the 10 s of
  `docs/notes/week06-ack.md:78`, `135` and `225`;
- members are missed, and lists end early, when an error cuts a result short
  (`room_db.go:104`; `cut`, `broken`);
- a row that shares its second with the last of a page is never listed
  (`conversation_db.go:28` against `docs/conversation-api.md:142`; `ties`);
- `/message/fetch` returns the cookie it was called with until the last page
  (`api/message.go:69`; `endpoint = "message"`);
- a group message has no ToId, by which the subscriber's goroutine routes, so
  that no member receives it (`redis_router.go:58` against
  `docs/notes/week05-groupchat.md:193`; `Receive` in `Gateway`);
- accepting a request updates the row of the wrong direction, so that the
  request stays pending (`relationship_db.go:170` against the comment at line
  169), and writes the requesting user's name into both rows of the friendship;
- `UpdateAvatarUrl` leaves the cached profile alone, which
  `docs/adr/001-redis-hash-for-user.md:16` asks to update or delete; until it
  expires a reader gets a profile with no avatar, and with `IsValid` and `Sex`
  false, because redis holds "1" where `GetUser` looks for "true"
  (`user_redis.go:192`);
- the limit of rooms per user is checked before the INSERT, by another statement
  (`service/room.go:34` against `service/room.go:10`; `QuotaOverrun`).

## Fairness

- Goroutines that can run do run (weak fairness per goroutine). Goroutines that
  wait for the pender's mutex get it if it is free again and again (strong
  fairness): a Go mutex hands over to a waiter of more than 1 ms.
- Time passes; `clearUp`'s ticker ticks.
- In `Gateway`, the pongs of a connected client come, as long as its reader is not
  stuck (the writer pings every 54 s, and a client that does not answer is closed
  by the read deadline: weak fairness of the reader), not every SET that a pong
  leads to fails (strong fairness of `PongSet`), keys that nobody refreshes
  expire, and subscribed messages are received. No fairness for connecting,
  leaving, crashing, sending, getting stuck or errors.
- In `Delivery`, besides, `SendMessage` goes on once it was called and `clearUp`
  comes to a pending message again and again. None for ACKs and restarts.
- In `Users`, keys with a time to live expire.
- In `Paging`, the client reads on. `Conversation`, `Friends` and `Rooms` have
  safety properties only.

Nothing else is assumed; no client has to acknowledge.

## What is proved

Every safety property of a passing run is a theorem, for any sets of users,
messages, connections, instances, rows or calls, and any options and bounds.
The assumptions are the `ASSUME`s of the modules: names of "nothing" are not
names of something, numbers are naturals, and what is counted is finite; TLC
evaluates them in every run.

| module | inductive invariant | properties |
|---|---|---|
| `MessagePenderProofs` | `IndInv` | `TypeOK`, `OneOutcome`, `RetryBound`, `AtMostOneLateRetry`; the action properties `RetrySpacing`, `NoRetryAfterFailure`, `FailureJustified`, `LostForGood`, `LostByUnPendOnly`; the refinement `ImplementsOutcome` |
| `MessageServiceProofs` | `ServiceInv`; `WsInv` | `TypeOK`; the refinement `UsesPender`; `HeardIsStored`, `OneVerdict`, `SentBeforeVerdict`, `DeliveredWasReceived`; of `WsServer` the refinements `UsesPender` and `ImplementsOutcome`, `NothingDelivered` and the action property `AckLosesMutex` |
| `GatewayProofs` | `IndInv`; `DeliveryInv` | `MapsLive`, `Registered`, `PushedOnce`, `PushedToAddressee`, `SubscriptionsReleased`; the action properties `NoneFallsThrough`, `NoRevival`; of `Delivery` the refinements `UsesGateway` and `ImplementsMailbox`, `ShownAtMost` and the action property `SkipsNobody` |
| `ConversationProofs` | `ConvInv` | `UnreadExact`, `NotifiedIsCounted`, `RecipientFollows`, `LastIsLatest`; the refinement `ImplementsUnread` |
| `PagingProofs` | `PagingInv` | `Complete`, `NoRepeat`; the action property `CursorFalls` |
| `FriendsProofs` | `TypeOK` and `Mutual` | `Mutual`; the action property `ChosenStays` |
| `RoomsProofs` | `RoomsInv` | `QuotaOverrun`, `NoStranger`, `EveryMember` |
| `UsersProofs` | `UsersInv` | `OneAccount`, `AnsweredHasAccount`; `CopyIsTemporary`; the action property `ProfileTrue` |

Some of these are stated in no run, because a property of a run implies them or
because they only prepare the liveness below: `TypeOK`, `RetryBound`,
`NoRetryAfterFailure`, `LostByUnPendOnly`, `NothingDelivered`, `AckLosesMutex`,
`PushedOnce`, `PushedToAddressee`, `NoneFallsThrough`, `NoRevival`, `SkipsNobody`,
`NotifiedIsCounted`, `CursorFalls`, `CopyIsTemporary`. TLC found each of them true
on the instances of the runs before it was proved.

The arguments:

- **Pender.** `OneOutcome` needs to know that a message is in one place at a
  time. `IndInv` says so (`PlaceInv`: about to be pended, in the map, taken by an
  ACK, in `toFail`, or settled), that whoever is in a critical section holds the
  mutex (`MutexInv`; the converse is false, because `UnPend` can leak it), that
  what is not settled has no outcome (`OutcomeInv`), and what is still true of
  the snapshots when the callbacks run (`SnapshotInv`), which is what bounds and
  spaces the retries. That a lost mutex freezes the table follows from `MutexInv`:
  its holder is in no critical section, hence nobody is, and only there the table
  changes.
- **Service.** Every step is one of the pender's or leaves its variables alone
  (`PenderStep`), so the pender's invariant, instantiated from
  `MessagePenderProofs`, holds in the service. `Readers` ties each reader's place
  in `SendMessage` to the pender's `pc`, `arg` and outcome; `Verdicts` ties rows,
  message objects and frames to the outcome. `OneVerdict` is then the pender's
  `OneOutcome`. `DeliveredWasReceived` needs that a reader which handles an ACK is that
  of a recipient, and that only messages to one user are pended (`Received`): the
  pender does not look at who acknowledges.
- **Frames.** `AckIsFresh`: the MsgId under which an ACK is handled was drawn for it,
  so that no message has it and the pender's table does not either. Hence
  `UnPend` never finds it, which is `NothingDelivered` and, as it then returns with
  the mutex, `AckLosesMutex`. The server implements `MessageOutcome` all the same: what
  is acknowledged in it is, for the pender, a message that fails or stays pending.
- **Gateway.** For any client: a connection is closed only after it was put in
  the map, and is in the maps only after it was put there (`Known`). For orderly
  clients: only one of a user's connections is not gone (`OneAtATime`), hence
  nobody else's close hits what it has in the registers (`Stages`), and a
  message waits at one subscription only (`Waiting`). The key is in `Stages` only for
  a reader that is not stuck: `Expire` needs that all readers of the user are, and
  an established connection's reader is there. The end of a process keeps
  all of it, because it empties both maps and ends their connections together.
  `PushedToAddressee` holds for any client, since `NoZombie` says whose connection
  the map holds, and neither a connection nor a message changes its user.
- **Delivery.** Every step is one of `Gateway` or leaves its variables alone
  (`DeliveryNextInv`), hence `IndInv`. `Turns` says that a frame is published
  only after the one before it, so that `PushedOnce`, which is about one frame,
  bounds the pushes of a message by its routings; `Registered` gives
  `SkipsNobody`, since an established connection that is not stuck has its key. In the refinement
  of `Mailbox` a step of the sender moves one message, `Receive` is `Show` or
  a stutter (`Waiting`: who is shown a frame for the first time; `NoZombie`: whose the
  connection is), a restart is `Lose`, and every other step of the gateway is
  `Connect`, of which `Turns` says that it publishes nothing.
- **Conversation.** The upsert adds to the row what the set of executed updates
  gains (`Counting`); a job that has seen the row leaves it there, so that the
  first insert counts from zero. `Latest`: as long as nothing overlapped, only
  the last message is between its INSERT and the end of its updates. In the
  refinement of `Unread` saving is `Send`, the insert of a row that was not there
  `List`, the update of a job `Count`, its answer lost or not, its notification `Tell`; that they count to the number in the row is the invariant.
- **Paging.** Everything that stood there and is not older than the cursor has
  been read, or shares a second with the end of a page (`ReadDownTo`), as long as
  no page was cut short; in the lists nothing that has been read is older than the
  cursor, unless its second went down since (`ReadNothingBelow`).
- **Rooms.** A call that passed the check found less than the limit, and calls in
  progress are no more than the calls there are; inserting trades one for the
  other. While a message is being sent, its room's members lie between
  `throughout` and `during` (`SendInv`), above only if neither SELECT was cut.
- **Users.** A row comes before its hash and its hash before the time to live,
  and what is created or has a token is a row (`AccountInv`). A profile can then
  be denied only after the table was looked into, and the email of an attempt
  that failed at its INSERT is taken by a row that never goes.

`MessagePender`'s and `Gateway`'s `IndInv`, `DeliveryInv`, `PagingInv` and
`UsersInv` were also checked with TLC on the instances of the runs; the runs list
what follows from them.

Only model-checked: all liveness (`ENABLED` and fairness are out of the provers'
reach), that is `SenderHears`, `ReaderReturns`, `Settled`, `EventuallyOffline`,
`OnlineAgain`, `Reaches`, `Accounted`, `WholeInTheEnd` and `PagingEnds`. What steps
can do for or against four of them is safety, and proved:

- `PagingEnds`: every page but the last moves the cursor down (`CursorFalls`), and it is
  a natural number. With pages of one message a channel's own cursor may stand still,
  because the history reads to the cursor inclusively.
- `EventuallyOffline`: when a user's connections are gone, his key is set only by
  pongs that were in flight, each once, and none begins (`NoRevival`), so that only
  its expiry is left to happen.
- `Reaches`: what is published waits at the subscription of an established connection
  and leaves it only into its buffer (`NoneFallsThrough`).
- `WholeInTheEnd`: the hash of a registration answered OK has a time to live and is
  not filled again (`CopyIsTemporary`).

No module uses a RECURSIVE operator.

## Not modelled

- The image store (`store/cos/cos.go`) signs a URL and keeps nothing; clients talk
  to the service itself.
- `api/server.go`, `api/response.go`, `service/error.go` and `store/mysql.go` format
  answers and open connections. The schema they create is in the tables of the
  models, as the keys that make an INSERT fail.
- Frames whose type only servers send (`WsServer` is `partly` for that), and reads
  that change nothing and that no other step depends on: the list of users, the
  avatar alone, the members of a room page by page.
- `LoginByPassword`, `SaveJwt`, `GetJwt`, `RemoveJwt`, `DeleteUser`,
  `GetMemberPaged` and `GetPendingFriendRequests` are called by no handler or do
  nothing. (The last passes its arguments to a statement that takes others in
  their place.)
- What SQL, redis and Go do inside one statement, command or channel operation.

## Plan

1. Group messages in `Delivery`: the members that are read (`Rooms`) and the frames
   that reach them, once the subscriber routes by its own user.
2. `Delivery` with an ACK that keeps its MsgId and is handed to the sender's
   instance, to check that these and an unlock are all that `AckDelivers` and
   `ForcedCleanUp` lack.
3. Abstract friendships and memberships (a symmetric relation; a set that a group
   message is sent to) that `Friends` and `Rooms` implement.
