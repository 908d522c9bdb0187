---------------------------- MODULE Conversation ----------------------------
(***************************************************************************)
(* The rows of table conversations that belong to one direct chat or one   *)
(* room: one row per owner.  SendMessage starts goroutines that run        *)
(* updateConversation (service/message.go) for each owner, while clients   *)
(* call /conversation/create and /conversation/open (api/conversation.go). *)
(* Each statement of store/conversation_db.go is one step: it is atomic in *)
(* the database, and the steps of different goroutines interleave.         *)
(*                                                                         *)
(* What a goroutine reads is only used to tell "no row" from "a row": the  *)
(* upsert overwrites the last message and adds to the unread count in the  *)
(* database.  LastMsgId is not stored, so that the test "防重入" of         *)
(* message.go:299 never finds the message it looks for.                    *)
(***************************************************************************)
EXTENDS Naturals, Sequences, FiniteSets

CONSTANTS
  Owners,      \* the two users of the chat, or the members of the room
  Msgs, Calls, \* messages; HTTP calls to create or open
  None         \* no message, no row, no owner

ASSUME ConversationAssumption ==
  /\ None \notin Msgs /\ None \notin Owners
  /\ None \notin [last : Msgs \union {None}, unread : Nat]
  /\ IsFiniteSet(Msgs) /\ IsFiniteSet(Owners)

VARIABLES
  isRoom,      \* whether the chat is a room
  storeFails,  \* whether statements may return an error in this behaviour
  row,         \* the row of each owner, or None
  sender,      \* who sent each message
  log,         \* messages in the order in which they were saved
  alone,       \* history: no message was saved while another's was under way
  sent,        \* how far SendMessage has come with each message
  job,         \* step of updateConversation for each message and owner
  call, callOwner,   \* step and user of each HTTP call
  notified     \* <<message, owner>>: ConversationUpdate frames routed

kind == <<isRoom, storeFails>>
vars == <<kind, row, sender, log, alone, sent, job, call, callOwner, notified>>

SentSteps == {"new", "saved", "started", "dropped"}
\* An update ends "done", or in "error"; in "lost" when its upsert was executed and
\* returned an error all the same.
Ends == {"done", "error", "lost"}
JobSteps == {"none", "waiting", "get", "create", "user", "upsert", "notify"} \union Ends
CallSteps == {"none", "get", "insert", "done"}

Init ==
  /\ isRoom \in BOOLEAN /\ storeFails \in BOOLEAN
  /\ row = [o \in Owners |-> None]
  /\ sender = [m \in Msgs |-> None]
  /\ log = <<>> /\ alone = TRUE
  /\ sent = [m \in Msgs |-> "new"]
  /\ job = [m \in Msgs |-> [o \in Owners |-> "none"]]
  /\ call = [c \in Calls |-> "none"]
  /\ callOwner = [c \in Calls |-> None]
  /\ notified = {}

\* Mutant: the unread count is overwritten, not increased.
InsertOrOverwrite(o, last, unread) ==
  row' = [row EXCEPT ![o] = [last |-> last, unread |-> unread]]

\* Mutant: the last message is left out of ON DUPLICATE KEY UPDATE.
InsertKeepingLast(o, last, unread) ==
  row' = [row EXCEPT ![o] =
    IF row[o] = None THEN [last |-> last, unread |-> unread]
                     ELSE [row[o] EXCEPT !.unread = @ + unread]]

\* InsertConversationSql: a new row, or the last message overwritten and the
\* unread count increased.
InsertOrUpdate(o, last, unread) ==
  row' = [row EXCEPT ![o] =
    IF row[o] = None THEN [last |-> last, unread |-> unread]
                     ELSE [last |-> last, unread |-> row[o].unread + unread]]

----------------------------------------------------------------------------
(* SendMessage saves the message, and later starts the updates: for a room *)
(* all members at once, for a direct message the sender and then the       *)
(* recipient, in one goroutine.                                            *)

Running(m, o) == job[m][o] \notin {"none"} \union Ends
UnderWay(m) == sent[m] = "saved" \/ \E o \in Owners : Running(m, o)

SendStep(m, from, to) == sent[m] = from /\ sent' = [sent EXCEPT ![m] = to]

Save(s, m) ==
  /\ SendStep(m, "new", "saved")
  /\ sender' = [sender EXCEPT ![m] = s]
  /\ log' = Append(log, m)
  /\ alone' = (alone /\ ~\E n \in Msgs : UnderWay(n))
  /\ UNCHANGED <<kind, row, job, call, callOwner, notified>>

\* The members that GetMembers leaves out when an error cuts its rows short have
\* no update.
StartUpdates(m) ==
  /\ SendStep(m, "saved", "started")
  /\ \E told \in SUBSET Owners :
       /\ told = Owners \/ (isRoom /\ storeFails)
       /\ job' = [job EXCEPT ![m] = [o \in Owners |->
            IF o \notin told THEN "error"
            ELSE IF isRoom \/ o = sender[m] THEN "get" ELSE "waiting"]]
  /\ UNCHANGED <<kind, row, sender, log, alone, call, callOwner, notified>>

\* The recipient is offline, or redis does not tell; GetMembers fails for a room.
DropUpdates(m) ==
  /\ ~isRoom \/ storeFails
  /\ SendStep(m, "saved", "dropped")
  /\ UNCHANGED <<kind, row, sender, log, alone, job, call, callOwner, notified>>

----------------------------------------------------------------------------
(* updateConversation.                                                     *)

\* Mutant: the recipient's job is not started.
FinishAlone(m, o, step) == job' = [job EXCEPT ![m][o] = step]

\* The job of owner o ends; the recipient's follows the sender's, whether
\* that one succeeded or not.
Finish(m, o, step) ==
  job' = [job EXCEPT ![m] = [p \in Owners |->
    IF p = o THEN step
    ELSE IF job[m][p] = "waiting" THEN "get" ELSE job[m][p]]]
Go(m, o, from, to) == job[m][o] = from /\ job' = [job EXCEPT ![m][o] = to]

GetConversation(m, o) ==
  /\ Go(m, o, "get", IF row[o] = None THEN "create" ELSE "user")
  /\ UNCHANGED <<kind, row, sender, log, alone, sent, call, callOwner, notified>>

CreateConversation(m, o) ==
  /\ Go(m, o, "create", "user")
  /\ InsertOrUpdate(o, None, 0)
  /\ UNCHANGED <<kind, sender, log, alone, sent, call, callOwner, notified>>

\* Mutant: the client is notified before the row is updated.
GetSenderAndNotify(m, o) ==
  /\ Go(m, o, "user", "notify")
  /\ UNCHANGED <<kind, row, sender, log, alone, sent, call, callOwner, notified>>

GetSender(m, o) ==
  /\ Go(m, o, "user", "upsert")
  /\ UNCHANGED <<kind, row, sender, log, alone, sent, call, callOwner, notified>>

UpdateConversation(m, o) ==
  /\ Go(m, o, "upsert", "notify")
  /\ InsertOrUpdate(o, m, IF o = sender[m] THEN 0 ELSE 1)
  /\ UNCHANGED <<kind, sender, log, alone, sent, call, callOwner, notified>>

Notify(m, o) ==
  /\ job[m][o] = "notify"
  /\ Finish(m, o, "done")
  /\ notified' = notified \union {<<m, o>>}
  /\ UNCHANGED <<kind, row, sender, log, alone, sent, call, callOwner>>

\* Any statement may fail before the database executes it; the error ends the
\* update and is dropped.
UpdateError(m, o) ==
  /\ storeFails
  /\ job[m][o] \in {"get", "create", "user", "upsert"}
  /\ Finish(m, o, "error")
  /\ UNCHANGED <<kind, row, sender, log, alone, sent, call, callOwner, notified>>

\* Or after that, when the connection is lost before the answer.
UpdateAnswerLost(m, o) ==
  /\ storeFails
  /\ \/ job[m][o] = "create" /\ InsertOrUpdate(o, None, 0) /\ Finish(m, o, "error")
     \/ /\ job[m][o] = "upsert"
        /\ InsertOrUpdate(o, m, IF o = sender[m] THEN 0 ELSE 1)
        /\ Finish(m, o, "lost")
  /\ UNCHANGED <<kind, sender, log, alone, sent, call, callOwner, notified>>

----------------------------------------------------------------------------
(* The HTTP handlers.                                                      *)

CallStep(c, from, to) == call[c] = from /\ call' = [call EXCEPT ![c] = to]

\* createConversationHandler inserts at once; openConversationHandler looks
\* for the row first.
StartCall(c, o, step) ==
  /\ CallStep(c, "none", step)
  /\ callOwner' = [callOwner EXCEPT ![c] = o]
  /\ UNCHANGED <<kind, row, sender, log, alone, sent, job, notified>>

CreateHandler(c, o) == StartCall(c, o, "insert")
OpenHandler(c, o) == StartCall(c, o, "get")

OpenGet(c) ==
  /\ CallStep(c, "get", IF row[callOwner[c]] = None THEN "insert" ELSE "done")
  /\ UNCHANGED <<kind, row, sender, log, alone, sent, job, callOwner, notified>>

CallInsert(c) ==
  /\ CallStep(c, "insert", "done")
  /\ InsertOrUpdate(callOwner[c], None, 0)
  /\ UNCHANGED <<kind, sender, log, alone, sent, job, callOwner, notified>>

CallError(c) ==
  /\ storeFails
  /\ call[c] \in {"get", "insert"}
  /\ call' = [call EXCEPT ![c] = "done"]
  /\ UNCHANGED <<kind, row, sender, log, alone, sent, job, callOwner, notified>>

----------------------------------------------------------------------------
JobRun(m, o) == \/ GetConversation(m, o) \/ CreateConversation(m, o)
                \/ GetSender(m, o) \/ UpdateConversation(m, o) \/ Notify(m, o)
                \/ UpdateError(m, o) \/ UpdateAnswerLost(m, o)
CallRun(c) == OpenGet(c) \/ CallInsert(c) \/ CallError(c)

Next ==
  \/ \E m \in Msgs : \/ StartUpdates(m) \/ DropUpdates(m)
                     \/ \E o \in Owners : Save(o, m) \/ JobRun(m, o)
  \/ \E c \in Calls : \/ CallRun(c)
                      \/ \E o \in Owners : CreateHandler(c, o) \/ OpenHandler(c, o)

Spec == Init /\ [][Next]_vars

----------------------------------------------------------------------------
TypeOK ==
  /\ isRoom \in BOOLEAN /\ storeFails \in BOOLEAN
  /\ \A o \in Owners : row[o] = None \/
       row[o] \in [last : Msgs \union {None}, unread : 0 .. Cardinality(Msgs)]
  /\ sender \in [Msgs -> Owners \union {None}]
  /\ log \in Seq(Msgs) /\ alone \in BOOLEAN /\ sent \in [Msgs -> SentSteps]
  /\ job \in [Msgs -> [Owners -> JobSteps]]
  /\ call \in [Calls -> CallSteps]
  /\ callOwner \in [Calls -> Owners \union {None}]
  /\ notified \subseteq Msgs \X Owners

Updated(m, o) == job[m][o] \in {"notify", "done", "lost"}

\* The unread count is the number of others' messages whose update was
\* executed, however updates, creations and errors interleave, and also when the
\* answer to it was lost: no increment is lost and none is doubled
\* (docs/notes/system-problems.md:96).
UnreadExact ==
  \A o \in Owners : row[o] # None =>
    row[o].unread = Cardinality({m \in Msgs : Updated(m, o) /\ sender[m] # o})

\* A client told to refresh a conversation reads a row that already counts the
\* message (message.go:315-328), whatever failed for the other owners: of the
\* messages a client was notified of, none is missing in its count.
NotifiedIsCounted ==
  \A o \in Owners :
    LET heard == {m \in Msgs : <<m, o>> \in notified}
        others == {m \in heard : sender[m] # o}
    IN heard # {} => row[o] # None /\ row[o].unread >= Cardinality(others)

\* In a direct chat the recipient's row follows the sender's: it is not touched
\* for a message while the sender's update still runs, and waits no longer than
\* that, also when that update fails (message.go:243-244).
RecipientFollows ==
  /\ ~isRoom => \A m \in Msgs, o \in Owners :
       (o # sender[m] /\ Updated(m, o)) => job[m][sender[m]] \in Ends
  /\ \A m \in Msgs, o \in Owners : job[m][o] = "waiting" => Running(m, sender[m])

\* Once nothing runs any more, a row shows the last message
\* (docs/conversation-api.md:26-27), as long as no message was saved while another
\* was under way, from its INSERT to the end of its updates, nothing failed, and
\* nobody used the handlers, which blank it.
LastIsLatest ==
  (/\ alone /\ log # <<>>
   /\ \A m \in Msgs : sent[m] \in {"new", "started"}
   /\ \A m \in Msgs, o \in Owners : job[m][o] \in {"none", "done"}
   /\ \A c \in Calls : call[c] = "none")
    => \A o \in Owners : row[o] # None /\ row[o].last = log[Len(log)]

----------------------------------------------------------------------------
(* The rows implement Unread: each statement, at the step at which the     *)
(* database executes it, is one of its actions or changes nothing it shows. *)

Chats == INSTANCE Unread WITH
           listed <- {o \in Owners : row[o] # None},
           unread <- [o \in Owners |-> IF row[o] = None THEN 0 ELSE row[o].unread],
           counted <- {p \in Msgs \X Owners : Updated(p[1], p[2])},
           told <- notified

\* However updates, calls and failures interleave, the owners see a list in
\* which a message is counted once, a number never falls, a chat never
\* disappears, and the client that is told to refresh finds the message
\* counted (message.go:289-328).
ImplementsUnread == Chats!Spec
=============================================================================
