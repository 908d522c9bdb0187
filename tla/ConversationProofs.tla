-------------------------- MODULE ConversationProofs --------------------------
(***************************************************************************)
(* Proofs about Conversation, for any finite sets of owners and messages    *)
(* and any calls: counting, order, and the last message.                    *)
(***************************************************************************)
EXTENDS Conversation, FiniteSetTheorems, TLAPS

Others(o) == {m \in Msgs : Updated(m, o) /\ sender[m] # o}

\* The types without the bound on the unread counts, which the counting gives.
Types ==
  /\ isRoom \in BOOLEAN /\ storeFails \in BOOLEAN /\ alone \in BOOLEAN
  /\ row \in [Owners -> [last : Msgs \union {None}, unread : Nat] \union {None}]
  /\ sender \in [Msgs -> Owners \union {None}]
  /\ log \in Seq(Msgs)
  /\ job \in [Msgs -> [Owners -> JobSteps]]
  /\ call \in [Calls -> CallSteps]
  /\ callOwner \in [Calls -> Owners \union {None}]
  /\ \A c \in Calls : call[c] \in {"get", "insert"} => callOwner[c] \in Owners
  /\ sent \in [Msgs -> SentSteps]
  /\ \A m \in Msgs : sent[m] = "new" <=> sender[m] = None
  /\ \A m \in Msgs, o \in Owners : sent[m] # "started" => job[m][o] = "none"

\* A job that has seen the row, or made it, leaves it there; who is notified
\* has been updated.
Counting ==
  /\ \A m \in Msgs, o \in Owners :
       job[m][o] \in {"user", "upsert", "notify", "done", "lost"} => row[o] # None
  /\ \A o \in Owners : row[o] # None => row[o].unread = Cardinality(Others(o))
  /\ \A m \in Msgs, o \in Owners : <<m, o>> \in notified => job[m][o] = "done"

\* In a direct chat, others begin when the sender's update is over, and wait
\* only for it.
Order ==
  \A m \in Msgs, o \in Owners :
    /\ ~isRoom /\ o # sender[m] /\ job[m][o] \notin {"none", "waiting"}
         => job[m][sender[m]] \in Ends
    /\ job[m][o] = "waiting" => ~isRoom /\ o # sender[m] /\ Running(m, sender[m])

\* As long as nothing has disturbed it, only the last message is being
\* processed, and where it was processed it is shown.
Calm == /\ alone
        /\ \A m \in Msgs : sent[m] # "dropped"
        /\ \A m \in Msgs, o \in Owners : job[m][o] \notin {"error", "lost"}
        /\ \A c \in Calls : call[c] = "none"
Latest ==
  /\ log = <<>> => \A m \in Msgs : sender[m] = None
  /\ log # <<>> => sender[log[Len(log)]] # None
  /\ Calm /\ log # <<>> =>
       /\ \A m \in Msgs : m # log[Len(log)] => ~UnderWay(m)
       /\ \A o \in Owners :
            /\ sent[log[Len(log)]] = "started" => job[log[Len(log)]][o] # "none"
            /\ job[log[Len(log)]][o] \in {"notify", "done"} => row[o].last = log[Len(log)]

ConvInv == Types /\ Counting /\ Order /\ Latest

----------------------------------------------------------------------------
(* The steps.                                                              *)

LEMMA InitInv == Init => ConvInv
<1> USE ConversationAssumption
<1>1. ASSUME Init PROVE Types /\ Counting /\ Order /\ Latest
  BY <1>1 DEF Init, Types, Counting, Order, Latest, Calm, JobSteps, CallSteps, SentSteps, Ends, Running, UnderWay
<1> QED
  BY <1>1 DEF ConvInv

\* The upsert leaves a row whose count is that of the updates executed, and n
\* more.
LEMMA InsertCounts ==
  ASSUME ConvInv, NEW o \in Owners, NEW last \in Msgs \union {None}, NEW n \in Nat,
         InsertOrUpdate(o, last, n)
  PROVE  /\ Cardinality(Others(o)) \in Nat
         /\ row' = [row EXCEPT ![o] = [last |-> last, unread |-> Cardinality(Others(o)) + n]]
<1> USE ConversationAssumption DEF ConvInv
<1>1. IsFiniteSet(Others(o))
  BY FS_Subset DEF Others
<1>2. Cardinality(Others(o)) \in Nat
  BY <1>1, FS_CardinalityType
<1>3. CASE row[o] = None
  <2>1. Others(o) = {}
    BY <1>3 DEF Others, Updated, Counting
  <2>2. Cardinality(Others(o)) + n = n
    BY <2>1, FS_EmptySet
  <2> QED
    BY <1>2, <1>3, <2>2 DEF InsertOrUpdate
<1>4. CASE row[o] # None
  BY <1>2, <1>4 DEF InsertOrUpdate, Counting
<1> QED
  BY <1>2, <1>3, <1>4

\* A message that is saved has no jobs yet; it is the last one.
LEMMA SaveInv ==
  ASSUME ConvInv, NEW m \in Msgs, NEW o \in Owners, Save(o, m)
  PROVE  ConvInv'
<1> USE ConversationAssumption DEF ConvInv, kind
<1>1. Types'
  BY DEF Save, SendStep, Types, SentSteps
<1>2. \A p \in Owners : Others(p)' = Others(p)
  BY DEF Save, SendStep, Types, Updated, Others
<1>3. Counting' /\ Order'
  <2>1. Counting'
    BY <1>2 DEF Save, Counting
  <2>2. Order'
    BY DEF Save, SendStep, Types, Order, Running
  <2> QED  BY <2>1, <2>2
<1>4. log' # <<>> /\ log'[Len(log')] = m
  <2>1. log \in Seq(Msgs) /\ log' = Append(log, m)
    BY DEF Save, Types
  <2> QED  BY <2>1
<1>5. Calm' => \A n \in Msgs : ~UnderWay(n)
  BY DEF Save, Calm
<1>6. \A n \in Msgs : n # m => (UnderWay(n)' <=> UnderWay(n))
  BY DEF Save, SendStep, Types, UnderWay, Running
<1>7. sender'[m] # None /\ sent'[m] = "saved" /\ \A p \in Owners : job'[m][p] = "none"
  BY DEF Save, SendStep, Types
<1>8. Latest'
  BY <1>4, <1>5, <1>6, <1>7 DEF Latest
<1> QED
  BY <1>1, <1>3, <1>8

\* The updates start before they touch a row.
LEMMA StartInv ==
  ASSUME ConvInv, NEW m \in Msgs, StartUpdates(m)
  PROVE  ConvInv'
<1> USE ConversationAssumption DEF ConvInv, kind
<1>1. PICK told \in SUBSET Owners :
        /\ told = Owners \/ (isRoom /\ storeFails)
        /\ job' = [job EXCEPT ![m] = [o \in Owners |->
             IF o \notin told THEN "error"
             ELSE IF isRoom \/ o = sender[m] THEN "get" ELSE "waiting"]]
  BY DEF StartUpdates
<1>2. /\ sent[m] = "saved" /\ sent' = [sent EXCEPT ![m] = "started"]
      /\ UNCHANGED <<isRoom, storeFails, row, sender, log, alone, call, callOwner, notified>>
  BY DEF StartUpdates, SendStep
<1>3. /\ \A n \in Msgs, p \in Owners : n # m => job'[n][p] = job[n][p]
      /\ \A p \in Owners : job[m][p] = "none" /\ job'[m][p] \in {"error", "get", "waiting"}
      /\ \A p \in Owners : job'[m][p] = "error" => isRoom
      /\ \A p \in Owners : job'[m][p] = "waiting" => ~isRoom /\ p # sender[m]
      /\ ~isRoom => \A p \in Owners : job'[m][p] = IF p = sender[m] THEN "get" ELSE "waiting"
  BY <1>1, <1>2 DEF Types
<1>4. sender[m] \in Owners
  BY <1>2 DEF Types
<1>5. Types'
  <2>1. job' \in [Msgs -> [Owners -> JobSteps]]
    BY <1>1 DEF Types, JobSteps, Ends
  <2>2. sent' \in [Msgs -> SentSteps] /\ \A n \in Msgs : sent'[n] = "new" <=> sent[n] = "new"
    BY <1>2 DEF Types, SentSteps
  <2>3. \A n \in Msgs, p \in Owners : sent'[n] # "started" => job'[n][p] = "none"
    BY <1>2, <1>3 DEF Types
  <2> QED  BY <1>2, <2>1, <2>2, <2>3 DEF Types
<1>6. \A n \in Msgs, p \in Owners : Updated(n, p)' <=> Updated(n, p)
  BY <1>3 DEF Updated
<1>7. \A p \in Owners : Others(p)' = Others(p)
  BY <1>2, <1>6 DEF Others
<1>8. Counting'
  BY <1>2, <1>3, <1>7 DEF Counting
<1>9. Order'
  <2>1. ASSUME NEW n \in Msgs, n # m, sender[n] \in Owners
        PROVE  job'[n][sender[n]] = job[n][sender[n]]
    BY <1>3, <2>1
  <2>2. \A n \in Msgs, p \in Owners : sender[n] \notin Owners => job[n][p] = "none"
    BY DEF Types
  <2>3. job'[m][sender[m]] \in {"error", "get"}
    BY <1>3, <1>4
  <2>4. ASSUME NEW n \in Msgs, NEW p \in Owners, n # m
        PROVE  /\ ~isRoom /\ p # sender[n] /\ job'[n][p] \notin {"none", "waiting"}
                    => job'[n][sender[n]] \in Ends
               /\ job'[n][p] = "waiting" =>
                    ~isRoom /\ p # sender[n] /\ job'[n][sender[n]] \notin {"none"} \union Ends
    BY <1>3, <2>1, <2>2, <2>4 DEF Order, Running
  <2>5. ASSUME NEW p \in Owners
        PROVE  /\ ~isRoom /\ p # sender[m] /\ job'[m][p] \notin {"none", "waiting"}
                    => job'[m][sender[m]] \in Ends
               /\ job'[m][p] = "waiting" =>
                    ~isRoom /\ p # sender[m] /\ job'[m][sender[m]] \notin {"none"} \union Ends
    BY <1>3, <1>4 DEF Ends
  <2> QED  BY <1>2, <2>4, <2>5 DEF Order, Running
<1>10. Latest'
  <2>1. ASSUME Calm', log # <<>>
        PROVE  m = log[Len(log)] /\ Calm
    <3>1. Calm
      BY <1>2, <1>3, <2>1 DEF Calm
    <3> QED  BY <1>2, <2>1, <3>1 DEF Latest, UnderWay
  <2>2. \A n \in Msgs : n # m => (UnderWay(n)' <=> UnderWay(n))
    <3>1. \A n \in Msgs : n # m => sent'[n] = sent[n]
      BY <1>2 DEF Types
    <3> QED  BY <1>3, <3>1 DEF UnderWay, Running
  <2> QED  BY <1>2, <1>3, <2>1, <2>2 DEF Latest
<1> QED
  BY <1>5, <1>8, <1>9, <1>10

\* Or never.
LEMMA DropInv ==
  ASSUME ConvInv, NEW m \in Msgs, DropUpdates(m)
  PROVE  ConvInv'
<1> USE ConversationAssumption DEF ConvInv, kind
<1>1. Types'
  BY DEF DropUpdates, SendStep, Types, SentSteps
<1>2. \A p \in Owners : Others(p)' = Others(p)
  BY DEF DropUpdates, Updated, Others
<1>3. Counting' /\ Order'
  BY <1>2 DEF DropUpdates, Counting, Order, Running
<1>4. ~Calm'
  BY DEF DropUpdates, SendStep, Types, Calm
<1>5. Latest'
  BY <1>4 DEF DropUpdates, Latest
<1> QED
  BY <1>1, <1>3, <1>5

\* The upsert increases the count by the one that it executes, whether its
\* answer arrives or not.
LEMMA UpdateInv ==
  ASSUME ConvInv, NEW m \in Msgs, NEW o \in Owners,
         UpdateConversation(m, o) \/ (UpdateAnswerLost(m, o) /\ job[m][o] = "upsert")
  PROVE  ConvInv'
<1> USE ConversationAssumption DEF ConvInv, kind
<1> DEFINE n == IF o = sender[m] THEN 0 ELSE 1
<1>1. /\ job[m][o] = "upsert" /\ InsertOrUpdate(o, m, n)
      /\ Go(m, o, "upsert", "notify") \/ Finish(m, o, "lost")
      /\ UNCHANGED <<isRoom, storeFails, sender, log, alone, sent, call, callOwner, notified>>
  BY DEF UpdateConversation, UpdateAnswerLost, Go
<1>2. row' = [row EXCEPT ![o] = [last |-> m, unread |-> Cardinality(Others(o)) + n]]
      /\ Cardinality(Others(o)) \in Nat
  BY <1>1, InsertCounts
<1>3. /\ job'[m][o] \in {"notify", "lost"}
      /\ \A q \in Msgs, p \in Owners : q # m => job'[q][p] = job[q][p]
      /\ \A p \in Owners : p # o => job'[m][p] = job[m][p]
                                  \/ (job[m][p] = "waiting" /\ job'[m][p] = "get" /\ job'[m][o] = "lost")
      /\ job' \in [Msgs -> [Owners -> JobSteps]]
  <2>1. CASE Go(m, o, "upsert", "notify")
    BY <2>1 DEF Go, Types, JobSteps
  <2>2. CASE Finish(m, o, "lost")
    BY <2>2 DEF Finish, Types, JobSteps, Ends
  <2> QED  BY <1>1, <2>1, <2>2
<1>4. Types'
  <2>1. row' \in [Owners -> [last : Msgs \union {None}, unread : Nat] \union {None}]
    BY <1>2 DEF Types
  <2>2. \A q \in Msgs, p \in Owners : sent[q] # "started" => job'[q][p] = "none"
    BY <1>1, <1>3 DEF Types
  <2> QED  BY <1>1, <1>3, <2>1, <2>2 DEF Types
<1>5. \A q \in Msgs, p \in Owners : Updated(q, p)' <=> Updated(q, p) \/ (q = m /\ p = o)
  BY <1>3 DEF Updated
<1>6. \A p \in Owners : p # o => Others(p)' = Others(p)
  BY <1>1, <1>5 DEF Others
<1>7. Cardinality(Others(o)') = Cardinality(Others(o)) + n
  <2>1. IsFiniteSet(Others(o))
    BY FS_Subset DEF Others
  <2>2. CASE o = sender[m]
    <3>1. Others(o)' = Others(o)
      BY <1>1, <1>5, <2>2 DEF Others
    <3> QED  BY <1>2, <2>2, <3>1
  <2>3. CASE o # sender[m]
    <3>1. Others(o)' = Others(o) \union {m} /\ m \notin Others(o)
      BY <1>1, <1>5, <2>3 DEF Others, Updated
    <3> QED  BY <2>1, <2>3, <3>1, FS_AddElement
  <2> QED  BY <2>2, <2>3
<1>8. Counting'
  <2>1. \A p \in Owners : row'[p] # None => row'[p].unread = Cardinality(Others(p)')
    BY <1>2, <1>6, <1>7 DEF Types, Counting
  <2>2. \A p \in Owners : row[p] # None \/ p = o => row'[p] # None
    BY <1>2 DEF Types
  <2> QED  BY <1>1, <1>3, <2>1, <2>2 DEF Counting
<1>9. Order'
  <2>1. CASE job'[m][o] = "notify"
    <3>1. job' = [job EXCEPT ![m][o] = "notify"]
      BY <1>1, <2>1 DEF Go, Finish, Types
    <3> QED  BY <1>1, <3>1 DEF Types, Order, Running, Ends
  <2>2. CASE job'[m][o] = "lost"
    <3>1. Finish(m, o, "lost")
      BY <1>1, <2>2 DEF Go, Types
    <3>2. \A p \in Owners : job'[m][p] = IF p = o THEN "lost" ELSE
            IF job[m][p] = "waiting" THEN "get" ELSE job[m][p]
      BY <3>1 DEF Finish, Types
    <3>3. \A p \in Owners : job[m][p] = "waiting" => o = sender[m]
      BY <1>1 DEF Order, Running, Ends
    <3>4. \A q \in Msgs, p \in Owners : q # m => (Running(q, p)' <=> Running(q, p))
      BY <1>3 DEF Running
    <3>5. \A q \in Msgs, p \in Owners : sender[q] \notin Owners => job[q][p] = "none"
      BY DEF Types
    <3>6. ASSUME NEW q \in Msgs, NEW p \in Owners, q # m
          PROVE  /\ ~isRoom /\ p # sender[q] /\ job'[q][p] \notin {"none", "waiting"}
                      => job'[q][sender[q]] \in Ends
                 /\ job'[q][p] = "waiting" => ~isRoom /\ p # sender[q] /\ Running(q, sender[q])'
      <4>1. CASE sender[q] \in Owners
        BY <1>1, <1>3, <3>4, <3>6, <4>1 DEF Order
      <4>2. CASE sender[q] \notin Owners
        BY <1>1, <1>3, <3>5, <3>6, <4>2
      <4> QED  BY <4>1, <4>2
    <3>7. ASSUME NEW p \in Owners
          PROVE  /\ ~isRoom /\ p # sender[m] /\ job'[m][p] \notin {"none", "waiting"}
                      => job'[m][sender[m]] \in Ends
                 /\ job'[m][p] # "waiting"
      <4>1. sender[m] \in Owners
        BY <1>1, <3>5
      <4>2. CASE p = o
        BY <1>1, <3>2, <4>1, <4>2 DEF Order, Ends
      <4>3. CASE job[m][p] = "waiting"
        BY <3>2, <3>3, <4>3 DEF Ends
      <4>4. CASE p # o /\ job[m][p] # "waiting"
        BY <1>1, <3>2, <4>1, <4>4 DEF Order, Ends
      <4> QED  BY <4>2, <4>3, <4>4
    <3> QED  BY <1>1, <3>6, <3>7 DEF Order
  <2> QED  BY <1>3, <2>1, <2>2
<1>10. Latest'
  <2>1. ASSUME Calm', log # <<>>
        PROVE  /\ m = log[Len(log)] /\ Calm /\ sent[m] = "started"
               /\ \A p \in Owners : p # o => job'[m][p] = job[m][p]
    <3>1. job'[m][o] = "notify"
      BY <1>3, <2>1 DEF Calm
    <3>2. Calm
      BY <1>1, <1>3, <2>1, <3>1 DEF Calm
    <3> QED  BY <1>1, <1>3, <2>1, <3>1, <3>2 DEF Latest, UnderWay, Running, Types, Ends
  <2>2. \A q \in Msgs : q # m => (UnderWay(q)' <=> UnderWay(q))
    BY <1>1, <1>3 DEF UnderWay, Running
  <2>3. row'[o].last = m /\ \A p \in Owners : p # o => row'[p] = row[p]
    BY <1>2 DEF Types
  <2> QED  BY <1>1, <1>3, <2>1, <2>2, <2>3 DEF Latest
<1> QED
  BY <1>4, <1>8, <1>9, <1>10

\* The other steps of updateConversation leave the counts as they are.
LEMMA JobInv ==
  ASSUME ConvInv, NEW m \in Msgs, NEW o \in Owners, JobRun(m, o)
  PROVE  ConvInv'
<1> USE ConversationAssumption DEF ConvInv, kind
<1>1. ASSUME GetConversation(m, o) PROVE ConvInv'
  <2>1. Types'
    BY <1>1 DEF GetConversation, Go, Types, JobSteps, Ends, CallSteps
  <2>2. \A p \in Owners : Others(p)' = Others(p)
    BY <1>1 DEF GetConversation, Go, Types, Counting, Updated, Others
  <2>3. Counting'
    BY <1>1, <2>2 DEF GetConversation, Go, Types, Counting
  <2>4. Order' /\ Latest'
    BY <1>1 DEF GetConversation, Go, Types, Order, Latest, Calm, JobSteps, Ends, Running, UnderWay
  <2> QED  BY <2>1, <2>2, <2>3, <2>4
<1>2. ASSUME CreateConversation(m, o) PROVE ConvInv'
  <2>1. Types'
    BY <1>2 DEF CreateConversation, Go, InsertOrUpdate, Types, JobSteps, Ends, CallSteps
  <2>2. \A p \in Owners : Others(p)' = Others(p)
    BY <1>2 DEF CreateConversation, Go, InsertOrUpdate, Types, Counting, Updated, Others
  <2>3. /\ row' = [row EXCEPT ![o] = [last |-> None, unread |-> Cardinality(Others(o))]]
        /\ Cardinality(Others(o)) \in Nat /\ o \in Owners
    BY <1>2, InsertCounts DEF CreateConversation, Go, Types
  <2>4. Counting'
    BY <1>2, <2>2, <2>3 DEF CreateConversation, Go, Types, Counting
  <2>5. Order' /\ Latest'
    BY <1>2 DEF CreateConversation, Go, InsertOrUpdate, Types, Order, Latest, Calm, JobSteps, Ends, Running, UnderWay
  <2> QED  BY <2>1, <2>2, <2>4, <2>5
<1>3. ASSUME GetSender(m, o) PROVE ConvInv'
  <2>1. Types'
    BY <1>3 DEF GetSender, Go, Types, JobSteps, Ends, CallSteps
  <2>2. \A p \in Owners : Others(p)' = Others(p)
    BY <1>3 DEF GetSender, Go, Types, Counting, Updated, Others
  <2>3. Counting'
    BY <1>3, <2>2 DEF GetSender, Go, Types, Counting
  <2>4. Order' /\ Latest'
    BY <1>3 DEF GetSender, Go, Types, Order, Latest, Calm, JobSteps, Ends, Running, UnderWay
  <2> QED  BY <2>1, <2>2, <2>3, <2>4
<1>4. ASSUME Notify(m, o) PROVE ConvInv'
  <2>1. Types'
    BY <1>4 DEF Notify, Finish, Types, JobSteps, Ends, CallSteps
  <2>2. \A p \in Owners : Others(p)' = Others(p)
    BY <1>4 DEF Notify, Finish, Types, Counting, Updated, Others
  <2>3. Counting'
    BY <1>4, <2>2 DEF Notify, Finish, Types, Counting
  <2>4. Order' /\ Latest'
    BY <1>4 DEF Notify, Finish, Types, Order, Latest, Calm, JobSteps, Ends, Running, UnderWay
  <2> QED  BY <2>1, <2>2, <2>3, <2>4
<1>5. ASSUME UpdateError(m, o) PROVE ConvInv'
  <2>1. Types'
    BY <1>5 DEF UpdateError, Finish, Types, JobSteps, Ends, CallSteps
  <2>2. \A p \in Owners : Others(p)' = Others(p)
    BY <1>5 DEF UpdateError, Finish, Types, Counting, Updated, Others
  <2>3. Counting'
    BY <1>5, <2>2 DEF UpdateError, Finish, Types, Counting
  <2>4. Order' /\ Latest'
    BY <1>5 DEF UpdateError, Finish, Types, Order, Latest, Calm, JobSteps, Ends, Running, UnderWay
  <2> QED  BY <2>1, <2>2, <2>3, <2>4
<1>6. ASSUME UpdateAnswerLost(m, o), job[m][o] = "create" PROVE ConvInv'
  <2>1. /\ InsertOrUpdate(o, None, 0) /\ Finish(m, o, "error")
        /\ UNCHANGED <<isRoom, storeFails, sender, log, alone, sent, call, callOwner, notified>>
    BY <1>6 DEF UpdateAnswerLost
  <2>2. /\ row' = [row EXCEPT ![o] = [last |-> None, unread |-> Cardinality(Others(o))]]
        /\ Cardinality(Others(o)) \in Nat
    BY <2>1, InsertCounts
  <2>3. Types'
    BY <1>6, <2>1, <2>2 DEF Finish, Types, JobSteps, Ends
  <2>4. \A p \in Owners : Others(p)' = Others(p)
    BY <1>6, <2>1 DEF Finish, Types, Updated, Others
  <2>5. Counting'
    BY <1>6, <2>1, <2>2, <2>4 DEF Finish, Types, Counting
  <2>6. ~Calm'
    BY <2>1 DEF Finish, Types, Calm
  <2>7. Order'
    BY <1>6, <2>1 DEF Finish, Types, Order, JobSteps, Ends, Running
  <2> QED  BY <2>1, <2>3, <2>5, <2>6, <2>7 DEF Latest
<1>7. UpdateAnswerLost(m, o) => job[m][o] \in {"create", "upsert"}
  BY DEF UpdateAnswerLost
<1> QED
  BY <1>1, <1>2, <1>3, <1>4, <1>5, <1>6, <1>7, UpdateInv DEF JobRun

\* So do the handlers, which may blank the last message.
LEMMA CallInv ==
  ASSUME ConvInv, NEW c \in Calls,
         CallRun(c) \/ \E o \in Owners : CreateHandler(c, o) \/ OpenHandler(c, o)
  PROVE  ConvInv'
<1> USE ConversationAssumption DEF ConvInv, kind
<1>1. ASSUME OpenGet(c) PROVE ConvInv'
  <2>1. Types'
    BY <1>1 DEF OpenGet, CallStep, Types, JobSteps, Ends, CallSteps
  <2>2. \A p \in Owners : Others(p)' = Others(p)
    BY <1>1 DEF OpenGet, CallStep, Types, Counting, Updated, Others
  <2>3. Counting'
    BY <1>1, <2>2 DEF OpenGet, CallStep, Types, Counting
  <2>4. Order' /\ Latest'
    BY <1>1 DEF OpenGet, CallStep, Types, Order, Latest, Calm, JobSteps, Ends, Running, UnderWay
  <2> QED  BY <2>1, <2>2, <2>3, <2>4
<1>2. ASSUME CallInsert(c) PROVE ConvInv'
  <2>1. Types'
    BY <1>2 DEF CallInsert, CallStep, InsertOrUpdate, Types, JobSteps, Ends, CallSteps
  <2>2. \A p \in Owners : Others(p)' = Others(p)
    BY <1>2 DEF CallInsert, CallStep, InsertOrUpdate, Types, Counting, Updated, Others
  <2>3. /\ row' = [row EXCEPT ![callOwner[c]] = [last |-> None, unread |-> Cardinality(Others(callOwner[c]))]]
        /\ Cardinality(Others(callOwner[c])) \in Nat /\ callOwner[c] \in Owners
    BY <1>2, InsertCounts DEF CallInsert, CallStep, Types
  <2>4. Counting'
    BY <1>2, <2>2, <2>3 DEF CallInsert, CallStep, Types, Counting
  <2>5. Order' /\ Latest'
    BY <1>2 DEF CallInsert, CallStep, InsertOrUpdate, Types, Order, Latest, Calm, JobSteps, Ends, Running, UnderWay
  <2> QED  BY <2>1, <2>2, <2>4, <2>5
<1>3. ASSUME CallError(c) PROVE ConvInv'
  <2>1. Types'
    BY <1>3 DEF CallError, Types, JobSteps, Ends, CallSteps
  <2>2. \A p \in Owners : Others(p)' = Others(p)
    BY <1>3 DEF CallError, Types, Counting, Updated, Others
  <2>3. Counting'
    BY <1>3, <2>2 DEF CallError, Types, Counting
  <2>4. Order' /\ Latest'
    BY <1>3 DEF CallError, Types, Order, Latest, Calm, JobSteps, Ends, Running, UnderWay
  <2> QED  BY <2>1, <2>2, <2>3, <2>4
<1>4. ASSUME NEW o \in Owners, CreateHandler(c, o) PROVE ConvInv'
  <2>1. Types'
    BY <1>4 DEF CreateHandler, StartCall, CallStep, Types, JobSteps, Ends, CallSteps
  <2>2. \A p \in Owners : Others(p)' = Others(p)
    BY <1>4 DEF CreateHandler, StartCall, CallStep, Types, Counting, Updated, Others
  <2>3. Counting'
    BY <1>4, <2>2 DEF CreateHandler, StartCall, CallStep, Types, Counting
  <2>4. Order' /\ Latest'
    BY <1>4 DEF CreateHandler, StartCall, CallStep, Types, Order, Latest, Calm, JobSteps, Ends, Running, UnderWay
  <2> QED  BY <2>1, <2>2, <2>3, <2>4
<1>5. ASSUME NEW o \in Owners, OpenHandler(c, o) PROVE ConvInv'
  <2>1. Types'
    BY <1>5 DEF OpenHandler, StartCall, CallStep, Types, JobSteps, Ends, CallSteps
  <2>2. \A p \in Owners : Others(p)' = Others(p)
    BY <1>5 DEF OpenHandler, StartCall, CallStep, Types, Counting, Updated, Others
  <2>3. Counting'
    BY <1>5, <2>2 DEF OpenHandler, StartCall, CallStep, Types, Counting
  <2>4. Order' /\ Latest'
    BY <1>5 DEF OpenHandler, StartCall, CallStep, Types, Order, Latest, Calm, JobSteps, Ends, Running, UnderWay
  <2> QED  BY <2>1, <2>2, <2>3, <2>4
<1> QED
  BY <1>1, <1>2, <1>3, <1>4, <1>5 DEF CallRun

LEMMA NextInv == ConvInv /\ [Next]_vars => ConvInv'
<1>1. ASSUME ConvInv, UNCHANGED vars PROVE ConvInv'
  <2>1. \A p \in Owners : Others(p)' = Others(p)
    BY <1>1 DEF vars, Others, Updated
  <2> QED
    BY <1>1, <2>1 DEF vars, kind, ConvInv, Types, Counting, Order, Latest, Calm, Running, UnderWay
<1> QED
  BY <1>1, SaveInv, StartInv, DropInv, JobInv, CallInv DEF Next

THEOREM Inductive == Spec => []ConvInv
  BY InitInv, NextInv, PTL DEF Spec

----------------------------------------------------------------------------
\* No increment of an unread count is lost or doubled, whatever updates, calls
\* and failures interleave (docs/notes/system-problems.md:96).
THEOREM CountsExact == Spec => []UnreadExact
<1>1. ConvInv => UnreadExact
  BY DEF ConvInv, Counting, UnreadExact, Others
<1> QED
  BY Inductive, <1>1, PTL

\* Who is told to refresh finds the message counted (message.go:315-328).
THEOREM NoticeIsCounted == Spec => []NotifiedIsCounted
<1>1. ASSUME ConvInv PROVE NotifiedIsCounted
  <2> USE <1>1 DEF ConvInv
  <2> DEFINE Heard(o) == {m \in Msgs : <<m, o>> \in notified}
             Mine(o) == {m \in Heard(o) : sender[m] # o}
  <2>1. ASSUME NEW o \in Owners, Heard(o) # {}
        PROVE  row[o] # None /\ row[o].unread >= Cardinality(Mine(o))
    <3>1. row[o] # None /\ row[o].unread = Cardinality(Others(o))
      BY <2>1 DEF Counting
    <3>2. Mine(o) \subseteq Others(o)
      BY DEF Counting, Others, Updated
    <3>3. IsFiniteSet(Others(o))
      BY FS_Subset, ConversationAssumption DEF Others
    <3>4. Cardinality(Mine(o)) <= Cardinality(Others(o))
      BY <3>2, <3>3, FS_Subset
    <3>5. Cardinality(Mine(o)) \in Nat /\ Cardinality(Others(o)) \in Nat
      BY <3>2, <3>3, FS_Subset, FS_CardinalityType
    <3> QED  BY <3>1, <3>4, <3>5
  <2> QED  BY <2>1 DEF NotifiedIsCounted
<1> QED
  BY Inductive, <1>1, PTL

\* In a direct chat the recipient's row is touched after the sender's, and
\* waits only while the sender's update runs, also when that one fails
\* (message.go:243-244).
THEOREM SenderGoesFirst == Spec => []RecipientFollows
<1>1. ConvInv => RecipientFollows
  BY DEF ConvInv, Order, RecipientFollows, Updated
<1> QED
  BY Inductive, <1>1, PTL

\* When nothing disturbed it, every row shows the last message in the end
\* (docs/conversation-api.md:26-27).
THEOREM LastShown == Spec => []LastIsLatest
<1>1. ASSUME ConvInv PROVE LastIsLatest
  <2> USE <1>1 DEF ConvInv
  <2> SUFFICES ASSUME alone, log # <<>>,
                      \A m \in Msgs : sent[m] \in {"new", "started"},
                      \A m \in Msgs, o \in Owners : job[m][o] \in {"none", "done"},
                      \A c \in Calls : call[c] = "none",
                      NEW o \in Owners
               PROVE  row[o] # None /\ row[o].last = log[Len(log)]
    BY DEF LastIsLatest
  <2>1. Calm /\ log[Len(log)] \in Msgs
    BY DEF Calm, Types
  <2>2. job[log[Len(log)]][o] = "done"
    BY <2>1 DEF Latest, Types
  <2> QED
    BY <2>1, <2>2 DEF Latest, Counting
<1> QED
  BY Inductive, <1>1, PTL

----------------------------------------------------------------------------
(* The rows implement Unread.                                              *)

Listed == {o \in Owners : row[o] # None}
Numbers == [o \in Owners |-> IF row[o] = None THEN 0 ELSE row[o].unread]
Counted == {p \in Msgs \X Owners : Updated(p[1], p[2])}

\* A step of a job or a call that executes no statement on a row, or tells
\* nobody, is not seen.
LEMMA ChatsUnseen ==
  ASSUME UNCHANGED <<row, sender, notified>>,
         \A m \in Msgs, o \in Owners : Updated(m, o)' <=> Updated(m, o)
  PROVE  UNCHANGED Chats!vars
<1>1. Counted' = Counted /\ Listed' = Listed /\ Numbers' = Numbers
  BY DEF Counted, Listed, Numbers
<1> QED
  BY <1>1 DEF Chats!vars, Counted, Listed, Numbers

\* A statement without message lists the chat, if it is not, and counts nothing.
LEMMA ChatsInsert ==
  ASSUME ConvInv, NEW o \in Owners, InsertOrUpdate(o, None, 0), UNCHANGED <<sender, notified>>,
         \A m \in Msgs, p \in Owners : Updated(m, p)' <=> Updated(m, p)
  PROVE  Chats!Next \/ UNCHANGED Chats!vars
<1> USE ConversationAssumption DEF ConvInv
<1>1. Counted' = Counted
  BY DEF Counted
<1>2. \A p \in Owners : row'[p] = IF p # o THEN row[p] ELSE
        [last |-> None, unread |-> IF row[o] = None THEN 0 ELSE row[o].unread]
  BY DEF InsertOrUpdate, Types
<1>3. Numbers' = Numbers /\ Listed' = Listed \union {o}
  <2>1. \A p \in Owners : p = o => row'[p] # None
    BY <1>2 DEF Types
  <2> QED  BY <1>2, <2>1 DEF Numbers, Listed
<1>4. CASE o \in Listed
  BY <1>1, <1>3, <1>4 DEF Chats!vars, Counted, Listed, Numbers
<1>5. CASE o \notin Listed
  <2>1. Chats!List(o)
    BY <1>1, <1>3, <1>5 DEF Chats!List, Counted, Listed, Numbers
  <2> QED  BY <2>1 DEF Chats!Next
<1> QED
  BY <1>4, <1>5

\* The update counts the message, which was not counted, in a listed chat.
LEMMA ChatsCount ==
  ASSUME ConvInv, NEW m \in Msgs, NEW o \in Owners,
         UpdateConversation(m, o) \/ (UpdateAnswerLost(m, o) /\ job[m][o] = "upsert")
  PROVE  Chats!Count(m, o)
<1> USE ConversationAssumption DEF ConvInv
<1>1. job[m][o] = "upsert" /\ UNCHANGED <<sender, notified>>
      /\ InsertOrUpdate(o, m, IF o = sender[m] THEN 0 ELSE 1)
  BY DEF UpdateConversation, UpdateAnswerLost, Go
<1>2. row[o] # None /\ sender[m] # None
  BY <1>1 DEF Counting, Types
<1>3. row' = [row EXCEPT ![o] = [last |-> m,
                unread |-> row[o].unread + (IF o = sender[m] THEN 0 ELSE 1)]]
  BY <1>1, <1>2 DEF InsertOrUpdate
<1>4. row[o].unread \in Nat
  BY <1>2 DEF Types
<1>5. Listed' = Listed /\ o \in Listed
  <2>1. \A p \in Owners : row'[p] # None <=> row[p] # None
    BY <1>2, <1>3, <1>4 DEF Types
  <2> QED  BY <1>2, <2>1 DEF Listed
<1>6. Numbers' = [Numbers EXCEPT ![o] = IF sender[m] = o THEN @ ELSE @ + 1]
  <2>1. Numbers[o] = row[o].unread /\ Numbers \in [Owners -> Nat]
    BY <1>2 DEF Numbers, Types
  <2>2. ASSUME NEW p \in Owners
        PROVE  Numbers'[p] = IF p # o THEN Numbers[p]
                             ELSE IF sender[m] = o THEN row[o].unread ELSE row[o].unread + 1
    BY <1>3, <1>4, <1>5 DEF Numbers, Listed, Types
  <2>3. Numbers' = [p \in Owners |-> Numbers'[p]]
    BY DEF Numbers
  <2> QED  BY <2>1, <2>2, <2>3
<1>7. Counted' = Counted \union {<<m, o>>} /\ <<m, o>> \notin Counted
  <2>1. \A n \in Msgs, p \in Owners : Updated(n, p)' <=> Updated(n, p) \/ (n = m /\ p = o)
    BY <1>1 DEF UpdateConversation, UpdateAnswerLost, Go, Finish, Updated, Types
  <2> QED  BY <1>1, <2>1 DEF Counted, Updated
<1> QED
  BY <1>1, <1>2, <1>5, <1>6, <1>7 DEF Chats!Count, Counted, Listed, Numbers

\* Who is told finds the message counted, and was not told before.
LEMMA ChatsTell ==
  ASSUME ConvInv, NEW m \in Msgs, NEW o \in Owners, Notify(m, o)
  PROVE  Chats!Tell(m, o)
<1> USE DEF ConvInv
<1>1. job[m][o] = "notify" /\ <<m, o>> \notin notified
  BY DEF Notify, Counting
<1>2. \A n \in Msgs, p \in Owners : Updated(n, p)' <=> Updated(n, p)
  BY <1>1 DEF Notify, Finish, Updated, Types
<1>3. Counted' = Counted /\ <<m, o>> \in Counted
  BY <1>1, <1>2 DEF Counted, Updated
<1> QED
  BY <1>1, <1>3 DEF Notify, Chats!Tell, Counted

LEMMA ChatsStep == ConvInv /\ [Next]_vars => [Chats!Next]_(Chats!vars)
<1> SUFFICES ASSUME ConvInv, [Next]_vars PROVE Chats!Next \/ UNCHANGED Chats!vars
  OBVIOUS
<1>1. ASSUME NEW m \in Msgs, NEW o \in Owners, Save(o, m) PROVE Chats!Next
  <2>1. Counted' = Counted
    BY <1>1 DEF Save, Counted, Updated
  <2>2. sender[m] = None
    BY <1>1 DEF Save, SendStep, ConvInv, Types
  <2>3. Chats!Send(m, o)
    BY <1>1, <2>1, <2>2 DEF Save, Chats!Send, Counted
  <2> QED  BY <2>3 DEF Chats!Next
<1>8. ASSUME NEW m \in Msgs, StartUpdates(m) \/ DropUpdates(m)
      PROVE  UNCHANGED Chats!vars
  <2>1. \A n \in Msgs, p \in Owners : Updated(n, p)' <=> Updated(n, p)
    <3>1. CASE DropUpdates(m)
      BY <3>1 DEF DropUpdates, Updated
    <3>2. CASE StartUpdates(m)
      <4>1. \A p \in Owners : job[m][p] = "none"
        BY <3>2 DEF StartUpdates, SendStep, ConvInv, Types
      <4>2. \A p \in Owners : job'[m][p] \in {"error", "get", "waiting"}
        BY <3>2 DEF StartUpdates, ConvInv, Types
      <4>3. \A n \in Msgs : n # m => job'[n] = job[n]
        BY <3>2 DEF StartUpdates, ConvInv, Types
      <4> QED  BY <4>1, <4>2, <4>3 DEF Updated
    <3> QED  BY <1>8, <3>1, <3>2
  <2> QED
    BY <1>8, <2>1, ChatsUnseen DEF StartUpdates, DropUpdates
<1>2. ASSUME NEW m \in Msgs, NEW o \in Owners,
             GetConversation(m, o) \/ GetSender(m, o) \/ UpdateError(m, o)
      PROVE  UNCHANGED Chats!vars
  <2>1. \A n \in Msgs, p \in Owners : Updated(n, p)' <=> Updated(n, p)
    BY <1>2 DEF GetConversation, GetSender, UpdateError, Go, Finish, Updated, ConvInv, Types
  <2> QED
    BY <1>2, <2>1, ChatsUnseen DEF GetConversation, GetSender, UpdateError
<1>3. ASSUME NEW m \in Msgs, NEW o \in Owners, CreateConversation(m, o)
      PROVE  Chats!Next \/ UNCHANGED Chats!vars
  <2>1. \A n \in Msgs, p \in Owners : Updated(n, p)' <=> Updated(n, p)
    BY <1>3 DEF CreateConversation, Go, Updated, ConvInv, Types
  <2> QED
    BY <1>3, <2>1, ChatsInsert DEF CreateConversation
<1>4. ASSUME NEW m \in Msgs, NEW o \in Owners, JobRun(m, o)
      PROVE  Chats!Next \/ UNCHANGED Chats!vars
  <2>1. ASSUME UpdateAnswerLost(m, o), job[m][o] = "create"
        PROVE  Chats!Next \/ UNCHANGED Chats!vars
    <3>1. \A n \in Msgs, p \in Owners : Updated(n, p)' <=> Updated(n, p)
      <4>1. Finish(m, o, "error") /\ job[m][o] = "create" /\ job \in [Msgs -> [Owners -> JobSteps]]
        BY <2>1 DEF UpdateAnswerLost, ConvInv, Types
      <4> QED  BY <4>1 DEF Finish, Updated
    <3> QED
      BY <2>1, <3>1, ChatsInsert DEF UpdateAnswerLost
  <2>2. UpdateAnswerLost(m, o) => job[m][o] \in {"create", "upsert"}
    BY DEF UpdateAnswerLost
  <2> QED
    BY <1>2, <1>3, <1>4, <2>1, <2>2, ChatsCount, ChatsTell DEF JobRun, Chats!Next
<1>5. ASSUME NEW c \in Calls, CallInsert(c) PROVE Chats!Next \/ UNCHANGED Chats!vars
  <2>1. callOwner[c] \in Owners
    BY <1>5 DEF CallInsert, CallStep, ConvInv, Types
  <2>2. \A n \in Msgs, p \in Owners : Updated(n, p)' <=> Updated(n, p)
    BY <1>5 DEF CallInsert, Updated
  <2> QED
    BY <1>5, <2>1, <2>2, ChatsInsert DEF CallInsert
<1>6. ASSUME NEW c \in Calls,
             OpenGet(c) \/ CallError(c) \/ \E o \in Owners : CreateHandler(c, o) \/ OpenHandler(c, o)
      PROVE  UNCHANGED Chats!vars
  BY <1>6, ChatsUnseen DEF OpenGet, CallError, CreateHandler, OpenHandler, StartCall, Updated
<1>7. CASE UNCHANGED vars
  BY <1>7, ChatsUnseen DEF vars, Updated
<1> QED
  BY <1>1, <1>4, <1>5, <1>6, <1>7, <1>8 DEF Next, CallRun

\* The owners of a chat see a list that counts every message once, never loses
\* a chat or a number, and tells of what it has counted, whatever goroutines,
\* handlers and failing statements do (message.go:289-328).
THEOREM RowsImplementUnread == Spec => ImplementsUnread
<1>1. Init => Chats!Init
  <2> SUFFICES ASSUME Init PROVE Chats!Init
    OBVIOUS
  <2>1. Counted = {} /\ Listed = {} /\ Numbers = [o \in Owners |-> 0]
    BY DEF Init, Counted, Listed, Numbers, Updated
  <2> QED
    BY <2>1 DEF Init, Chats!Init, Counted, Listed, Numbers
<1> QED
  BY Inductive, ChatsStep, <1>1, PTL DEF Spec, ImplementsUnread, Chats!Spec
=============================================================================
