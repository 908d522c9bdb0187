--------------------------- MODULE MessagePender ---------------------------
(***************************************************************************)
(* defaultMessagePender of service/message.go: the table of messages that  *)
(* were handed to an online recipient and wait for its ACK.  Goroutines    *)
(* (Callers) enter Pend and UnPend, one background goroutine runs clearUp; *)
(* they share msgList under the mutex mx, and every callback of            *)
(* MessagePendOpts runs after the mutex is released.                       *)
(*                                                                         *)
(* The grain is one action per critical-section access and one per         *)
(* callback, so that a goroutine can be overtaken between any two of them. *)
(* Time is counted in units that divide TTL and RetryInterval; reads of    *)
(* the clock within one loop of clearUp see one value.                     *)
(***************************************************************************)
EXTENDS Integers, FiniteSets

CONSTANTS
  Ids,            \* identifiers of the messages that get pended
  Callers,        \* goroutines that call Pend and UnPend
  AckIds,         \* identifiers UnPend may be called with
  Free,           \* value of mx when nobody holds it
  ClearUp,        \* the background goroutine
  NoId,           \* "no argument"
  TTL, MaxRetry, RetryInterval,   \* MessagePendOpts
  MaxTime,        \* bound: the last instant told apart
  LastSendTime    \* bound: no message is stamped after this instant

ASSUME CallersAssumption == /\ Free \notin Callers
                            /\ ClearUp \notin Callers
                            /\ Free # ClearUp
ASSUME IdsAssumption == NoId \notin Ids
ASSUME OptsAssumption == /\ TTL \in Nat
                         /\ MaxRetry \in Nat
                         /\ RetryInterval \in Nat \ {0}
ASSUME BoundsAssumption == /\ MaxTime \in Nat
                           /\ LastSendTime \in Nat
                           /\ MaxTime >= LastSendTime + TTL

VARIABLES
  now,        \* the clock
  tick,       \* the ticker's channel, of capacity one, holds a tick
  mx,         \* holder of the mutex
  msgList,    \* identifiers in the map
  sendAt,     \* Message.SendAt of each message
  lastRetryAt, retryCount,    \* fields of its PendMessage
  pc, arg,    \* what each caller executes, and with which message
  cpc,        \* what clearUp executes
  toFail, toRetry,            \* its two snapshots
  pended,     \* history: identifiers Pend was called with
  acked, failed,              \* history: OnMsgAcked and OnMsgFailed calls
  late        \* history: OnMsgRetry calls made when the message had left the map

settings == <<sendAt, pended>>
callerVars == <<pc, arg>>
clearUpVars == <<cpc, toFail, toRetry>>
records == <<lastRetryAt, retryCount>>
history == <<acked, failed, late>>
vars == <<now, tick, mx, msgList, records, settings, callerVars,
          clearUpVars, history>>

Goroutines == Callers \union {ClearUp}

CallerSteps == {"idle", "lockPend", "pend", "lockUnPend", "lookup",
                "delete", "acked"}
ClearUpSteps == {"wait", "lock", "scan", "delete", "callbacks"}

Init ==
  /\ now = 0
  /\ tick = FALSE
  /\ mx = Free
  /\ msgList = {}
  /\ sendAt = [i \in Ids |-> 0]
  /\ lastRetryAt = [i \in Ids |-> 0]
  /\ retryCount = [i \in Ids |-> 0]
  /\ pc = [c \in Callers |-> "idle"]
  /\ arg = [c \in Callers |-> NoId]
  /\ cpc = "wait"
  /\ toFail = {} /\ toRetry = {}
  /\ pended = {}
  /\ acked = [i \in Ids |-> 0]
  /\ failed = [i \in Ids |-> 0]
  /\ late = [i \in Ids |-> 0]

----------------------------------------------------------------------------
(* The environment: time, and calls by the goroutines that read client     *)
(* connections.                                                            *)

\* One unit of time.  time.NewTicker sends at every multiple of
\* RetryInterval and drops the tick when the last one was not taken.  At
\* MaxTime every message has outlived its TTL, so that later instants need no
\* value of their own: the clock stays there and the ticks go on.
Advance ==
  /\ \/ now < MaxTime /\ now' = now + 1
     \/ now = MaxTime /\ now' = now
  /\ tick' = (tick \/ now = MaxTime \/ (now + 1) % RetryInterval = 0)
  /\ UNCHANGED <<mx, msgList, records, settings, callerVars, clearUpVars, history>>

Goto(c, step) == pc' = [pc EXCEPT ![c] = step]
Return(c) == Goto(c, "idle") /\ arg' = [arg EXCEPT ![c] = NoId]

\* Mutant: the mutex is taken from whoever has it.
LockWithoutWaiting(p) == mx' = p

Lock(p) == mx = Free /\ mx' = p
Unlock == mx' = Free

\* A message is pended once, its MsgId being a fresh UUID; its SendAt was
\* stamped when it came in, at an instant that is past or present.
CallPend(c, i, stamp) ==
  /\ pc[c] = "idle" /\ i \notin pended
  /\ pended' = pended \union {i}
  /\ sendAt' = [sendAt EXCEPT ![i] = stamp]
  /\ arg' = [arg EXCEPT ![c] = i]
  /\ Goto(c, "lockPend")
  /\ UNCHANGED <<now, tick, mx, msgList, records, clearUpVars, history>>

Stamps == {s \in 0 .. LastSendTime : s <= now}

CallUnPend(c, i) ==
  /\ pc[c] = "idle"
  /\ arg' = [arg EXCEPT ![c] = i]
  /\ Goto(c, "lockUnPend")
  /\ UNCHANGED <<now, tick, mx, msgList, records, settings, clearUpVars, history>>

----------------------------------------------------------------------------
(* Pend.                                                                   *)

PendLock(c) ==
  /\ pc[c] = "lockPend" /\ Lock(c)
  /\ Goto(c, "pend")
  /\ UNCHANGED <<now, tick, msgList, records, settings, arg, clearUpVars, history>>

\* The body of Pend and its deferred Unlock.
Pend(c) ==
  LET i == arg[c] IN
  /\ pc[c] = "pend"
  /\ IF i \in msgList
       THEN UNCHANGED <<msgList, records>>
       ELSE /\ msgList' = msgList \union {i}
            /\ retryCount' = [retryCount EXCEPT ![i] = 0]
            /\ lastRetryAt' = [lastRetryAt EXCEPT ![i] = now]
  /\ Unlock
  /\ Return(c)
  /\ UNCHANGED <<now, tick, settings, clearUpVars, history>>

----------------------------------------------------------------------------
(* UnPend.                                                                 *)

UnPendLock(c) ==
  /\ pc[c] = "lockUnPend" /\ Lock(c)
  /\ Goto(c, "lookup")
  /\ UNCHANGED <<now, tick, msgList, records, settings, arg, clearUpVars, history>>

\* The entry is there: read it.
UnPendFound(c) ==
  /\ pc[c] = "lookup" /\ arg[c] \in msgList
  /\ Goto(c, "delete")
  /\ UNCHANGED <<now, tick, mx, msgList, records, settings, arg, clearUpVars, history>>

\* "message not found": the call returns and the mutex stays locked.
UnPendNotFound(c) ==
  /\ pc[c] = "lookup" /\ arg[c] \notin msgList
  /\ Return(c)
  /\ UNCHANGED <<now, tick, mx, msgList, records, settings, clearUpVars, history>>

\* Mutants of UnPendDelete: the entry stays in the map; the callback is not
\* called.
UnPendKeep(c) ==
  /\ pc[c] = "delete"
  /\ Unlock
  /\ Goto(c, "acked")
  /\ UNCHANGED <<now, tick, msgList, records, settings, arg, clearUpVars, history>>

UnPendSilently(c) ==
  /\ pc[c] = "delete"
  /\ msgList' = msgList \ {arg[c]}
  /\ Unlock
  /\ Return(c)
  /\ UNCHANGED <<now, tick, records, settings, clearUpVars, history>>

UnPendDelete(c) ==
  /\ pc[c] = "delete"
  /\ msgList' = msgList \ {arg[c]}
  /\ Unlock
  /\ Goto(c, "acked")
  /\ UNCHANGED <<now, tick, records, settings, arg, clearUpVars, history>>

OnMsgAcked(c) ==
  /\ pc[c] = "acked"
  /\ acked' = [acked EXCEPT ![arg[c]] = @ + 1]
  /\ Return(c)
  /\ UNCHANGED <<now, tick, mx, msgList, records, settings, clearUpVars,
                 failed, late>>

----------------------------------------------------------------------------
(* clearUp.                                                                *)

Expired(i) == now >= sendAt[i] + TTL
GivenUp(i) == Expired(i) \/ retryCount[i] >= MaxRetry
RetryDue(i) == now >= lastRetryAt[i] + RetryInterval

ClearUpTick ==
  /\ cpc = "wait" /\ tick
  /\ tick' = FALSE
  /\ cpc' = "lock"
  /\ UNCHANGED <<now, mx, msgList, records, settings, callerVars, toFail,
                 toRetry, history>>

ClearUpLock ==
  /\ cpc = "lock" /\ Lock(ClearUp)
  /\ cpc' = "scan"
  /\ UNCHANGED <<now, tick, msgList, records, settings, callerVars, toFail,
                 toRetry, history>>

\* Mutants of ClearUpScan: entries are retried before they are due; an entry
\* that is due for a retry is given up.
ScanWith(fail, retry) ==
  /\ cpc = "scan"
  /\ toFail' = fail /\ toRetry' = retry
  /\ cpc' = "delete"
  /\ UNCHANGED <<now, tick, mx, msgList, records, settings, callerVars, history>>

ClearUpScanEager == ScanWith({i \in msgList : GivenUp(i)},
                             {i \in msgList : ~GivenUp(i)})
ClearUpScanImpatient == ScanWith({i \in msgList : GivenUp(i) \/ RetryDue(i)}, {})

\* The loop over the map that fills the two snapshots.
ClearUpScan ==
  /\ cpc = "scan"
  /\ toFail' = {i \in msgList : GivenUp(i)}
  /\ toRetry' = {i \in msgList : ~GivenUp(i) /\ RetryDue(i)}
  /\ cpc' = "delete"
  /\ UNCHANGED <<now, tick, mx, msgList, records, settings, callerVars, history>>

\* Mutants of ClearUpDelete: the failed entries stay in the map; the mutex is
\* not released.
ClearUpKeep ==
  /\ cpc = "delete"
  /\ Unlock
  /\ cpc' = "callbacks"
  /\ UNCHANGED <<now, tick, msgList, records, settings, callerVars, toFail, toRetry, history>>

ClearUpDeleteWithoutUnlock ==
  /\ cpc = "delete"
  /\ msgList' = msgList \ toFail
  /\ cpc' = "callbacks"
  /\ UNCHANGED <<now, tick, mx, records, settings, callerVars, toFail, toRetry, history>>

ClearUpDelete ==
  /\ cpc = "delete"
  /\ msgList' = msgList \ toFail
  /\ Unlock
  /\ cpc' = "callbacks"
  /\ UNCHANGED <<now, tick, records, settings, callerVars, toFail, toRetry, history>>

\* The callbacks, all the failures first, outside the mutex.
OnMsgFailed(i) ==
  /\ cpc = "callbacks" /\ i \in toFail
  /\ toFail' = toFail \ {i}
  /\ failed' = [failed EXCEPT ![i] = @ + 1]
  /\ UNCHANGED <<now, tick, mx, msgList, records, settings, callerVars, cpc,
                 toRetry, acked, late>>

\* Mutant: a due message is retried until its retries are used up, without
\* looking at the map again.
RetryUntilUsedUp(i) ==
  /\ cpc = "callbacks" /\ toFail = {} /\ i \in toRetry
  /\ toRetry' = IF retryCount[i] + 1 < MaxRetry THEN toRetry ELSE toRetry \ {i}
  /\ lastRetryAt' = [lastRetryAt EXCEPT ![i] = now]
  /\ retryCount' = [retryCount EXCEPT ![i] = @ + 1]
  /\ late' = IF i \in msgList THEN late ELSE [late EXCEPT ![i] = @ + 1]
  /\ UNCHANGED <<now, tick, mx, msgList, settings, callerVars, cpc, toFail,
                 acked, failed>>

OnMsgRetry(i) ==
  /\ cpc = "callbacks" /\ toFail = {} /\ i \in toRetry
  /\ toRetry' = toRetry \ {i}
  /\ lastRetryAt' = [lastRetryAt EXCEPT ![i] = now]
  /\ retryCount' = [retryCount EXCEPT ![i] = @ + 1]
  /\ late' = IF i \in msgList THEN late ELSE [late EXCEPT ![i] = @ + 1]
  /\ UNCHANGED <<now, tick, mx, msgList, settings, callerVars, cpc, toFail,
                 acked, failed>>

ClearUpDone ==
  /\ cpc = "callbacks" /\ toFail = {} /\ toRetry = {}
  /\ cpc' = "wait"
  /\ UNCHANGED <<now, tick, mx, msgList, records, settings, callerVars, toFail,
                 toRetry, history>>

----------------------------------------------------------------------------
\* A caller that has entered Pend or UnPend keeps running.
CallerRun(c) ==
  \/ PendLock(c) \/ Pend(c)
  \/ UnPendLock(c) \/ UnPendFound(c) \/ UnPendNotFound(c)
  \/ UnPendDelete(c) \/ OnMsgAcked(c)

ClearUpRun ==
  \/ ClearUpTick \/ ClearUpLock \/ ClearUpScan \/ ClearUpDelete \/ ClearUpDone
  \/ \E i \in Ids : OnMsgFailed(i) \/ OnMsgRetry(i)

Next ==
  \/ Advance
  \/ \E c \in Callers : \/ \E i \in Ids, stamp \in Stamps : CallPend(c, i, stamp)
                        \/ \E i \in AckIds : CallUnPend(c, i)
                        \/ CallerRun(c)
  \/ ClearUpRun

Spec == Init /\ [][Next]_vars

\* Goroutines that can run do run, and time passes.  sync.Mutex hands itself
\* to a goroutine that has waited for a millisecond, hence strong fairness
\* where the mutex is taken.  Nobody has to call.
Fairness == /\ WF_vars(Advance)
            /\ WF_vars(ClearUpRun) /\ SF_vars(ClearUpLock)
            /\ \A c \in Callers : /\ WF_vars(CallerRun(c))
                                  /\ SF_vars(PendLock(c) \/ UnPendLock(c))
FairSpec == Spec /\ Fairness

----------------------------------------------------------------------------
(* What makes it correct.                                                  *)

TypeOK ==
  /\ now \in 0 .. MaxTime
  /\ tick \in BOOLEAN
  /\ mx \in Goroutines \union {Free}
  /\ msgList \subseteq Ids
  /\ pended \subseteq Ids
  /\ sendAt \in [Ids -> Nat] /\ lastRetryAt \in [Ids -> Nat]
  /\ retryCount \in [Ids -> Nat]
  /\ pc \in [Callers -> CallerSteps]
  /\ arg \in [Callers -> Ids \union AckIds \union {NoId}]
  /\ cpc \in ClearUpSteps
  /\ toFail \subseteq Ids /\ toRetry \subseteq Ids
  /\ acked \in [Ids -> Nat] /\ failed \in [Ids -> Nat] /\ late \in [Ids -> Nat]

InCriticalSection(p) == IF p = ClearUp THEN cpc \in {"scan", "delete"}
                                       ELSE pc[p] \in {"pend", "lookup", "delete"}

Leaked == mx \in Callers /\ ~InCriticalSection(mx)

\* A message ends in at most one way, once: OnMsgAcked and OnMsgFailed
\* together run at most once for it, whatever the race between an ACK and
\* the expiry (message.go:67-83 against 109-118).
OneOutcome == \A i \in Ids : acked[i] + failed[i] <= 1

\* No message is retried more than MaxRetry times, although the count is
\* tested under the mutex and incremented outside it (message.go:68, 87).
RetryBound == \A i \in Ids : retryCount[i] <= MaxRetry

\* The snapshot toRetry may be stale by one ACK: a message is sent again at
\* most once after it left the table (message.go:85-89).
AtMostOneLateRetry == \A i \in Ids : late[i] <= 1

\* OnMsgRetry is never called for a message whose OnMsgFailed was called:
\* the sender is not told "failed" of a message that is still being sent.
NoRetryAfterFailure ==
  [][\A i \in Ids : retryCount'[i] > retryCount[i] => failed'[i] = 0]_vars

\* Two sends of a message are at least RetryInterval apart.
RetrySpacing ==
  [][\A i \in Ids : retryCount'[i] > retryCount[i]
       => now >= lastRetryAt[i] + RetryInterval]_vars

\* OnMsgFailed is called only for a message whose time is up or whose
\* retries are used up.
FailureJustified ==
  [][\A i \in Ids : failed'[i] > failed[i] => GivenUp(i)]_vars

\* Once UnPend has returned with the mutex locked (message.go:111-114), the table
\* stays as it is: no message is pended, taken out by its ACK or given up again.
LostForGood == [][Leaked => Leaked' /\ mx' = mx /\ msgList' = msgList]_vars

\* And it is lost in no other way: every step that takes the mutex, clearUp's
\* among them, is followed by the one that releases it, but for the early return
\* of UnPend.
LostByUnPendOnly ==
  [][~Leaked /\ Leaked' => \E c \in Callers : UnPendNotFound(c)]_vars

\* Every pended message is forcibly removed in the end, as the notes say
\* (docs/notes/week06-ack.md:25).
ForcedCleanUp == \A i \in Ids : i \in msgList ~> i \notin msgList

----------------------------------------------------------------------------
(* The pender implements MessageOutcome: a message is pending from its     *)
(* insertion in the table until the callback that reports its outcome.     *)

Acking(i) == \E c \in Callers : pc[c] = "acked" /\ arg[c] = i

Status(i) == IF failed[i] > 0 THEN "failed"
             ELSE IF acked[i] > 0 THEN "acked"
             ELSE IF i \in msgList \union toFail \/ Acking(i) THEN "pending"
             ELSE "new"

Outcome == INSTANCE MessageOutcome
             WITH status <- [i \in Ids |-> Status(i)], resends <- retryCount

\* Every step of the goroutines is a step of MessageOutcome or changes
\* nothing it sees.
ImplementsOutcome == Outcome!Spec

----------------------------------------------------------------------------
(* The inductive invariant.  A message is always in one place: about to be *)
(* pended, in the table, taken out by an ACK, taken out by clearUp, or     *)
(* settled.                                                                *)

\* The holder of the mutex is the one in its critical section.
MutexInv ==
  /\ \A c \in Callers : pc[c] \in {"pend", "lookup", "delete"} => mx = c
  /\ cpc \in {"scan", "delete"} => mx = ClearUp

Entering(c) == pc[c] \in {"lockPend", "pend"}
Owning(c) == Entering(c) \/ pc[c] = "acked"

PlaceInv ==
  /\ msgList \subseteq pended
  /\ \A c \in Callers :
       /\ pc[c] = "delete" => arg[c] \in msgList
       /\ Owning(c) => arg[c] \in pended \ (msgList \union toFail)
  /\ \A c, d \in Callers : Owning(c) /\ Owning(d) /\ arg[c] = arg[d] => c = d
  /\ cpc \in {"wait", "lock", "scan"} => toFail = {} /\ toRetry = {}
  /\ cpc = "delete" => toFail \subseteq msgList
  /\ cpc = "callbacks" => toFail \subseteq pended \ msgList

Unsettled(i) == \/ i \notin pended \/ i \in msgList \/ i \in toFail
                \/ \E c \in Callers : Owning(c) /\ arg[c] = i

OutcomeInv == \A i \in Ids : Unsettled(i) => acked[i] = 0 /\ failed[i] = 0

\* What is still true of the two snapshots when their callbacks run.
SnapshotInv ==
  /\ \A i \in toFail : GivenUp(i)
  /\ \A i \in toRetry : /\ i \in pended \ toFail
                        /\ i \in msgList \/ acked[i] > 0 \/ Acking(i)
                        /\ failed[i] = 0 /\ late[i] = 0
                        /\ retryCount[i] < MaxRetry
                        /\ RetryDue(i)
                        /\ \A c \in Callers : Entering(c) => arg[c] # i
  /\ \A i \in Ids : i \in msgList \/ i \notin pended => late[i] = 0
  /\ \A c \in Callers : Entering(c) => late[arg[c]] = 0 /\ retryCount[arg[c]] = 0
  /\ \A i \in Ids : i \notin pended => retryCount[i] = 0

IndInv == /\ TypeOK /\ MutexInv /\ PlaceInv /\ OutcomeInv /\ SnapshotInv
          /\ OneOutcome /\ RetryBound /\ AtMostOneLateRetry

============================================================================
