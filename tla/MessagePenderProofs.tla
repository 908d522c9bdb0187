------------------------ MODULE MessagePenderProofs ------------------------
(***************************************************************************)
(* Proofs about MessagePender for any number of messages and callers, any  *)
(* TTL, MaxRetry and RetryInterval.                                        *)
(***************************************************************************)
EXTENDS MessagePender, TLAPS

\* The assumptions on the constants, in the form the steps use.
LEMMA Constants == /\ MaxTime \in Nat /\ TTL \in Nat /\ MaxRetry \in Nat
                   /\ RetryInterval \in Nat
                   /\ Free # ClearUp /\ NoId \notin Ids
                   /\ \A c \in Callers : c # Free /\ c # ClearUp
BY CallersAssumption, IdsAssumption, OptsAssumption, BoundsAssumption

LEMMA InitInv == Init => IndInv
<1> SUFFICES ASSUME Init PROVE IndInv
  OBVIOUS
<1>1. TypeOK
  <2>1. tick \in BOOLEAN /\ mx \in Goroutines \union {Free}
    BY DEF Init, Goroutines
  <2>2. /\ now \in 0 .. MaxTime
        /\ msgList \subseteq Ids /\ pended \subseteq Ids
        /\ toFail \subseteq Ids /\ toRetry \subseteq Ids
        /\ pc \in [Callers -> CallerSteps] /\ cpc \in ClearUpSteps
        /\ arg \in [Callers -> Ids \union AckIds \union {NoId}]
    BY Constants DEF Init, CallerSteps, ClearUpSteps
  <2>3. /\ sendAt \in [Ids -> Nat] /\ lastRetryAt \in [Ids -> Nat]
        /\ retryCount \in [Ids -> Nat] /\ acked \in [Ids -> Nat]
        /\ failed \in [Ids -> Nat] /\ late \in [Ids -> Nat]
    BY DEF Init
  <2> QED BY <2>1, <2>2, <2>3 DEF TypeOK
<1>2. MutexInv /\ PlaceInv
  BY DEF Init, MutexInv, PlaceInv, Entering, Owning
<1>3. OutcomeInv /\ OneOutcome
  BY DEF Init, OutcomeInv, OneOutcome
<1>4. SnapshotInv /\ RetryBound /\ AtMostOneLateRetry
  BY Constants DEF Init, SnapshotInv, RetryBound, AtMostOneLateRetry, Entering
<1> QED
  BY <1>1, <1>2, <1>3, <1>4 DEF IndInv

----------------------------------------------------------------------------
(* One lemma per conjunct of the invariant.                                *)

LEMMA TypeStep == IndInv /\ [Next]_vars => TypeOK'
<1> SUFFICES ASSUME IndInv, [Next]_vars PROVE TypeOK'
  OBVIOUS
<1> USE Constants DEF TypeOK, CallerSteps, ClearUpSteps, Goroutines, IndInv,
        settings, records, callerVars, clearUpVars, history, Goto, Return,
        Lock, Unlock
<1>1. CASE Advance
  BY <1>1 DEF Advance
<1>2. ASSUME NEW c \in Callers, NEW i \in Ids, NEW stamp \in Stamps,
             CallPend(c, i, stamp)
      PROVE  TypeOK'
  BY <1>2 DEF CallPend, Stamps
<1>3. ASSUME NEW c \in Callers, NEW i \in AckIds, CallUnPend(c, i) PROVE TypeOK'
  BY <1>3 DEF CallUnPend
<1>4. ASSUME NEW c \in Callers, CallerRun(c) PROVE TypeOK'
  <2>1. CASE PendLock(c)
    BY <2>1 DEF PendLock
  <2>2. CASE Pend(c)
    <3>1. arg[c] \in Ids
      BY <2>2 DEF Pend, PlaceInv, Owning, Entering
    <3> QED BY <2>2, <3>1 DEF Pend
  <2>3. CASE UnPendLock(c)
    BY <2>3 DEF UnPendLock
  <2>4. CASE UnPendFound(c)
    BY <2>4 DEF UnPendFound
  <2>5. CASE UnPendNotFound(c)
    BY <2>5 DEF UnPendNotFound
  <2>6. CASE UnPendDelete(c)
    BY <2>6 DEF UnPendDelete
  <2>7. CASE OnMsgAcked(c)
    <3>1. arg[c] \in Ids
      BY <2>7 DEF OnMsgAcked, PlaceInv, Owning
    <3> QED BY <2>7, <3>1 DEF OnMsgAcked
  <2> QED BY <1>4, <2>1, <2>2, <2>3, <2>4, <2>5, <2>6, <2>7 DEF CallerRun
<1>5. CASE ClearUpTick
  BY <1>5 DEF ClearUpTick
<1>6. CASE ClearUpLock
  BY <1>6 DEF ClearUpLock
<1>7. CASE ClearUpScan
  BY <1>7 DEF ClearUpScan
<1>8. CASE ClearUpDelete
  BY <1>8 DEF ClearUpDelete
<1>9. CASE ClearUpDone
  BY <1>9 DEF ClearUpDone
<1>10. ASSUME NEW i \in Ids, OnMsgFailed(i) PROVE TypeOK'
  BY <1>10 DEF OnMsgFailed
<1>11. ASSUME NEW i \in Ids, OnMsgRetry(i) PROVE TypeOK'
  BY <1>11 DEF OnMsgRetry
<1>12. CASE UNCHANGED vars
  BY <1>12 DEF vars
<1> QED BY <1>1, <1>2, <1>3, <1>4, <1>5, <1>6, <1>7, <1>8, <1>9, <1>10,
           <1>11, <1>12 DEF Next, ClearUpRun

LEMMA MutexStep == IndInv /\ [Next]_vars => MutexInv'
<1> SUFFICES ASSUME IndInv, [Next]_vars PROVE MutexInv'
  OBVIOUS
<1> USE Constants DEF IndInv, TypeOK, CallerSteps, ClearUpSteps, MutexInv,
        settings, records, callerVars, clearUpVars, history, Goto, Return,
        Lock, Unlock
<1>1. CASE Advance
  BY <1>1 DEF Advance
<1>2. ASSUME NEW c \in Callers, NEW i \in Ids, NEW stamp \in Stamps,
             CallPend(c, i, stamp)
      PROVE  MutexInv'
  BY <1>2 DEF CallPend
<1>3. ASSUME NEW c \in Callers, NEW i \in AckIds, CallUnPend(c, i) PROVE MutexInv'
  BY <1>3 DEF CallUnPend
<1>4. ASSUME NEW c \in Callers, CallerRun(c) PROVE MutexInv'
  <2>1. CASE PendLock(c)
    BY <2>1 DEF PendLock
  <2>2. CASE Pend(c)
    BY <2>2 DEF Pend
  <2>3. CASE UnPendLock(c)
    BY <2>3 DEF UnPendLock
  <2>4. CASE UnPendFound(c)
    BY <2>4 DEF UnPendFound
  <2>5. CASE UnPendNotFound(c)
    BY <2>5 DEF UnPendNotFound
  <2>6. CASE UnPendDelete(c)
    BY <2>6 DEF UnPendDelete
  <2>7. CASE OnMsgAcked(c)
    BY <2>7 DEF OnMsgAcked
  <2> QED BY <1>4, <2>1, <2>2, <2>3, <2>4, <2>5, <2>6, <2>7 DEF CallerRun
<1>5. CASE ClearUpTick
  BY <1>5 DEF ClearUpTick
<1>6. CASE ClearUpLock
  BY <1>6 DEF ClearUpLock
<1>7. CASE ClearUpScan
  BY <1>7 DEF ClearUpScan
<1>8. CASE ClearUpDelete
  BY <1>8 DEF ClearUpDelete
<1>9. CASE ClearUpDone
  BY <1>9 DEF ClearUpDone
<1>10. ASSUME NEW i \in Ids, OnMsgFailed(i) PROVE MutexInv'
  BY <1>10 DEF OnMsgFailed
<1>11. ASSUME NEW i \in Ids, OnMsgRetry(i) PROVE MutexInv'
  BY <1>11 DEF OnMsgRetry
<1>12. CASE UNCHANGED vars
  BY <1>12 DEF vars
<1> QED BY <1>1, <1>2, <1>3, <1>4, <1>5, <1>6, <1>7, <1>8, <1>9, <1>10,
           <1>11, <1>12 DEF Next, ClearUpRun

LEMMA PlaceStep == IndInv /\ [Next]_vars => PlaceInv'
<1> SUFFICES ASSUME IndInv, [Next]_vars PROVE PlaceInv'
  OBVIOUS
<1> USE Constants DEF IndInv, TypeOK, CallerSteps, ClearUpSteps, MutexInv, PlaceInv, Owning, Entering,
        settings, records, callerVars, clearUpVars, history, Goto, Return,
        Lock, Unlock
<1>1. CASE Advance
  BY <1>1 DEF Advance
<1>2. ASSUME NEW c \in Callers, NEW i \in Ids, NEW stamp \in Stamps,
             CallPend(c, i, stamp)
      PROVE  PlaceInv'
  BY <1>2 DEF CallPend
<1>3. ASSUME NEW c \in Callers, NEW i \in AckIds, CallUnPend(c, i) PROVE PlaceInv'
  BY <1>3 DEF CallUnPend
<1>4. ASSUME NEW c \in Callers, CallerRun(c) PROVE PlaceInv'
  <2>1. CASE PendLock(c)
    BY <2>1 DEF PendLock
  <2>2. CASE Pend(c)
    BY <2>2 DEF Pend
  <2>3. CASE UnPendLock(c)
    BY <2>3 DEF UnPendLock
  <2>4. CASE UnPendFound(c)
    BY <2>4 DEF UnPendFound
  <2>5. CASE UnPendNotFound(c)
    BY <2>5 DEF UnPendNotFound
  <2>6. CASE UnPendDelete(c)
    BY <2>6 DEF UnPendDelete
  <2>7. CASE OnMsgAcked(c)
    BY <2>7 DEF OnMsgAcked
  <2> QED BY <1>4, <2>1, <2>2, <2>3, <2>4, <2>5, <2>6, <2>7 DEF CallerRun
<1>5. CASE ClearUpTick
  BY <1>5 DEF ClearUpTick
<1>6. CASE ClearUpLock
  BY <1>6 DEF ClearUpLock
<1>7. CASE ClearUpScan
  BY <1>7 DEF ClearUpScan
<1>8. CASE ClearUpDelete
  BY <1>8 DEF ClearUpDelete
<1>9. CASE ClearUpDone
  BY <1>9 DEF ClearUpDone
<1>10. ASSUME NEW i \in Ids, OnMsgFailed(i) PROVE PlaceInv'
  BY <1>10 DEF OnMsgFailed
<1>11. ASSUME NEW i \in Ids, OnMsgRetry(i) PROVE PlaceInv'
  BY <1>11 DEF OnMsgRetry
<1>12. CASE UNCHANGED vars
  BY <1>12 DEF vars
<1> QED BY <1>1, <1>2, <1>3, <1>4, <1>5, <1>6, <1>7, <1>8, <1>9, <1>10,
           <1>11, <1>12 DEF Next, ClearUpRun

LEMMA OutcomeStep == IndInv /\ [Next]_vars => (OutcomeInv /\ OneOutcome)'
<1> SUFFICES ASSUME IndInv, [Next]_vars PROVE (OutcomeInv /\ OneOutcome)'
  OBVIOUS
<1> USE Constants DEF IndInv, TypeOK, CallerSteps, ClearUpSteps, MutexInv, PlaceInv, Owning, Entering, OutcomeInv, OneOutcome, Unsettled,
        settings, records, callerVars, clearUpVars, history, Goto, Return,
        Lock, Unlock
<1>1. CASE Advance
  BY <1>1 DEF Advance
<1>2. ASSUME NEW c \in Callers, NEW i \in Ids, NEW stamp \in Stamps,
             CallPend(c, i, stamp)
      PROVE  (OutcomeInv /\ OneOutcome)'
  BY <1>2 DEF CallPend
<1>3. ASSUME NEW c \in Callers, NEW i \in AckIds, CallUnPend(c, i) PROVE (OutcomeInv /\ OneOutcome)'
  BY <1>3 DEF CallUnPend
<1>4. ASSUME NEW c \in Callers, CallerRun(c) PROVE (OutcomeInv /\ OneOutcome)'
  <2>1. CASE PendLock(c)
    BY <2>1 DEF PendLock
  <2>2. CASE Pend(c)
    BY <2>2 DEF Pend
  <2>3. CASE UnPendLock(c)
    BY <2>3 DEF UnPendLock
  <2>4. CASE UnPendFound(c)
    BY <2>4 DEF UnPendFound
  <2>5. CASE UnPendNotFound(c)
    BY <2>5 DEF UnPendNotFound
  <2>6. CASE UnPendDelete(c)
    BY <2>6 DEF UnPendDelete
  <2>7. CASE OnMsgAcked(c)
    BY <2>7 DEF OnMsgAcked
  <2> QED BY <1>4, <2>1, <2>2, <2>3, <2>4, <2>5, <2>6, <2>7 DEF CallerRun
<1>5. CASE ClearUpTick
  BY <1>5 DEF ClearUpTick
<1>6. CASE ClearUpLock
  BY <1>6 DEF ClearUpLock
<1>7. CASE ClearUpScan
  BY <1>7 DEF ClearUpScan
<1>8. CASE ClearUpDelete
  BY <1>8 DEF ClearUpDelete
<1>9. CASE ClearUpDone
  BY <1>9 DEF ClearUpDone
<1>10. ASSUME NEW i \in Ids, OnMsgFailed(i) PROVE (OutcomeInv /\ OneOutcome)'
  BY <1>10 DEF OnMsgFailed
<1>11. ASSUME NEW i \in Ids, OnMsgRetry(i) PROVE (OutcomeInv /\ OneOutcome)'
  BY <1>11 DEF OnMsgRetry
<1>12. CASE UNCHANGED vars
  BY <1>12 DEF vars
<1> QED BY <1>1, <1>2, <1>3, <1>4, <1>5, <1>6, <1>7, <1>8, <1>9, <1>10,
           <1>11, <1>12 DEF Next, ClearUpRun

LEMMA SnapshotStep == IndInv /\ [Next]_vars => (SnapshotInv /\ RetryBound /\ AtMostOneLateRetry)'
<1> SUFFICES ASSUME IndInv, [Next]_vars PROVE (SnapshotInv /\ RetryBound /\ AtMostOneLateRetry)'
  OBVIOUS
<1> USE Constants DEF IndInv, TypeOK, CallerSteps, ClearUpSteps, MutexInv, PlaceInv, Owning, Entering, OutcomeInv, SnapshotInv, RetryBound, AtMostOneLateRetry, Unsettled, Acking, GivenUp, Expired, RetryDue,
        settings, records, callerVars, clearUpVars, history, Goto, Return,
        Lock, Unlock
<1>1. CASE Advance
  BY <1>1 DEF Advance
<1>2. ASSUME NEW c \in Callers, NEW i \in Ids, NEW stamp \in Stamps,
             CallPend(c, i, stamp)
      PROVE  (SnapshotInv /\ RetryBound /\ AtMostOneLateRetry)'
  BY <1>2 DEF CallPend
<1>3. ASSUME NEW c \in Callers, NEW i \in AckIds, CallUnPend(c, i) PROVE (SnapshotInv /\ RetryBound /\ AtMostOneLateRetry)'
  BY <1>3 DEF CallUnPend
<1>4. ASSUME NEW c \in Callers, CallerRun(c) PROVE (SnapshotInv /\ RetryBound /\ AtMostOneLateRetry)'
  <2>1. CASE PendLock(c)
    BY <2>1 DEF PendLock
  <2>2. CASE Pend(c)
    BY <2>2 DEF Pend
  <2>3. CASE UnPendLock(c)
    BY <2>3 DEF UnPendLock
  <2>4. CASE UnPendFound(c)
    BY <2>4 DEF UnPendFound
  <2>5. CASE UnPendNotFound(c)
    BY <2>5 DEF UnPendNotFound
  <2>6. CASE UnPendDelete(c)
    BY <2>6 DEF UnPendDelete
  <2>7. CASE OnMsgAcked(c)
    BY <2>7 DEF OnMsgAcked
  <2> QED BY <1>4, <2>1, <2>2, <2>3, <2>4, <2>5, <2>6, <2>7 DEF CallerRun
<1>5. CASE ClearUpTick
  BY <1>5 DEF ClearUpTick
<1>6. CASE ClearUpLock
  BY <1>6 DEF ClearUpLock
<1>7. CASE ClearUpScan
  BY <1>7 DEF ClearUpScan
<1>8. CASE ClearUpDelete
  BY <1>8 DEF ClearUpDelete
<1>9. CASE ClearUpDone
  BY <1>9 DEF ClearUpDone
<1>10. ASSUME NEW i \in Ids, OnMsgFailed(i) PROVE (SnapshotInv /\ RetryBound /\ AtMostOneLateRetry)'
  BY <1>10 DEF OnMsgFailed
<1>11. ASSUME NEW i \in Ids, OnMsgRetry(i) PROVE (SnapshotInv /\ RetryBound /\ AtMostOneLateRetry)'
  BY <1>11 DEF OnMsgRetry
<1>12. CASE UNCHANGED vars
  BY <1>12 DEF vars
<1> QED BY <1>1, <1>2, <1>3, <1>4, <1>5, <1>6, <1>7, <1>8, <1>9, <1>10,
           <1>11, <1>12 DEF Next, ClearUpRun

----------------------------------------------------------------------------
(* The theorems.                                                           *)

LEMMA StepInv == IndInv /\ [Next]_vars => IndInv'
BY TypeStep, MutexStep, PlaceStep, OutcomeStep, SnapshotStep DEF IndInv

\* The strengthened invariant of service/message.go's pender holds always.
THEOREM Inductive == Spec => []IndInv
BY InitInv, StepInv, PTL DEF Spec

\* Every variable keeps its type: no map access of clearUp, Pend or UnPend
\* leaves the set of pended messages.
THEOREM TypeCorrect == Spec => []TypeOK
<1>1. IndInv => TypeOK
  BY DEF IndInv
<1> QED BY Inductive, <1>1, PTL

\* OnMsgAcked and OnMsgFailed together run at most once for a message.
THEOREM OutcomeUnique == Spec => []OneOutcome
<1>1. IndInv => OneOutcome
  BY DEF IndInv
<1> QED BY Inductive, <1>1, PTL

\* OnMsgRetry runs at most MaxRetry times for a message.
THEOREM RetriesBounded == Spec => []RetryBound
<1>1. IndInv => RetryBound
  BY DEF IndInv
<1> QED BY Inductive, <1>1, PTL

\* A message is sent at most once after its ACK or failure took it out.
THEOREM LateRetriesBounded == Spec => []AtMostOneLateRetry
<1>1. IndInv => AtMostOneLateRetry
  BY DEF IndInv
<1> QED BY Inductive, <1>1, PTL

\* The step that changes a retry count is OnMsgRetry, or Pend's reset to the
\* value the entering message already has.
LEMMA RetrySteps ==
  ASSUME IndInv, [Next]_vars, NEW i \in Ids, retryCount'[i] > retryCount[i]
  PROVE  OnMsgRetry(i)
<1> USE DEF IndInv, TypeOK, records, settings, callerVars, clearUpVars, history
<1>1. ASSUME NEW c \in Callers, CallerRun(c) PROVE FALSE
  <2>1. CASE Pend(c)
    BY <2>1 DEF Pend, PlaceInv, Owning, Entering, SnapshotInv
  <2> QED
    BY <1>1, <2>1 DEF CallerRun, PendLock, UnPendLock, UnPendFound,
       UnPendNotFound, UnPendDelete, OnMsgAcked
<1>2. ASSUME NEW j \in Ids, OnMsgRetry(j) PROVE j = i
  BY <1>2 DEF OnMsgRetry
<1>3. ASSUME Advance \/ \E c \in Callers : \/ \E j \in Ids, s \in Stamps : CallPend(c, j, s)
                                           \/ \E j \in AckIds : CallUnPend(c, j)
      PROVE  FALSE
  BY <1>3 DEF Advance, CallPend, CallUnPend
<1>4. ASSUME \/ ClearUpTick \/ ClearUpLock \/ ClearUpScan \/ ClearUpDelete
             \/ ClearUpDone \/ \E j \in Ids : OnMsgFailed(j)
      PROVE  FALSE
  BY <1>4 DEF ClearUpTick, ClearUpLock, ClearUpScan, ClearUpDelete,
     ClearUpDone, OnMsgFailed
<1>5. ~UNCHANGED vars
  BY DEF vars
<1> QED BY <1>1, <1>2, <1>3, <1>4, <1>5 DEF Next, ClearUpRun

\* Two sends of a message are at least RetryInterval apart: the snapshot of
\* message.go:72-76 may be old when its callback runs, never too young.
THEOREM RetriesSpaced == Spec => RetrySpacing
<1>1. IndInv /\ [Next]_vars
      => [\A i \in Ids : retryCount'[i] > retryCount[i]
            => now >= lastRetryAt[i] + RetryInterval]_vars
  BY RetrySteps DEF OnMsgRetry, IndInv, SnapshotInv, RetryDue
<1> QED BY Inductive, <1>1, PTL DEF Spec, RetrySpacing

\* A message whose sender was told "failed" is never sent again.
THEOREM FailureIsFinal == Spec => NoRetryAfterFailure
<1>1. IndInv /\ [Next]_vars
      => [\A i \in Ids : retryCount'[i] > retryCount[i] => failed'[i] = 0]_vars
  BY RetrySteps DEF OnMsgRetry, IndInv, SnapshotInv, history
<1> QED BY Inductive, <1>1, PTL DEF Spec, NoRetryAfterFailure

\* OnMsgFailed runs only for a message past its TTL or out of retries.
THEOREM FailuresJustified == Spec => FailureJustified
<1>1. ASSUME IndInv, [Next]_vars, NEW i \in Ids, failed'[i] > failed[i]
      PROVE  GivenUp(i)
  <2> USE DEF IndInv, TypeOK, records, settings, callerVars, clearUpVars, history
  <2>1. ASSUME NEW j \in Ids, OnMsgFailed(j) PROVE j = i
    BY <1>1, <2>1 DEF OnMsgFailed
  <2>2. ASSUME NEW j \in Ids, OnMsgRetry(j) PROVE FALSE
    BY <1>1, <2>2 DEF OnMsgRetry
  <2>3. ASSUME NEW c \in Callers, CallerRun(c) PROVE FALSE
    BY <1>1, <2>3 DEF CallerRun, PendLock, Pend, UnPendLock, UnPendFound,
       UnPendNotFound, UnPendDelete, OnMsgAcked
  <2>4. OnMsgFailed(i)
    BY <1>1, <2>1, <2>2, <2>3 DEF Next, ClearUpRun, Advance, CallPend,
       CallUnPend, ClearUpTick, ClearUpLock, ClearUpScan, ClearUpDelete,
       ClearUpDone, vars
  <2> QED BY <1>1, <2>4 DEF OnMsgFailed, SnapshotInv
<1>2. IndInv /\ [Next]_vars
      => [\A i \in Ids : failed'[i] > failed[i] => GivenUp(i)]_vars
  BY <1>1
<1> QED BY Inductive, <1>2, PTL DEF Spec, FailureJustified

\* A caller that returned with the mutex keeps it for ever: it is not in its
\* critical section, so that nobody is, and only who is changes the map.
LEMMA LeakStep ==
  ASSUME IndInv, [Next]_vars, Leaked
  PROVE  mx' = mx /\ msgList' = msgList /\ Leaked'
<1> USE Constants DEF IndInv, TypeOK, MutexInv, Leaked, InCriticalSection, CallerSteps,
        ClearUpSteps, settings, records, callerVars, clearUpVars, history, Goto, Return,
        Lock, Unlock
<1>1. ASSUME NEW c \in Callers, CallerRun(c) PROVE UNCHANGED <<mx, msgList>> /\ Leaked'
  <2>1. ~(PendLock(c) \/ Pend(c) \/ UnPendLock(c) \/ UnPendFound(c)
            \/ UnPendNotFound(c) \/ UnPendDelete(c))
    BY DEF PendLock, Pend, UnPendLock, UnPendFound, UnPendNotFound, UnPendDelete
  <2> QED
    BY <1>1, <2>1 DEF CallerRun, OnMsgAcked
<1>2. ASSUME NEW c \in Callers, NEW i \in Ids, NEW stamp \in Stamps, CallPend(c, i, stamp)
      PROVE  UNCHANGED <<mx, msgList>> /\ Leaked'
  BY <1>2 DEF CallPend
<1>3. ASSUME NEW c \in Callers, NEW i \in AckIds, CallUnPend(c, i)
      PROVE  UNCHANGED <<mx, msgList>> /\ Leaked'
  BY <1>3 DEF CallUnPend
<1>4. ASSUME ClearUpRun PROVE UNCHANGED <<mx, msgList>> /\ Leaked'
  <2>1. ~(ClearUpLock \/ ClearUpScan \/ ClearUpDelete)
    BY DEF ClearUpLock, ClearUpScan, ClearUpDelete
  <2> QED
    BY <1>4, <2>1 DEF ClearUpRun, ClearUpTick, ClearUpDone, OnMsgFailed, OnMsgRetry
<1>5. CASE Advance \/ UNCHANGED vars
  BY <1>5 DEF Advance, vars
<1> QED
  BY <1>1, <1>2, <1>3, <1>4, <1>5 DEF Next

\* UnPend returns without unlocking when it finds no entry (message.go:111-114):
\* from then on the map never changes again, for any callers and messages.
THEOREM LeakFreezesTable == Spec => LostForGood
<1>1. IndInv /\ [Next]_vars => [Leaked => Leaked' /\ mx' = mx /\ msgList' = msgList]_vars
  BY LeakStep
<1> QED BY Inductive, <1>1, PTL DEF Spec, LostForGood

\* Whoever takes the mutex goes into its critical section with it, and leaves
\* that by releasing it, unless UnPend finds no entry.
LEMMA LeakCause ==
  ASSUME IndInv, [Next]_vars, ~Leaked, \A c \in Callers : ~UnPendNotFound(c)
  PROVE  ~Leaked'
<1> USE Constants DEF IndInv, TypeOK, MutexInv, Leaked, InCriticalSection, CallerSteps,
        ClearUpSteps, settings, records, callerVars, clearUpVars, history, Goto, Return,
        Lock, Unlock
<1>1. ASSUME NEW c \in Callers, CallerRun(c) PROVE ~Leaked'
  <2>1. CASE PendLock(c) \/ UnPendLock(c)
    BY <2>1 DEF PendLock, UnPendLock
  <2>2. CASE Pend(c) \/ UnPendDelete(c)
    BY <2>2 DEF Pend, UnPendDelete
  <2>3. CASE UnPendFound(c) \/ OnMsgAcked(c)
    BY <2>3 DEF UnPendFound, OnMsgAcked
  <2> QED
    BY <1>1, <2>1, <2>2, <2>3 DEF CallerRun
<1>2. ASSUME NEW c \in Callers, NEW i \in Ids, NEW stamp \in Stamps, CallPend(c, i, stamp)
      PROVE  ~Leaked'
  BY <1>2 DEF CallPend
<1>3. ASSUME NEW c \in Callers, NEW i \in AckIds, CallUnPend(c, i) PROVE ~Leaked'
  BY <1>3 DEF CallUnPend
<1>4. ASSUME ClearUpRun PROVE ~Leaked'
  BY <1>4 DEF ClearUpRun, ClearUpTick, ClearUpLock, ClearUpScan, ClearUpDelete, ClearUpDone,
     OnMsgFailed, OnMsgRetry
<1>5. CASE Advance \/ UNCHANGED vars
  BY <1>5 DEF Advance, vars
<1> QED
  BY <1>1, <1>2, <1>3, <1>4, <1>5 DEF Next

\* The early return of UnPend is the only step that loses the mutex: Pend and
\* clearUp (message.go:53-107) release it on every path.
THEOREM OnlyUnPendLosesMutex == Spec => LostByUnPendOnly
<1>1. IndInv /\ [Next]_vars
      => [~Leaked /\ Leaked' => \E c \in Callers : UnPendNotFound(c)]_vars
  BY LeakCause
<1> QED BY Inductive, <1>1, PTL DEF Spec, LostByUnPendOnly

----------------------------------------------------------------------------
(* The refinement.                                                         *)

\* A step under which no message changes its status is a stutter.
LEMMA SameStatus ==
  ASSUME \A i \in Ids : Status(i)' = Status(i), retryCount' = retryCount
  PROVE  UNCHANGED Outcome!vars
BY DEF Outcome!vars

LEMMA MapMove ==
  ASSUME NEW i \in Ids, NEW from, NEW to,
         Status(i) = from, Status(i)' = to,
         \A j \in Ids \ {i} : Status(j)' = Status(j),
         retryCount' = retryCount
  PROVE  Outcome!Move(i, from, to)
BY DEF Outcome!Move

LEMMA RefinementStep == IndInv /\ [Next]_vars => [Outcome!Next]_(Outcome!vars)
<1> SUFFICES ASSUME IndInv, [Next]_vars PROVE [Outcome!Next]_(Outcome!vars)
  OBVIOUS
<1> USE DEF IndInv, TypeOK, CallerSteps, settings, records, callerVars, clearUpVars, history,
        Goto, Return
<1>1. CASE \/ Advance
           \/ \E c \in Callers : \/ \E i \in Ids, s \in Stamps : CallPend(c, i, s)
                                 \/ \E i \in AckIds : CallUnPend(c, i)
           \/ ClearUpTick \/ ClearUpLock \/ ClearUpDelete \/ ClearUpDone
           \/ UNCHANGED vars
  <2>1. \A i \in Ids : Acking(i)' = Acking(i)
    BY <1>1 DEF Acking, Advance, CallPend, CallUnPend, ClearUpTick,
       ClearUpLock, ClearUpDelete, ClearUpDone, vars
  <2>2. \A i \in Ids : Status(i)' = Status(i)
    BY <1>1, <2>1 DEF Status, PlaceInv, Advance, CallPend, CallUnPend,
       ClearUpTick, ClearUpLock, ClearUpDelete, ClearUpDone, vars
  <2>3. retryCount' = retryCount
    BY <1>1 DEF Advance, CallPend, CallUnPend, ClearUpTick,
       ClearUpLock, ClearUpDelete, ClearUpDone, vars
  <2> QED BY <2>2, <2>3, SameStatus
<1>2. CASE ClearUpScan
  BY <1>2, SameStatus DEF ClearUpScan, Status, Acking, PlaceInv
<1>3. ASSUME NEW c \in Callers,
             PendLock(c) \/ UnPendLock(c) \/ UnPendFound(c) \/ UnPendNotFound(c)
      PROVE  UNCHANGED Outcome!vars
  BY <1>3, SameStatus DEF PendLock, UnPendLock, UnPendFound, UnPendNotFound,
     Status, Acking
<1>4. ASSUME NEW c \in Callers, Pend(c) PROVE Outcome!Next
  <2> PICK i \in Ids : i = arg[c]
    BY <1>4 DEF Pend, PlaceInv, Owning, Entering
  <2>1. Owning(c) /\ i \notin msgList \union toFail
    BY <1>4 DEF Pend, PlaceInv, Owning, Entering
  <2>2. /\ acked[i] = 0 /\ failed[i] = 0 /\ ~Acking(i)
        /\ \A j \in Ids : Acking(j)' = Acking(j)
    BY <1>4, <2>1 DEF Pend, PlaceInv, Owning, Entering, Acking, OutcomeInv, Unsettled
  <2>3. Status(i) = "new" /\ Status(i)' = "pending"
    BY <1>4, <2>1, <2>2 DEF Pend, Status
  <2>4. \A j \in Ids \ {i} : Status(j)' = Status(j)
    BY <1>4, <2>1, <2>2 DEF Pend, Status
  <2>5. retryCount' = retryCount
    BY <1>4, <2>1 DEF Pend, SnapshotInv, Entering
  <2>6. Outcome!Move(i, "new", "pending")
    BY <2>1, <2>3, <2>4, <2>5, MapMove
  <2> QED BY <2>1, <2>6 DEF Outcome!Next
<1>5. ASSUME NEW c \in Callers, UnPendDelete(c) PROVE UNCHANGED Outcome!vars
  <2>1. /\ \A j \in Ids \ {arg[c]} : Acking(j)' = Acking(j)
        /\ Acking(arg[c])' /\ arg[c] \in msgList
    BY <1>5 DEF UnPendDelete, Acking, PlaceInv
  <2>2. \A j \in Ids : Status(j)' = Status(j)
    BY <1>5, <2>1 DEF UnPendDelete, Status
  <2> QED BY <1>5, <2>2, SameStatus DEF UnPendDelete
<1>6. ASSUME NEW c \in Callers, OnMsgAcked(c) PROVE Outcome!Next
  <2> PICK i \in Ids : i = arg[c]
    BY <1>6 DEF OnMsgAcked, PlaceInv, Owning
  <2>1. Owning(c)
    BY <1>6 DEF OnMsgAcked, Owning
  <2>2. /\ acked[i] = 0 /\ failed[i] = 0 /\ Acking(i)
        /\ \A j \in Ids \ {i} : Acking(j)' = Acking(j)
    BY <1>6, <2>1 DEF OnMsgAcked, Acking, OutcomeInv, Unsettled
  <2>3. Status(i) = "pending" /\ Status(i)' = "acked"
    BY <1>6, <2>1, <2>2 DEF OnMsgAcked, Status
  <2>4. \A j \in Ids \ {i} : Status(j)' = Status(j)
    BY <1>6, <2>1, <2>2 DEF OnMsgAcked, Status
  <2>5. Outcome!Move(i, "pending", "acked")
    BY <1>6, <2>1, <2>3, <2>4, MapMove DEF OnMsgAcked
  <2> QED BY <2>1, <2>5 DEF Outcome!Next
<1>7. ASSUME NEW i \in Ids, OnMsgFailed(i) PROVE Outcome!Next
  <2>1. acked[i] = 0 /\ failed[i] = 0
    BY <1>7 DEF OnMsgFailed, OutcomeInv, Unsettled
  <2>2. \A j \in Ids : Acking(j)' = Acking(j)
    BY <1>7 DEF OnMsgFailed, Acking
  <2>3. Status(i) = "pending" /\ Status(i)' = "failed"
    BY <1>7, <2>1, <2>2 DEF OnMsgFailed, Status
  <2>4. \A j \in Ids \ {i} : Status(j)' = Status(j)
    BY <1>7, <2>2 DEF OnMsgFailed, Status
  <2>5. Outcome!Move(i, "pending", "failed")
    BY <1>7, <2>3, <2>4, MapMove DEF OnMsgFailed
  <2> QED BY <2>5 DEF Outcome!Next
<1>8. ASSUME NEW i \in Ids, OnMsgRetry(i) PROVE Outcome!Next
  <2>1. \A j \in Ids : Status(j)' = Status(j)
    BY <1>8 DEF OnMsgRetry, Status, Acking
  <2>2. Status(i) \in {"pending", "acked"} /\ retryCount[i] < MaxRetry
    BY <1>8 DEF OnMsgRetry, SnapshotInv, Status
  <2>3. Outcome!Resend(i)
    BY <1>8, <2>1, <2>2 DEF OnMsgRetry, Outcome!Resend
  <2> QED BY <2>3 DEF Outcome!Next
<1> QED BY <1>1, <1>2, <1>3, <1>4, <1>5, <1>6, <1>7, <1>8
        DEF Next, CallerRun, ClearUpRun

\* The pender keeps the promise of MessageOutcome: goroutines, snapshots and
\* races between an ACK, a retry and the expiry are invisible through it.
THEOREM Implements == Spec => ImplementsOutcome
<1>1. Init => Outcome!Init
  BY DEF Init, Outcome!Init, Status, Acking
<1> QED BY Inductive, <1>1, RefinementStep, PTL
        DEF Spec, ImplementsOutcome, Outcome!Spec

============================================================================
