---------------------------- MODULE PagingProofs ----------------------------
(***************************************************************************)
(* Proofs about Paging, for any table, any page size, any bound on time and *)
(* every endpoint: the client that has read to the end has seen what stood  *)
(* there, and the lists show nothing twice but what went down meanwhile.    *)
(***************************************************************************)
EXTENDS Paging, FiniteSetTheorems, TLAPS

\* The initial state satisfies the inductive invariant.
LEMMA InitInv == Init => PagingInv
<1> SUFFICES ASSUME Init PROVE PagingInv
  OBVIOUS
<1>1. TypeOK
  <2>1. Never \in Never .. MaxTime /\ Infinity \in 0 .. MaxTime + 1
    BY PagingAssumption DEF Never, Infinity
  <2> QED  BY <2>1 DEF Init, TypeOK
<1>2. FirstPage /\ ReadDownTo /\ ReadNothingBelow /\ Apart /\ Complete /\ NoRepeat
  BY DEF Init, FirstPage, ReadDownTo, ReadNothingBelow, Apart, Complete, NoRepeat, Written
<1> QED
  BY <1>1, <1>2 DEF PagingInv

\* A row that is written, or a conversation whose second is written again, above
\* the cursor or below it, takes nothing from the rows that stand, and is not
\* read below the cursor unless its second went down.
LEMMA StampInv ==
  ASSUME PagingInv, NEW r \in Rows, NEW t \in 0 .. MaxTime, Stamp(r, t),
         \/ time[r] = Never /\ UNCHANGED <<standing, lowered>>
         \/ /\ standing' = standing \ {r}
            /\ lowered' = IF r \in seen /\ t < time[r] THEN lowered \union {r} ELSE lowered
  PROVE  PagingInv'
<1> USE PagingAssumption DEF PagingInv
<1>1. /\ ties \/ \A s \in Rows \ {r} : time[s] # t
      /\ time' = [time EXCEPT ![r] = t]
      /\ page # "end"
      /\ UNCHANGED <<endpoint, ties, cookie, seen, page, repeated, cuts, broken>>
  BY DEF Stamp, client
<1>2. MaxTime \in Nat /\ time \in [Rows -> Never .. MaxTime] /\ Never \in Int /\ Never < 0
  BY DEF TypeOK, Never
<1>3. lowered \subseteq lowered' /\ lowered' \subseteq seen
  BY DEF TypeOK
<1>4. TypeOK'
  BY <1>1, <1>2, <1>3 DEF TypeOK
<1>5. Written' = Written \union {r}
  BY <1>1, <1>2 DEF Written
<1>6. \A s \in Rows : time'[s] = IF s = r THEN t ELSE time[s]
  BY <1>1, <1>2
<1>7. standing' \subseteq standing \ {r}
  BY DEF ReadDownTo, Written
<1>8. standing \subseteq Rows
  BY DEF TypeOK
<1>9. \A s \in standing' : time'[s] = time[s] /\ ((Missed(s))' => Missed(s))
  BY <1>1, <1>6, <1>7, <1>8 DEF Missed, Hidden
<1>10. FirstPage'
  BY <1>1 DEF FirstPage, Infinity
<1>11. ReadDownTo'
  BY <1>1, <1>5, <1>7, <1>9 DEF ReadDownTo, Before
<1>12. ReadNothingBelow'
  <2> SUFFICES ASSUME endpoint \in Lists, page = "more", NEW s \in seen \ lowered'
               PROVE  cookie <= time'[s]
    BY <1>1 DEF ReadNothingBelow
  <2>1. s \in Rows /\ cookie <= time[s] /\ cookie \in Nat
    BY <1>3 DEF ReadNothingBelow, TypeOK
  <2>2. CASE s = r
    <3>1. time[r] # Never
      BY <2>1, <2>2, <1>2
    <3>2. ~(t < time[r])
      BY <2>2, <3>1
    <3> QED  BY <2>1, <2>2, <3>2, <1>2, <1>6
  <2>3. CASE s # r
    BY <2>1, <2>3, <1>6
  <2> QED  BY <2>2, <2>3
<1>13. Apart'
  BY <1>1, <1>5, <1>6 DEF Apart, Written
<1>14. Complete' /\ NoRepeat'
  BY <1>1, <1>3 DEF Complete, NoRepeat
<1> QED
  BY <1>4, <1>10, <1>11, <1>12, <1>13, <1>14

\* A page holds the newest rows that match: all of them, a full page of them, or
\* what was read before an error.
LEMMA ReadInv ==
  ASSUME PagingInv, NEW S \in SUBSET Rows, Read(S), broken' = (broken \/ ~Whole(S))
  PROVE  PagingInv'
<1> USE PagingAssumption DEF PagingInv
<1>1. /\ Selected(S)
      /\ NextCookie(S)
      /\ cuts' = cuts \union {cookie'}
      /\ seen' = seen \union S
      /\ repeated' = IF endpoint \in Lists THEN repeated \union (seen \intersect S)
                                           ELSE repeated
      /\ page' = IF Cardinality(S) < Limit THEN "end" ELSE "more"
  BY DEF Read
<1>2. /\ page # "end"
      /\ standing' = IF page = "first" THEN Written ELSE standing
      /\ UNCHANGED <<endpoint, ties, time, lowered>>
  BY DEF Read
<1>3. /\ time \in [Rows -> Never .. MaxTime] /\ cookie \in 0 .. MaxTime + 1
      /\ MaxTime \in Nat /\ Never = -1
  BY DEF TypeOK, Never
<1>4. /\ Written' = Written /\ Written \subseteq Rows
      /\ Matching \subseteq Written /\ S \subseteq Matching
      /\ \A r \in Written : time[r] \in 0 .. MaxTime
  BY <1>1, <1>2, <1>3 DEF Written, Matching, Selected
<1>5. page' = "end" /\ ~broken' => S = Matching
  <2>1. Cardinality(S) \in Nat
    BY FS_Subset, FS_CardinalityType
  <2>2. page' = "end" => Cardinality(S) # Limit
    BY <1>1, <2>1
  <2>3. ~broken' => Whole(S)
    OBVIOUS
  <2> QED  BY <2>2, <2>3 DEF Whole
<1>6. /\ \A s \in S, r \in Matching \ S : time[r] <= time[s]
      /\ page' = "more" => S # {}
  BY <1>1, FS_EmptySet DEF Selected
<1>7. page' \in {"end", "more"}
  BY <1>1
<1>8. \/ cookie' = cookie /\ (S = {} \/ endpoint = "message")
      \/ \E last \in S : IsLast(S, last) /\ cookie' = time[last]
  BY <1>1 DEF NextCookie
<1>9. TypeOK'
  <2>1. cookie' \in 0 .. MaxTime + 1
    BY <1>3, <1>4, <1>8
  <2> QED
    BY <1>1, <1>2, <1>4, <1>7, <2>1 DEF TypeOK
\* The rows that stand there and are missed are in reach of this page.
<1>10. standing' \subseteq Written
  BY <1>2 DEF ReadDownTo
<1>11. ASSUME ~broken', NEW r \in standing', (Missed(r))' PROVE r \in Matching \ S
  <2>1. r \in Written /\ r \notin S /\ Missed(r) /\ r \in Rows /\ ~broken
    BY <1>1, <1>2, <1>4, <1>10, <1>11 DEF Missed, Hidden
  <2>2. Before(r)
    <3>1. CASE page = "first"
      BY <2>1, <3>1, <1>3, <1>4 DEF FirstPage, Infinity, Before
    <3>2. CASE page = "more"
      BY <2>1, <3>2, <1>2 DEF ReadDownTo
    <3> QED  BY <1>2, <3>1, <3>2 DEF TypeOK
  <2> QED
    BY <2>1, <2>2 DEF Matching
<1>12. ReadDownTo'
  <2> SUFFICES ASSUME page' = "more", ~broken', NEW r \in standing', (Missed(r))'
               PROVE  (Before(r))'
    BY <1>4, <1>10 DEF ReadDownTo
  <2>1. r \in Matching \ S /\ Before(r)
    BY <1>11 DEF Matching
  <2>2. CASE cookie' = cookie
    BY <2>1, <2>2, <1>2 DEF Before
  <2>3. ASSUME NEW last \in S, IsLast(S, last), cookie' = time[last]
        PROVE  (Before(r))'
    <3>1. time[r] <= time[last]
      BY <1>6, <2>1
    <3>2. CASE endpoint \notin Lists
      BY <1>2, <2>3, <3>1, <3>2 DEF Before
    <3>3. CASE endpoint \in Lists
      <4>1. time[r] # time[last]
        BY <1>1, <1>2, <1>4, <2>1, <2>3, <3>3 DEF Apart, Missed, Hidden
      <4> QED  BY <1>2, <1>4, <2>1, <2>3, <3>1, <3>3, <4>1 DEF Before
    <3> QED  BY <3>2, <3>3
  <2> QED  BY <1>8, <2>2, <2>3
<1>13. \A r \in seen \ lowered : endpoint \in Lists => cookie <= time[r]
  BY <1>2 DEF FirstPage, ReadNothingBelow, TypeOK
<1>14. ReadNothingBelow'
  <2> SUFFICES ASSUME endpoint \in Lists, page' = "more", NEW r \in (seen \union S) \ lowered
               PROVE  cookie' <= time[r]
    BY <1>1, <1>2 DEF ReadNothingBelow
  <2>1. PICK last \in S : IsLast(S, last) /\ cookie' = time[last]
    BY <1>6, <1>8 DEF Lists
  <2>2. CASE r \in S
    BY <2>1, <2>2 DEF IsLast
  <2>3. CASE r \in seen
    <3>1. time[last] < cookie
      BY <1>4 DEF Matching, Before
    <3>2. r \in Rows
      BY <2>3 DEF TypeOK
    <3> QED  BY <1>3, <1>4, <1>13, <2>1, <2>3, <3>1, <3>2
  <2> QED  BY <2>2, <2>3
<1>15. NoRepeat'
  <2> SUFFICES ASSUME endpoint \in Lists, NEW r \in seen \intersect S PROVE r \in lowered
    BY <1>1, <1>2 DEF NoRepeat
  <2>1. r \in Rows /\ time[r] < cookie
    BY <1>4 DEF Matching, Before
  <2> QED  BY <1>3, <1>13, <2>1
<1>16. Complete'
  BY <1>5, <1>11 DEF Complete
<1>17. FirstPage' /\ Apart'
  BY <1>2, <1>4, <1>7 DEF FirstPage, Apart
<1> QED
  BY <1>9, <1>12, <1>14, <1>15, <1>16, <1>17

----------------------------------------------------------------------------
\* PagingInv holds in every reachable state (the SELECTs and cursors of
\* api/message.go, api/relation.go and api/conversation.go).
THEOREM Inductive == Spec => []PagingInv
<1>1. PagingInv /\ UNCHANGED vars => PagingInv'
  BY DEF vars, client, PagingInv, TypeOK, FirstPage, ReadDownTo, ReadNothingBelow, Apart,
         Complete, NoRepeat, Written, Missed, Hidden, Before
<1>2. ASSUME PagingInv, NEW r \in Rows, NEW t \in 0 .. MaxTime, Write(r, t)
      PROVE  PagingInv'
  BY <1>2, StampInv DEF Write
<1>3. ASSUME PagingInv, NEW r \in Rows, NEW t \in 0 .. MaxTime, Move(r, t)
      PROVE  PagingInv'
  BY <1>3, StampInv DEF Move
<1>4. ASSUME PagingInv, Fetch \/ FetchCutShort PROVE PagingInv'
  <2>1. PICK S \in SUBSET Rows : Read(S) /\ broken' = (broken \/ ~Whole(S))
    BY <1>4 DEF Fetch, FetchCutShort, PagingInv, TypeOK
  <2> QED  BY <1>4, <2>1, ReadInv
<1>5. PagingInv /\ [Next]_vars => PagingInv'
  BY <1>1, <1>2, <1>3, <1>4 DEF Next
<1> QED
  BY InitInv, <1>5, PTL DEF Spec

\* A client that has read to the end, no page having been cut short by an error,
\* was given every row that stood there all the time, but for rows of a second at
\* which a page of a list ended: for every table, page size and endpoint
\* (conversation_db.go:28, message_db.go, relationship_db.go).
THEOREM ReadsComplete == Spec => []Complete
  BY Inductive, PTL DEF PagingInv

\* The conversation list and the friend lists show no row twice whose second did
\* not go down after it was shown (message.go:309, service/conversation.go:36-43),
\* in whatever order the goroutines write.
THEOREM ListsNothingTwice == Spec => []NoRepeat
  BY Inductive, PTL DEF PagingInv

\* Every page but the last moves the cursor down: in the lists because they read
\* strictly below it, in the history because a page has two messages of two
\* seconds.  The cursor being a natural, a client that reads on gets to the end.
THEOREM PagesDescend == Spec => CursorFalls
<1>1. ASSUME PagingInv, GoesDown, Fetch PROVE page' = "end" \/ cookie' < cookie
  <2> USE PagingAssumption DEF PagingInv
  <2> SUFFICES ASSUME page' # "end" PROVE cookie' < cookie
    OBVIOUS
  <2>1. PICK S \in SUBSET Rows : Selected(S) /\ NextCookie(S) /\ Cardinality(S) = Limit
    <3>1. PICK T \in SUBSET Rows : Read(T)
      BY <1>1 DEF Fetch, FetchCutShort
    <3>2. Cardinality(T) \in Nat
      BY FS_Subset, FS_CardinalityType
    <3> QED  BY <3>1, <3>2 DEF Read, Selected
  <2>2. S # {} /\ endpoint # "message"
    <3>1. S # {}
      BY <2>1, FS_EmptySet
    <3> QED  BY <1>1, <3>1 DEF GoesDown, Lists
  <2>3. PICK last \in S : IsLast(S, last) /\ cookie' = time[last]
    BY <2>1, <2>2 DEF NextCookie
  <2>4. \A s \in S : s \in Written /\ Before(s) /\ time[s] \in Nat
    BY <1>1, <2>1 DEF Selected, Matching, Written, TypeOK, Never
  <2>5. cookie \in Nat
    BY <1>1 DEF TypeOK
  <2>6. CASE endpoint \in Lists
    BY <2>3, <2>4, <2>6 DEF Before
  <2>7. CASE endpoint = "cursor" /\ ~ties /\ Limit > 1
    <3>1. S # {last}
      BY <2>1, <2>7, FS_Singleton
    <3>2. PICK s \in S : s # last
      BY <2>3, <3>1
    <3>3. time[last] <= time[s] /\ time[last] # time[s]
      BY <1>1, <2>3, <2>4, <2>7, <3>2 DEF IsLast, Apart
    <3>4. time[s] <= cookie
      BY <2>4, <2>7 DEF Before, Lists
    <3>5. time[last] \in Nat /\ time[s] \in Nat
      BY <2>3, <2>4, <3>2
    <3>6. time[last] < cookie
      BY <2>5, <3>3, <3>4, <3>5
    <3> QED
      BY <2>3, <3>6
  <2> QED
    BY <1>1, <2>6, <2>7 DEF GoesDown
<1> QED
  BY Inductive, <1>1, PTL DEF CursorFalls, Spec
=============================================================================
