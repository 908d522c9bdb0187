----------------------------- MODULE RoomsProofs -----------------------------
(***************************************************************************)
(* Proofs about Rooms, for any users, rooms, calls, messages and limit.    *)
(***************************************************************************)
EXTENDS Rooms, FiniteSetTheorems, TLAPS

\* While a message is being sent, the members of its room are those it may go
\* to and include those it must go to; what has been read stays between them,
\* unless its rows were cut short.
SendInv ==
  \A m \in Msgs :
    /\ send[m] = "saved" => /\ to[m] \in Rooms
                            /\ throughout[m] \subseteq members[to[m]]
                            /\ members[to[m]] \subseteq during[m]
    /\ send[m] = "members" => /\ m \notin cut => throughout[m] \subseteq targets[m]
                              /\ targets[m] \subseteq during[m]
    /\ send[m] \in {"none", "saved"} => m \notin cut
RoomsInv == TypeOK /\ QuotaOverrun /\ SendInv /\ NoStranger /\ EveryMember

----------------------------------------------------------------------------
(* The tables' sets that are counted are finite.                           *)

LEMMA Counted ==
  ASSUME NEW S, IsFiniteSet(S), NEW T \in SUBSET S
  PROVE  IsFiniteSet(T) /\ Cardinality(T) \in Nat /\ Cardinality(T) <= Cardinality(S)
  BY FS_Subset, FS_CardinalityType

LEMMA CountedRooms ==
  ASSUME NEW u
  PROVE  /\ IsFiniteSet(RoomsOf(u)) /\ Cardinality(RoomsOf(u)) \in Nat
         /\ IsFiniteSet(CallsOf(u)) /\ Cardinality(CallsOf(u)) \in Nat
         /\ Cardinality(CallsOf(u)) <= Cardinality(Calls) /\ Cardinality(Calls) \in Nat
<1>1. RoomsOf(u) \in SUBSET Rooms /\ CallsOf(u) \in SUBSET Calls
  BY DEF RoomsOf, CallsOf
<1> QED
  BY <1>1, Counted, FS_CardinalityType, RoomsAssumption

LEMMA InitInv == Init => RoomsInv
<1> SUFFICES ASSUME Init PROVE RoomsInv
  OBVIOUS
<1>1. TypeOK
  BY DEF Init, TypeOK, SendSteps
<1>2. SendInv /\ NoStranger /\ EveryMember
  BY DEF Init, SendInv, NoStranger, EveryMember
<1>3. QuotaOverrun
  <2> SUFFICES ASSUME NEW u \in Users, Limit > 0, Calls # {}
               PROVE  Cardinality(RoomsOf(u)) + Cardinality(CallsOf(u)) < Limit + Cardinality(Calls)
    BY DEF QuotaOverrun
  <2>1. RoomsOf(u) = {} /\ CallsOf(u) = {}
    BY RoomsAssumption DEF Init, RoomsOf, CallsOf
  <2> QED
    BY <2>1, FS_EmptySet, FS_CardinalityType, LimitAssumption, RoomsAssumption
<1> QED
  BY <1>1, <1>2, <1>3 DEF RoomsInv

----------------------------------------------------------------------------
(* The limit.                                                              *)

\* A call that passes the check finds less than Limit rooms, and there are no
\* more calls in progress than calls.
LEMMA CheckQuota ==
  ASSUME RoomsInv, NEW c \in Calls, NEW u \in Users, GetRoomCountByUserId(c, u)
  PROVE  QuotaOverrun'
<1> SUFFICES ASSUME NEW v \in Users, Limit > 0, Calls # {}
             PROVE  Cardinality(RoomsOf(v)') + Cardinality(CallsOf(v)') < Limit + Cardinality(Calls)
  BY DEF QuotaOverrun
<1>1. RoomsOf(v)' = RoomsOf(v)
  BY DEF GetRoomCountByUserId, RoomsOf
<1>2. CASE v = u
  <2>1. CallsOf(v)' \in SUBSET Calls
    BY DEF CallsOf
  <2>2. Cardinality(CallsOf(v)') \in Nat /\ Cardinality(CallsOf(v)') <= Cardinality(Calls)
    BY <2>1, Counted, RoomsAssumption
  <2>3. Cardinality(RoomsOf(v)) < Limit
    BY <1>2 DEF GetRoomCountByUserId
  <2> QED
    BY <1>1, <2>2, <2>3, CountedRooms, LimitAssumption
<1>3. CASE v # u
  <2>1. CallsOf(v)' = CallsOf(v)
    BY <1>3, RoomsAssumption DEF GetRoomCountByUserId, CallsOf, RoomsInv, TypeOK
  <2> QED
    BY <1>1, <2>1 DEF RoomsInv, QuotaOverrun
<1> QED
  BY <1>2, <1>3

\* A call that inserts its room trades its place for the room.
LEMMA InsertQuota ==
  ASSUME RoomsInv, NEW c \in Calls, NEW r \in Rooms, InsertRoom(c, r)
  PROVE  QuotaOverrun'
<1> SUFFICES ASSUME NEW v \in Users, Limit > 0, Calls # {}
             PROVE  Cardinality(RoomsOf(v)') + Cardinality(CallsOf(v)') < Limit + Cardinality(Calls)
  BY DEF QuotaOverrun
<1>1. CASE call[c] = v
  <2>1. RoomsOf(v)' = RoomsOf(v) \union {r} /\ r \notin RoomsOf(v)
    BY <1>1, RoomsAssumption DEF InsertRoom, RoomsOf, RoomsInv, TypeOK
  <2>2. CallsOf(v)' = CallsOf(v) \ {c} /\ c \in CallsOf(v)
    BY <1>1, RoomsAssumption DEF InsertRoom, CallsOf, RoomsInv, TypeOK
  <2>3. Cardinality(RoomsOf(v)') = Cardinality(RoomsOf(v)) + 1
    BY <2>1, CountedRooms, FS_AddElement
  <2>4. Cardinality(CallsOf(v)') = Cardinality(CallsOf(v)) - 1
    BY <2>2, CountedRooms, FS_RemoveElement
  <2> QED
    BY <2>3, <2>4, CountedRooms, LimitAssumption DEF RoomsInv, QuotaOverrun
<1>2. CASE call[c] # v
  <2>1. RoomsOf(v)' = RoomsOf(v)
    BY <1>2, RoomsAssumption DEF InsertRoom, RoomsOf, RoomsInv, TypeOK
  <2>2. CallsOf(v)' = CallsOf(v)
    BY <1>2, RoomsAssumption DEF InsertRoom, CallsOf, RoomsInv, TypeOK
  <2> QED
    BY <2>1, <2>2 DEF RoomsInv, QuotaOverrun
<1> QED
  BY <1>1, <1>2

LEMMA ErrorQuota ==
  ASSUME RoomsInv, NEW c \in Calls, InsertRoomError(c)
  PROVE  QuotaOverrun'
<1> SUFFICES ASSUME NEW v \in Users, Limit > 0, Calls # {}
             PROVE  Cardinality(RoomsOf(v)') + Cardinality(CallsOf(v)') < Limit + Cardinality(Calls)
  BY DEF QuotaOverrun
<1>1. RoomsOf(v)' = RoomsOf(v)
  BY DEF InsertRoomError, RoomsOf
<1>2. CallsOf(v)' \in SUBSET CallsOf(v)
  BY RoomsAssumption DEF InsertRoomError, CallsOf, RoomsInv, TypeOK
<1>3. Cardinality(CallsOf(v)') \in Nat /\ Cardinality(CallsOf(v)') <= Cardinality(CallsOf(v))
  BY <1>2, Counted, CountedRooms
<1> QED
  BY <1>1, <1>3, CountedRooms, LimitAssumption DEF RoomsInv, QuotaOverrun

----------------------------------------------------------------------------
(* Members and messages.                                                   *)

LEMMA RoomStep ==
  ASSUME RoomsInv, NEW c \in Calls,
         \/ \E u \in Users : GetRoomCountByUserId(c, u)
         \/ \E r \in Rooms : InsertRoom(c, r)
         \/ InsertRoomError(c)
  PROVE  RoomsInv'
<1>1. TypeOK'
  BY DEF RoomsInv, TypeOK, GetRoomCountByUserId, InsertRoom, InsertRoomError, sends
<1>2. SendInv' /\ NoStranger' /\ EveryMember'
  BY DEF RoomsInv, SendInv, NoStranger, EveryMember,
         GetRoomCountByUserId, InsertRoom, InsertRoomError, sends
<1> QED
  BY <1>1, <1>2, CheckQuota, InsertQuota, ErrorQuota DEF RoomsInv

\* Whoever joins the room of a message that is saved may get it; whoever
\* leaves need not.
LEMMA MemberStep ==
  ASSUME RoomsInv, NEW r \in Rooms, NEW u \in Users, AddMember(r, u) \/ RemoveMember(r, u)
  PROVE  RoomsInv'
<1> USE DEF RoomsInv
<1>1. TypeOK'
  BY DEF TypeOK, AddMember, RemoveMember
<1>2. QuotaOverrun'
  BY DEF QuotaOverrun, RoomsOf, CallsOf, AddMember, RemoveMember
<1>3. SendInv'
  BY DEF SendInv, TypeOK, Reading, AddMember, RemoveMember
<1>4. NoStranger' /\ EveryMember'
  BY DEF NoStranger, EveryMember, Reading, AddMember, RemoveMember
<1> QED
  BY <1>1, <1>2, <1>3, <1>4

LEMMA SendStepInv ==
  ASSUME RoomsInv, NEW m \in Msgs,
         \/ \E r \in Rooms : Save(m, r)
         \/ GetMembers(m) \/ GetUsersByIds(m) \/ SendError(m)
  PROVE  RoomsInv'
<1> USE DEF RoomsInv
<1>1. UNCHANGED <<owner, call, members>>
  BY DEF Save, GetMembers, GetUsersByIds, Read, SendError
<1>2. QuotaOverrun'
  BY <1>1 DEF QuotaOverrun, RoomsOf, CallsOf
<1>3. ASSUME NEW r \in Rooms, Save(m, r) PROVE RoomsInv'
  BY <1>2, <1>3 DEF Save, SendStep, TypeOK, SendSteps, SendInv, NoStranger, EveryMember
<1>4. CASE GetMembers(m)
  BY <1>2, <1>4 DEF GetMembers, Read, SendStep, TypeOK, SendSteps, SendInv,
     NoStranger, EveryMember
<1>5. CASE GetUsersByIds(m)
  BY <1>2, <1>5 DEF GetUsersByIds, Read, SendStep, TypeOK, SendSteps, SendInv,
     NoStranger, EveryMember
<1>6. CASE SendError(m)
  BY <1>2, <1>6 DEF SendError, TypeOK, SendSteps, SendInv, NoStranger, EveryMember
<1> QED
  BY <1>3, <1>4, <1>5, <1>6

LEMMA NextInv == RoomsInv /\ [Next]_vars => RoomsInv'
<1>1. RoomsInv /\ UNCHANGED vars => RoomsInv'
  BY DEF vars, RoomsInv, TypeOK, QuotaOverrun, RoomsOf, CallsOf, SendInv, NoStranger, EveryMember
<1> QED
  BY <1>1, RoomStep, MemberStep, SendStepInv DEF Next

----------------------------------------------------------------------------
\* However many calls to create a room race, a user's rooms exceed the limit
\* by less than their number (service/room.go:33-43).
THEOREM OverrunBounded == Spec => []QuotaOverrun
<1>1. RoomsInv => QuotaOverrun
  BY DEF RoomsInv
<1> QED
  BY InitInv, NextInv, <1>1, PTL DEF Spec

\* Nobody is published a group message to who was no member while it was being
\* sent (message.go:251-268).
THEOREM StrangersExcluded == Spec => []NoStranger
<1>1. RoomsInv => NoStranger
  BY DEF RoomsInv
<1> QED
  BY InitInv, NextInv, <1>1, PTL DEF Spec

\* Everybody is who was a member all the time and has an account, unless an error
\* that is not looked for cut the rows of a SELECT short (room_db.go:104-111,
\* user_db.go:136-144).
THEOREM MembersIncluded == Spec => []EveryMember
<1>1. RoomsInv => EveryMember
  BY DEF RoomsInv
<1> QED
  BY InitInv, NextInv, <1>1, PTL DEF Spec
=============================================================================
