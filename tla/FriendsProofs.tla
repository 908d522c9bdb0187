---------------------------- MODULE FriendsProofs ----------------------------
(***************************************************************************)
(* Proofs about Friends, for any set of users.                             *)
(***************************************************************************)
EXTENDS Friends, TLAPS

FriendsInv == TypeOK /\ Mutual

LEMMA InitInv == Init => FriendsInv
  BY DEF Init, FriendsInv, TypeOK, Mutual, Statuses, Pairs, friends

LEMMA NextInv == FriendsInv /\ [Next]_vars => FriendsInv'
<1> SUFFICES ASSUME FriendsInv, [Next]_vars PROVE FriendsInv'
  OBVIOUS
<1> USE FriendsAssumption DEF FriendsInv, Pairs, friends
<1>1. ASSUME NEW u \in Users, NEW f \in Users, NEW status \in Statuses,
             UpdateRequestStatus(u, f, status)
      PROVE  requests' \in [Pairs -> Statuses]
  BY <1>1 DEF TypeOK, UpdateRequestStatus
<1>2. ASSUME NEW u \in Users, NEW f \in Users, CreateRelation(u, f) PROVE FriendsInv'
  BY <1>2 DEF CreateRelation, TypeOK, Mutual
<1>3. ASSUME NEW u \in Users, NEW f \in Users, DeleteRelation(u, f) PROVE FriendsInv'
  BY <1>3 DEF DeleteRelation, TypeOK, Mutual
<1>4. ASSUME NEW u \in Users, NEW f \in Users, UpdateRelationshipNickName(u, f) PROVE FriendsInv'
  BY <1>4 DEF UpdateRelationshipNickName, TypeOK, Mutual
<1>5. ASSUME NEW u \in Users, NEW f \in Users, IsFriend(u, f) PROVE FriendsInv'
  BY <1>5 DEF IsFriend, TypeOK, Mutual
<1>6. ASSUME NEW u \in Users, NEW f \in Users, CreateFriendRequest(u, f) PROVE FriendsInv'
  BY <1>6 DEF CreateFriendRequest, TypeOK, Mutual, Statuses
<1>7. ASSUME NEW u \in Users, NEW f \in Users, RejectFriendRequest(u, f) PROVE FriendsInv'
  BY <1>1, <1>7 DEF RejectFriendRequest, TypeOK, Mutual, Statuses
<1>8. ASSUME NEW u \in Users, NEW f \in Users, AcceptFriendRequest(u, f) PROVE FriendsInv'
  <2>1. TypeOK'
    BY <1>1, <1>8 DEF AcceptFriendRequest, Inserted, TypeOK, Statuses
  <2>2. Mutual'
    BY <1>8 DEF AcceptFriendRequest, Inserted, Mutual
  <2> QED  BY <2>1, <2>2
<1>9. CASE UNCHANGED vars
  BY <1>9 DEF vars, TypeOK, Mutual
<1> QED
  BY <1>2, <1>3, <1>4, <1>5, <1>6, <1>7, <1>8, <1>9 DEF Next

\* Statements of any number of users, in any order, keep friendship mutual as
\* long as it comes from requests only (relationship_db.go:162-187).
THEOREM FriendshipMutual == Spec => []Mutual
<1>1. FriendsInv => Mutual
  BY DEF FriendsInv
<1> QED
  BY InitInv, NextInv, <1>1, PTL DEF Spec

\* Nobody's chosen name for a friend is overwritten by what others do.
THEOREM ChosenNameStays == Spec => ChosenStays
<1>1. ASSUME FriendsInv, [Next]_vars
      PROVE  [\A p \in Pairs : nick[p] = Chosen => nick'[p] \in {Chosen, None}]_vars
  <2> USE FriendsAssumption DEF FriendsInv, TypeOK, friends
  <2> SUFFICES ASSUME NEW p \in Pairs, nick[p] = Chosen PROVE nick'[p] \in {Chosen, None}
    OBVIOUS
  <2>1. ASSUME NEW u \in Users, NEW f \in Users, AcceptFriendRequest(u, f)
        PROVE  nick'[p] = nick[p]
    BY <2>1 DEF AcceptFriendRequest
  <2>2. ASSUME NEW u \in Users, NEW f \in Users,
               CreateRelation(u, f) \/ UpdateRelationshipNickName(u, f) \/ DeleteRelation(u, f)
        PROVE  nick'[p] \in {Chosen, None}
    BY <1>1, <2>2 DEF CreateRelation, UpdateRelationshipNickName, DeleteRelation
  <2>3. ASSUME NEW u \in Users, NEW f \in Users,
               IsFriend(u, f) \/ CreateFriendRequest(u, f) \/ RejectFriendRequest(u, f)
        PROVE  nick' = nick
    BY <2>3 DEF IsFriend, CreateFriendRequest, RejectFriendRequest
  <2>4. CASE UNCHANGED vars
    BY <2>4 DEF vars
  <2> QED
    BY <1>1, <2>1, <2>2, <2>3, <2>4 DEF Next
<1> QED
  BY InitInv, NextInv, <1>1, PTL DEF Spec, ChosenStays
=============================================================================
