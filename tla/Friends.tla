------------------------------- MODULE Friends -------------------------------
(***************************************************************************)
(* Tables friend_relationships and friend_requests                         *)
(* (store/relationship_db.go) under the handlers of api/relation.go.  A    *)
(* row is named by its primary key, <<user_id, friend_id>> and             *)
(* <<user_id, req_user_id>>: an INSERT of a key that is there fails, an    *)
(* UPDATE or DELETE of one that is not there succeeds and does nothing.    *)
(*                                                                         *)
(* One statement, or one transaction, is one step.  Only                   *)
(* createFriendRequestHandler makes two, a check and an INSERT; what other *)
(* requests do in between is what they do.                                 *)
(***************************************************************************)
CONSTANTS
  Users,      \* and their names
  Chosen,     \* any name that a client sets
  None        \* no row

ASSUME FriendsAssumption == Chosen \notin Users /\ None \notin Users /\ None # Chosen

VARIABLES
  direct,     \* whether clients also use /relation/create and /relation/delete
  nick,       \* nick_name of each row of friend_relationships
  requests,   \* req_status of each row of friend_requests, or "none"
  checked     \* requests whose IsFriend check passed and that are not inserted yet

vars == <<direct, nick, requests, checked>>

Pairs == Users \X Users
Statuses == {"none", "pending", "accepted", "rejected"}
friends == {p \in Pairs : nick[p] # None}

Init ==
  /\ direct \in BOOLEAN
  /\ nick = [p \in Pairs |-> None]
  /\ requests = [p \in Pairs |-> "none"]
  /\ checked = {}

----------------------------------------------------------------------------
(* Relationships.                                                          *)

CreateRelation(u, f) ==
  /\ direct /\ <<u, f>> \notin friends
  /\ nick' = [nick EXCEPT ![<<u, f>>] = Chosen]
  /\ UNCHANGED <<direct, requests, checked>>

UpdateRelationshipNickName(u, f) ==
  /\ nick' = [nick EXCEPT ![<<u, f>>] = IF <<u, f>> \in friends THEN Chosen ELSE None]
  /\ UNCHANGED <<direct, requests, checked>>

DeleteRelation(u, f) ==
  /\ direct
  /\ nick' = [nick EXCEPT ![<<u, f>>] = None]
  /\ UNCHANGED <<direct, requests, checked>>

----------------------------------------------------------------------------
(* Requests of user u about friend f.                                      *)

IsFriend(u, f) ==
  /\ <<u, f>> \notin friends
  /\ checked' = checked \union {<<u, f>>}
  /\ UNCHANGED <<direct, nick, requests>>

\* The INSERT, which fails when the request was made before.
CreateFriendRequest(u, f) ==
  /\ <<u, f>> \in checked
  /\ checked' = checked \ {<<u, f>>}
  /\ requests' = IF requests[<<u, f>>] = "none"
                 THEN [requests EXCEPT ![<<u, f>>] = "pending"] ELSE requests
  /\ UNCHANGED <<direct, nick>>

\* UPDATE ... SET req_status WHERE user_id = u AND req_user_id = f.
UpdateRequestStatus(u, f, status) ==
  requests' = IF requests[<<u, f>>] = "none" THEN requests
              ELSE [requests EXCEPT ![<<u, f>>] = status]

RejectFriendRequest(u, f) ==
  /\ UpdateRequestStatus(u, f, "rejected")
  /\ UNCHANGED <<direct, nick, checked>>

Inserted(u, f) == {<<u, f>>, <<f, u>>}

\* Mutants: only one row is inserted; rows that are there are overwritten.
AcceptOneWay(u, f) ==
  /\ <<u, f>> \notin friends
  /\ UpdateRequestStatus(u, f, "accepted")
  /\ nick' = [nick EXCEPT ![<<u, f>>] = f]
  /\ UNCHANGED <<direct, checked>>

AcceptOverwriting(u, f) ==
  /\ u # f
  /\ UpdateRequestStatus(u, f, "accepted")
  /\ nick' = [p \in Pairs |-> IF p \in Inserted(u, f) THEN f ELSE nick[p]]
  /\ UNCHANGED <<direct, checked>>

\* The transaction: the request's status and a row each way, both with f's
\* name.  It is rolled back, and answered with an error, when one of the rows
\* is there already; with u = f the second INSERT repeats the first.
AcceptFriendRequest(u, f) ==
  /\ u # f /\ Inserted(u, f) \intersect friends = {}
  /\ UpdateRequestStatus(u, f, "accepted")
  /\ nick' = [p \in Pairs |-> IF p \in Inserted(u, f) THEN f ELSE nick[p]]
  /\ UNCHANGED <<direct, checked>>

----------------------------------------------------------------------------
Next == \E u, f \in Users :
  \/ CreateRelation(u, f) \/ UpdateRelationshipNickName(u, f) \/ DeleteRelation(u, f)
  \/ IsFriend(u, f) \/ CreateFriendRequest(u, f)
  \/ RejectFriendRequest(u, f) \/ AcceptFriendRequest(u, f)

Spec == Init /\ [][Next]_vars

----------------------------------------------------------------------------
TypeOK ==
  /\ direct \in BOOLEAN
  /\ nick \in [Pairs -> Users \union {Chosen, None}]
  /\ requests \in [Pairs -> Statuses]
  /\ checked \subseteq Pairs

\* Friendship made by requests alone is mutual at every moment, whatever two
\* users accept, reject and request of each other at once
\* (relationship_db.go:162-187).
Mutual == ~direct => \A u, f \in Users : <<u, f>> \in friends => <<f, u>> \in friends

\* The name a user has chosen for a friend stays as long as the row does: no
\* request, no accept of either of them, sent twice or the other way round,
\* writes over it (relationship_db.go:11-14, 162-187).
ChosenStays ==
  [][\A p \in Pairs : nick[p] = Chosen => nick'[p] \in {Chosen, None}]_vars

=============================================================================
