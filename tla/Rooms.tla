-------------------------------- MODULE Rooms --------------------------------
(***************************************************************************)
(* Tables rooms and room_members (store/room_db.go): rooms are created     *)
(* under a limit per user that CreateRoom (service/room.go) checks first,  *)
(* members come and go (api/room.go), and sendGroupMessage                 *)
(* (service/message.go) reads the members of the room it sends to while    *)
(* they do.  One statement is one step.                                    *)
(***************************************************************************)
EXTENDS Naturals, FiniteSets

CONSTANTS
  Users,      \* ids that may be added to a room
  Registered, \* those of them that table users knows
  Rooms, Calls, Msgs,   \* rooms, HTTP calls to create one, group messages
  Limit,      \* ROOM_MAX_LIMIT
  None        \* no owner, no room, no call

ASSUME LimitAssumption == Limit \in Nat
ASSUME RoomsAssumption == /\ IsFiniteSet(Rooms) /\ IsFiniteSet(Calls)
                          /\ Registered \subseteq Users
                          /\ None \notin Users

VARIABLES
  owner,      \* owner of each room, or None
  members,    \* table room_members
  call,       \* the user of each call that has passed the check, or None
  send, to,   \* step of each group message, and its room
  targets,    \* the ids, then the users, that it is published to
  cut,        \* history: messages for which an error cut a SELECT's rows short
  during,     \* history: members at some time between Save and GetMembers
  throughout  \* history: members all that time

vars == <<owner, members, call, send, to, targets, cut, during, throughout>>
sends == <<send, to, targets, cut, during, throughout>>

SendSteps == {"none", "saved", "members", "routed", "error"}

Init ==
  /\ owner = [r \in Rooms |-> None]
  /\ members = [r \in Rooms |-> {}]
  /\ call = [c \in Calls |-> None]
  /\ send = [m \in Msgs |-> "none"]
  /\ to = [m \in Msgs |-> None]
  /\ targets = [m \in Msgs |-> {}] /\ cut = {}
  /\ during = [m \in Msgs |-> {}]
  /\ throughout = [m \in Msgs |-> {}]

----------------------------------------------------------------------------
(* CreateRoom.                                                             *)

RoomsOf(u) == {r \in Rooms : owner[r] = u}
CallsOf(u) == {c \in Calls : call[c] = u}

\* Mutant: one more than the limit passes.
CountAtMostLimit(c, u) ==
  /\ call[c] = None
  /\ Cardinality(RoomsOf(u)) <= Limit
  /\ call' = [call EXCEPT ![c] = u]
  /\ UNCHANGED <<owner, members, sends>>

GetRoomCountByUserId(c, u) ==
  /\ call[c] = None
  /\ Cardinality(RoomsOf(u)) < Limit
  /\ call' = [call EXCEPT ![c] = u]
  /\ UNCHANGED <<owner, members, sends>>

InsertRoom(c, r) ==
  /\ call[c] # None /\ owner[r] = None
  /\ owner' = [owner EXCEPT ![r] = call[c]]
  /\ call' = [call EXCEPT ![c] = None]
  /\ UNCHANGED <<members, sends>>

InsertRoomError(c) ==
  /\ call[c] # None
  /\ call' = [call EXCEPT ![c] = None]
  /\ UNCHANGED <<owner, members, sends>>

----------------------------------------------------------------------------
(* Members.  Nothing checks that the room or the user is there.            *)

Reading(m, r) == send[m] = "saved" /\ to[m] = r

AddMember(r, u) ==
  /\ u \notin members[r]
  /\ members' = [members EXCEPT ![r] = @ \union {u}]
  /\ during' = [m \in Msgs |-> IF Reading(m, r) THEN during[m] \union {u} ELSE during[m]]
  /\ UNCHANGED <<owner, call, send, to, targets, cut, throughout>>

RemoveMember(r, u) ==
  /\ members' = [members EXCEPT ![r] = @ \ {u}]
  /\ throughout' = [m \in Msgs |-> IF Reading(m, r) THEN throughout[m] \ {u} ELSE throughout[m]]
  /\ UNCHANGED <<owner, call, send, to, targets, cut, during>>

----------------------------------------------------------------------------
(* sendGroupMessage: the members' ids, their users, and the fan-out.       *)

SendStep(m, from, step) == send[m] = from /\ send' = [send EXCEPT ![m] = step]

Save(m, r) ==
  /\ SendStep(m, "none", "saved")
  /\ to' = [to EXCEPT ![m] = r]
  /\ during' = [during EXCEPT ![m] = members[r]]
  /\ throughout' = [throughout EXCEPT ![m] = members[r]]
  /\ UNCHANGED <<owner, members, call, targets, cut>>

\* The rows of a SELECT that would give S: all of them, or those before an error
\* that rows.Next() ends at and that nobody asks rows.Err() for.
Read(m, from, step, S) ==
  /\ SendStep(m, from, step)
  /\ \E rows \in SUBSET S :
       /\ targets' = [targets EXCEPT ![m] = rows]
       /\ cut' = IF rows = S THEN cut ELSE cut \union {m}
  /\ UNCHANGED <<owner, members, call, to, during, throughout>>

\* Mutants: the members of every room; one page of the members.
GetAllMembers(m) == Read(m, "saved", "members", UNION {members[r] : r \in Rooms})

GetMembersPaged(m) ==
  /\ send[m] = "saved"
  /\ \E page \in SUBSET members[to[m]] :
       Cardinality(page) <= 1 /\ Read(m, "saved", "members", page)

GetMembers(m) == Read(m, "saved", "members", members[to[m]])

\* Ids that are not registered are dropped; the rest is published to.
GetUsersByIds(m) == Read(m, "members", "routed", targets[m] \intersect Registered)

\* Either SELECT fails before its first row, or a row cannot be scanned.
SendError(m) ==
  /\ send[m] \in {"saved", "members"}
  /\ send' = [send EXCEPT ![m] = "error"]
  /\ UNCHANGED <<owner, members, call, to, targets, cut, during, throughout>>

----------------------------------------------------------------------------
Next ==
  \/ \E c \in Calls : \/ \E u \in Users : GetRoomCountByUserId(c, u)
                      \/ \E r \in Rooms : InsertRoom(c, r)
                      \/ InsertRoomError(c)
  \/ \E r \in Rooms, u \in Users : AddMember(r, u) \/ RemoveMember(r, u)
  \/ \E m \in Msgs : \/ \E r \in Rooms : Save(m, r)
                     \/ GetMembers(m) \/ GetUsersByIds(m) \/ SendError(m)

Spec == Init /\ [][Next]_vars

----------------------------------------------------------------------------
TypeOK ==
  /\ owner \in [Rooms -> Users \union {None}]
  /\ members \in [Rooms -> SUBSET Users]
  /\ call \in [Calls -> Users \union {None}]
  /\ send \in [Msgs -> SendSteps]
  /\ to \in [Msgs -> Rooms \union {None}]
  /\ targets \in [Msgs -> SUBSET Users] /\ cut \subseteq Msgs
  /\ during \in [Msgs -> SUBSET Users] /\ throughout \in [Msgs -> SUBSET Users]

\* "20 rooms per user" (service/room.go:10) is not kept, because the check and
\* the INSERT are two statements.  What the check does guarantee when calls
\* race: the limit is overrun by less than the number of calls in progress
\* (service/room.go:33-43).
QuotaOverrun ==
  \A u \in Users : Limit > 0 /\ Calls # {} =>
    Cardinality(RoomsOf(u)) + Cardinality(CallsOf(u)) < Limit + Cardinality(Calls)

\* A group message is published to nobody who was no member while it was being
\* sent, however the table changes between the two SELECTs and whatever they
\* leave out.
NoStranger == \A m \in Msgs : send[m] = "routed" => targets[m] \subseteq during[m]

\* It is published to everybody who was a member all the time and has an account
\* (message.go:251-268), unless an error cut the rows of a SELECT short: the
\* error is not looked for, and a part of the members passes for all of them
\* (room_db.go:104-111, user_db.go:136-144).  What is published reaches no
\* client: module Gateway, RouteGroup.
EveryMember ==
  \A m \in Msgs : send[m] = "routed" /\ m \notin cut =>
     throughout[m] \intersect Registered \subseteq targets[m]

=============================================================================
