-------------------------------- MODULE Unread --------------------------------
(***************************************************************************)
(* What a conversation list promises its owners: a chat appears in it and  *)
(* stays; every message is counted for an owner at most once, and only if  *)
(* somebody else sent it; and an owner is told of a message once, when it  *)
(* is counted.                                                             *)
(*                                                                         *)
(* Nothing here is about rows, statements, goroutines or their failures.   *)
(***************************************************************************)
EXTENDS Naturals

CONSTANTS Owners, Msgs, None

VARIABLES
  sender,       \* who sent each message, or None
  listed,       \* owners whose list has the chat
  unread,       \* the number that is shown there
  counted,      \* <<message, owner>>: part of that number, or his own
  told          \* <<message, owner>>: he was told to look

vars == <<sender, listed, unread, counted, told>>

Init ==
  /\ sender = [m \in Msgs |-> None]
  /\ listed = {} /\ counted = {} /\ told = {}
  /\ unread = [o \in Owners |-> 0]

Send(m, o) ==
  /\ sender[m] = None /\ sender' = [sender EXCEPT ![m] = o]
  /\ UNCHANGED <<listed, unread, counted, told>>

List(o) ==
  /\ o \notin listed /\ listed' = listed \union {o}
  /\ UNCHANGED <<sender, unread, counted, told>>

Count(m, o) ==
  /\ sender[m] # None /\ o \in listed
  /\ <<m, o>> \notin counted /\ counted' = counted \union {<<m, o>>}
  /\ unread' = [unread EXCEPT ![o] = IF sender[m] = o THEN @ ELSE @ + 1]
  /\ UNCHANGED <<sender, listed, told>>

Tell(m, o) ==
  /\ <<m, o>> \in counted \ told /\ told' = told \union {<<m, o>>}
  /\ UNCHANGED <<sender, listed, unread, counted>>

Next ==
  \E o \in Owners :
    \/ List(o)
    \/ \E m \in Msgs : Send(m, o) \/ Count(m, o) \/ Tell(m, o)

Spec == Init /\ [][Next]_vars

=============================================================================
