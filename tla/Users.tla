------------------------------- MODULE Users -------------------------------
(***************************************************************************)
(* Accounts (service/user.go, api/user.go): the table users                *)
(* (store/user_db.go), the hash user:{id} in redis that holds a copy of    *)
(* the profile (store/user_redis.go), and the tokens of utils/jwt.go.      *)
(*                                                                         *)
(* createUserHandler draws an id for every call, so that an attempt to     *)
(* register is named by the id it drew, and by that id's password.  Each   *)
(* statement and each redis command is a step.  One that fails may have    *)
(* been executed all the same: SaveUser gives up after 500 ms, whatever    *)
(* redis still does.                                                       *)
(***************************************************************************)
CONSTANTS
  Attempts,      \* ids drawn, hence attempts to register
  Emails,
  Avatars,
  Readers,       \* requests that read profiles
  None,          \* no email, no id
  NoAvatar       \* the empty avatar_url

ASSUME UsersAssumption ==
  None \notin Emails /\ None \notin Attempts /\ NoAvatar \notin Avatars

VARIABLES
  faults,        \* which of "mysql" and "redis" may fail in this behaviour
  at,            \* step of each attempt
  email,         \* the email it registers
  rows,          \* ids in table users
  avatar,        \* avatar_url of each row
  hash, ttl,     \* ids whose profile redis holds; those of them that expire
  tokens,        \* ids for which a client holds a valid token
  wanted,        \* the id whose profile a request looks for in the table
  answer         \* the last answer to each reader

accounts == <<faults, at, email, rows, tokens>>
reads == <<wanted, answer>>
vars == <<accounts, avatar, hash, ttl, reads>>

Steps == {"new", "refused", "save", "hset", "expire", "created", "failed"}
\* Answered after the INSERT; "refused" is answered before it.
Answered(a) == at[a] \in {"created", "failed"}

\* An answer names the id, and whether there is a profile: none, the row, or
\* the hash.  The hash has no avatar, and is_valid and sex are false in it:
\* redis holds "1" where GetUser looks for "true".
Answers == [id : Attempts, from : {"none", "row", "hash"}, avatar : Avatars \union {NoAvatar}]
Answer(r, id, from, url) ==
  answer' = [answer EXCEPT ![r] = [id |-> id, from |-> from, avatar |-> url]]

Init ==
  /\ faults \in SUBSET {"mysql", "redis"}
  /\ at = [a \in Attempts |-> "new"]
  /\ email = [a \in Attempts |-> None]
  /\ rows = {} /\ avatar = [a \in Attempts |-> NoAvatar]
  /\ hash = {} /\ ttl = {}
  /\ tokens = {}
  /\ wanted = [r \in Readers |-> None]
  /\ answer = [r \in Readers |-> None]

Step(a, from, to) == at[a] = from /\ at' = [at EXCEPT ![a] = to]

\* A command that fails with an error may have changed the set or not.
PerhapsAdded(set, new, a) == new = set \/ new = set \union {a}

----------------------------------------------------------------------------
(* createUserHandler and CreateUser.                                       *)

\* The request is not valid, or bcrypt refuses its password: 32 characters, which
\* the validation lets pass, may be more than bcrypt's 72 bytes.
CreateUserRefused(a, e) ==
  /\ Step(a, "new", "refused")
  /\ email' = [email EXCEPT ![a] = e]
  /\ UNCHANGED <<faults, rows, tokens, avatar, hash, ttl, reads>>

\* The profile is looked up in redis first; one that is there is taken for a
\* finished registration.
CreateUser(a, e) ==
  /\ Step(a, "new", IF a \in hash THEN "created" ELSE "save")
  /\ email' = [email EXCEPT ![a] = e]
  /\ UNCHANGED <<faults, rows, tokens, avatar, hash, ttl, reads>>

\* Mutant: the email is not a key.
FreeAlways(e) == TRUE

\* The email is a unique key of the table.
Free(e) == \A d \in rows : email[d] # e

Save(a) ==
  /\ Step(a, "save", "hset")
  /\ Free(email[a])
  /\ rows' = rows \union {a}
  /\ UNCHANGED <<faults, email, tokens, avatar, hash, ttl, reads>>

\* The email is taken, or the database fails.
SaveError(a) ==
  /\ Step(a, "save", "failed")
  /\ \/ ~Free(email[a]) /\ rows' = rows
     \/ "mysql" \in faults /\ Free(email[a]) /\ PerhapsAdded(rows, rows', a)
  /\ UNCHANGED <<faults, email, tokens, avatar, hash, ttl, reads>>

\* SaveUser: HSET and then EXPIRE, under one deadline.  The row stays when
\* one of them fails, and the client is told that the registration failed.
SaveUserHSet(a) ==
  /\ Step(a, "hset", "expire")
  /\ hash' = hash \union {a}
  /\ UNCHANGED <<faults, email, rows, tokens, avatar, ttl, reads>>

SaveUserExpire(a) ==
  /\ Step(a, "expire", "created")
  /\ ttl' = ttl \union {a}
  /\ UNCHANGED <<faults, email, rows, tokens, avatar, hash, reads>>

\* Mutant: a row is withdrawn when its profile cannot be cached.
SaveUserErrorUndone(a) ==
  /\ "redis" \in faults
  /\ Step(a, "hset", "failed") /\ PerhapsAdded(hash, hash', a)
  /\ rows' = rows \ {a}
  /\ UNCHANGED <<faults, email, tokens, avatar, ttl, reads>>

SaveUserError(a) ==
  /\ "redis" \in faults
  /\ \/ Step(a, "hset", "failed") /\ PerhapsAdded(hash, hash', a) /\ ttl' = ttl
     \/ Step(a, "expire", "failed") /\ PerhapsAdded(ttl, ttl', a) /\ hash' = hash
  /\ UNCHANGED <<faults, email, rows, tokens, avatar, reads>>

\* 24 hours later.
Expire(a) ==
  /\ a \in hash \intersect ttl
  /\ hash' = hash \ {a} /\ ttl' = ttl \ {a}
  /\ UNCHANGED <<accounts, avatar, reads>>

----------------------------------------------------------------------------
(* Login and what a token allows.                                          *)

GetByEmail(e) == {a \in rows : email[a] = e}

\* The password must be that of the row.
LoginByEmail(e, a) ==
  /\ a \in GetByEmail(e)
  /\ tokens' = tokens \union {a}
  /\ UNCHANGED <<faults, at, email, rows, avatar, hash, ttl, reads>>

\* Tokens are valid for 24 hours; Logout closes a connection (Gateway) and
\* leaves them alone.
TokenExpires(a) ==
  /\ a \in tokens
  /\ tokens' = tokens \ {a}
  /\ UNCHANGED <<faults, at, email, rows, avatar, hash, ttl, reads>>

JwtMiddleware(a) == a \in tokens

\* The row alone is updated.
UpdateAvatarUrl(a, url) ==
  /\ JwtMiddleware(a)
  /\ avatar' = [avatar EXCEPT ![a] = IF a \in rows THEN url ELSE @]
  /\ UNCHANGED <<accounts, hash, ttl, reads>>

----------------------------------------------------------------------------
(* GetById: the hash, and if it is not there the row.  Nothing puts a      *)
(* profile back into redis.                                                *)

GetUserHit(r, a) ==
  /\ wanted[r] = None /\ a \in hash
  /\ Answer(r, a, "hash", NoAvatar)
  /\ UNCHANGED <<accounts, avatar, hash, ttl, wanted>>

\* Mutant: what redis does not hold does not exist.
GetUserMissIsNone(r, a) ==
  /\ wanted[r] = None
  /\ a \notin hash \/ "redis" \in faults
  /\ Answer(r, a, "none", NoAvatar)
  /\ UNCHANGED <<accounts, avatar, hash, ttl, wanted>>

GetUserMiss(r, a) ==
  /\ wanted[r] = None
  /\ a \notin hash \/ "redis" \in faults
  /\ wanted' = [wanted EXCEPT ![r] = a]
  /\ UNCHANGED <<accounts, avatar, hash, ttl, answer>>

\* Mutant: the row that was read is put back into redis.
GetRowAndRefill(r) ==
  LET a == wanted[r] IN
  /\ a # None
  /\ wanted' = [wanted EXCEPT ![r] = None]
  /\ IF a \in rows THEN Answer(r, a, "row", avatar[a]) /\ hash' = hash \union {a}
                        /\ ttl' = ttl \union {a}
                   ELSE Answer(r, a, "none", NoAvatar) /\ UNCHANGED <<hash, ttl>>
  /\ UNCHANGED <<accounts, avatar>>

GetRow(r) ==
  LET a == wanted[r] IN
  /\ a # None
  /\ wanted' = [wanted EXCEPT ![r] = None]
  /\ IF a \in rows THEN Answer(r, a, "row", avatar[a]) ELSE Answer(r, a, "none", NoAvatar)
  /\ UNCHANGED <<accounts, avatar, hash, ttl>>

GetRowError(r) ==
  /\ "mysql" \in faults /\ wanted[r] # None
  /\ wanted' = [wanted EXCEPT ![r] = None]
  /\ UNCHANGED <<accounts, avatar, hash, ttl, answer>>

----------------------------------------------------------------------------
AttemptRun(a) == \/ Save(a) \/ SaveError(a)
                 \/ SaveUserHSet(a) \/ SaveUserExpire(a) \/ SaveUserError(a)

Next ==
  \/ \E a \in Attempts :
       \/ \E e \in Emails : \/ CreateUser(a, e) \/ CreateUserRefused(a, e)
                            \/ LoginByEmail(e, a)
       \/ AttemptRun(a) \/ Expire(a) \/ TokenExpires(a)
       \/ \E url \in Avatars : UpdateAvatarUrl(a, url)
       \/ \E r \in Readers : GetUserHit(r, a) \/ GetUserMiss(r, a)
  \/ \E r \in Readers : GetRow(r) \/ GetRowError(r)

Spec == Init /\ [][Next]_vars

\* Keys that have a time to live expire.
FairSpec == Spec /\ \A a \in Attempts : WF_vars(Expire(a))

----------------------------------------------------------------------------
TypeOK ==
  /\ faults \subseteq {"mysql", "redis"}
  /\ at \in [Attempts -> Steps]
  /\ email \in [Attempts -> Emails \union {None}]
  /\ rows \subseteq Attempts /\ hash \subseteq Attempts /\ ttl \subseteq hash
  /\ tokens \subseteq Attempts
  /\ avatar \in [Attempts -> Avatars \union {NoAvatar}]
  /\ wanted \in [Readers -> Attempts \union {None}]
  /\ answer \in [Readers -> Answers \union {None}]

\* The client was told OK, or logged in.
HasAccount(a) == at[a] = "created" \/ a \in tokens

\* Of several attempts to register one email at the same time, and the retries
\* of those that were told to have failed, at most one is told OK, and it is the
\* one whose password opens the account: every token for an email is for the
\* same id (user.go:53-71, the key of 000001_create_user_table.up.sql).
OneAccount ==
  \A a, b \in Attempts :
    email[a] = email[b] /\ HasAccount(a) /\ HasAccount(b) => a = b

\* An attempt that came as far as its INSERT, and was then answered with OK or an
\* error, leaves its email with an account somebody can log in to, unless the
\* database failed: an error of redis does not undo the row, so that a retry
\* finds the email taken (user.go:63-69).  What the validation (api/user.go:102)
\* or bcrypt (user.go:58-61) refuses leaves nothing.
AnsweredHasAccount ==
  \A a \in Attempts :
    Answered(a) /\ "mysql" \notin faults => ~Free(email[a])

\* A request never shows the profile of an account that does not exist, and
\* never denies one that does: whatever the order of the write to the table,
\* the write to redis, its expiry and the two reads (user.go:126-135).
ProfileTrue ==
  [][\A r \in Readers : answer'[r] # answer[r] =>
       (answer'[r].from = "none" <=> answer'[r].id \notin rows)]_vars

\* The profile without avatar disappears for good: a registration that was
\* answered OK has set the time to live of the hash, and nothing fills redis
\* again, so that in the end every request reads the row.
WholeInTheEnd ==
  \A a \in Attempts : at[a] = "created" ~> [](a \notin hash)

\* The safety part of it: the hash of such a registration has a time to live for
\* as long as it is there, and is never filled again.
CopyIsTemporary ==
  /\ [](\A a \in Attempts : at[a] = "created" /\ a \in hash => a \in ttl)
  /\ [][\A a \in Attempts :
          at[a] = "created" => at'[a] = "created" /\ (a \in hash' => a \in hash)]_vars

\* What a client sees between is an old or an empty avatar:
\* docs/adr/001-redis-hash-for-user.md:16 asks to update the hash, or to delete
\* it, whenever the profile changes; UpdateAvatarUrl does neither.

----------------------------------------------------------------------------
(* What makes these inductive.                                             *)

\* The row comes before the hash and the hash before its time to live, no two
\* rows share an email, and what was created or logged in to is a row.
AccountInv ==
  /\ \A a \in rows : email[a] # None /\ at[a] \notin {"new", "save"}
  /\ \A a, b \in rows : email[a] = email[b] => a = b
  /\ hash \subseteq rows /\ tokens \subseteq rows
  /\ \A a \in Attempts : at[a] \in {"hset", "expire", "created"} => a \in rows
  /\ \A a \in Attempts : at[a] # "new" => email[a] \in Emails
  /\ \A a \in Attempts : /\ at[a] = "hset" => a \notin hash
                         /\ at[a] = "expire" => a \in hash \ ttl

UsersInv == TypeOK /\ AccountInv /\ AnsweredHasAccount
=============================================================================
