---------------------------- MODULE UsersProofs ----------------------------
(***************************************************************************)
(* Proofs about Users, for any number of attempts, emails and readers and  *)
(* whatever fails.                                                         *)
(***************************************************************************)
EXTENDS Users, TLAPS

LEMMA InitInv == Init => UsersInv
  BY DEF Init, UsersInv, TypeOK, AccountInv, AnsweredHasAccount, Answered, Steps

----------------------------------------------------------------------------
\* A registration goes from the table to redis; its row stays when a later
\* step fails.
LEMMA AttemptInv ==
  ASSUME UsersInv, NEW a \in Attempts,
         AttemptRun(a) \/ \E e \in Emails : CreateUser(a, e) \/ CreateUserRefused(a, e)
  PROVE  UsersInv'
<1> USE UsersAssumption DEF UsersInv, TypeOK, AccountInv, Step, Steps, reads
<1>1. ASSUME NEW e \in Emails, CreateUser(a, e) PROVE UsersInv'
  BY <1>1 DEF CreateUser, AnsweredHasAccount, Answered, Free
<1>2. ASSUME Save(a) PROVE UsersInv'
  BY <1>2 DEF Save, AnsweredHasAccount, Answered, Free
<1>3. ASSUME SaveError(a) PROVE UsersInv'
  BY <1>3 DEF SaveError, PerhapsAdded, AnsweredHasAccount, Answered, Free
<1>4. ASSUME SaveUserHSet(a) PROVE UsersInv'
  BY <1>4 DEF SaveUserHSet, AnsweredHasAccount, Answered, Free
<1>5. ASSUME SaveUserExpire(a) PROVE UsersInv'
  BY <1>5 DEF SaveUserExpire, AnsweredHasAccount, Answered, Free
<1>6. ASSUME SaveUserError(a) PROVE UsersInv'
  BY <1>6 DEF SaveUserError, PerhapsAdded, AnsweredHasAccount, Answered, Free
<1>7. ASSUME NEW e \in Emails, CreateUserRefused(a, e) PROVE UsersInv'
  BY <1>7 DEF CreateUserRefused, AnsweredHasAccount, Answered, Free
<1> QED
  BY <1>1, <1>2, <1>3, <1>4, <1>5, <1>6, <1>7 DEF AttemptRun

\* Nothing else writes the table or fills redis.
LEMMA AccountStepInv ==
  ASSUME UsersInv, NEW a \in Attempts,
         \/ Expire(a) \/ TokenExpires(a) \/ \E e \in Emails : LoginByEmail(e, a)
         \/ \E url \in Avatars : UpdateAvatarUrl(a, url)
  PROVE  UsersInv'
<1> USE DEF UsersInv, TypeOK, AccountInv, AnsweredHasAccount, Answered, Free, accounts, reads
<1>1. ASSUME Expire(a) PROVE UsersInv'
  BY <1>1 DEF Expire
<1>2. ASSUME NEW e \in Emails, LoginByEmail(e, a) PROVE UsersInv'
  BY <1>2 DEF LoginByEmail, GetByEmail
<1>3. ASSUME TokenExpires(a) PROVE UsersInv'
  BY <1>3 DEF TokenExpires
<1>4. ASSUME NEW url \in Avatars, UpdateAvatarUrl(a, url) PROVE UsersInv'
  BY <1>4 DEF UpdateAvatarUrl
<1> QED
  BY <1>1, <1>2, <1>3, <1>4

LEMMA ReadInv ==
  ASSUME UsersInv, NEW r \in Readers,
         \/ \E a \in Attempts : GetUserHit(r, a) \/ GetUserMiss(r, a)
         \/ GetRow(r) \/ GetRowError(r)
  PROVE  UsersInv'
<1>1. /\ UNCHANGED <<accounts, avatar, hash, ttl>>
      /\ wanted' \in [Readers -> Attempts \union {None}]
  BY DEF UsersInv, TypeOK, GetUserHit, GetUserMiss, GetRow, GetRowError
<1>2. answer' \in [Readers -> Answers \union {None}]
  <2>1. ASSUME NEW a \in Attempts, NEW from \in {"none", "row", "hash"},
               NEW url \in Avatars \union {NoAvatar}, Answer(r, a, from, url)
        PROVE  answer' \in [Readers -> Answers \union {None}]
    <3>1. [id |-> a, from |-> from, avatar |-> url] \in Answers
      BY DEF Answers
    <3> QED
      BY <2>1, <3>1 DEF Answer, UsersInv, TypeOK
  <2>2. ASSUME NEW a \in Attempts, GetUserHit(r, a)
        PROVE  answer' \in [Readers -> Answers \union {None}]
    BY <2>1, <2>2 DEF GetUserHit
  <2>3. ASSUME GetRow(r)
        PROVE  answer' \in [Readers -> Answers \union {None}]
    <3>1. wanted[r] \in Attempts /\ avatar[wanted[r]] \in Avatars \union {NoAvatar}
      BY <2>3 DEF GetRow, UsersInv, TypeOK
    <3> QED
      BY <2>1, <2>3, <3>1 DEF GetRow
  <2>4. ASSUME GetRowError(r) \/ \E a \in Attempts : GetUserMiss(r, a)
        PROVE  answer' \in [Readers -> Answers \union {None}]
    BY <2>4 DEF GetRowError, GetUserMiss, UsersInv, TypeOK
  <2> QED
    BY <2>2, <2>3, <2>4
<1> QED
  BY <1>1, <1>2 DEF UsersInv, TypeOK, AccountInv, AnsweredHasAccount, Answered, Free, accounts

LEMMA NextInv == UsersInv /\ [Next]_vars => UsersInv'
<1> SUFFICES ASSUME UsersInv, [Next]_vars PROVE UsersInv'
  OBVIOUS
<1>1. CASE Next
  BY <1>1, AttemptInv, AccountStepInv, ReadInv DEF Next
<1>2. CASE UNCHANGED vars
  BY <1>2 DEF vars, accounts, reads, UsersInv, TypeOK, AccountInv, AnsweredHasAccount,
              Answered, Free
<1> QED
  BY <1>1, <1>2

----------------------------------------------------------------------------
\* The row comes before the hash and stays, no two rows share an email, and
\* what was created or logged in to is a row (user.go:53-87).
THEOREM AccountsInv == Spec => []UsersInv
  BY InitInv, NextInv, PTL DEF Spec

\* However many attempts for an email race and whatever fails, one account
\* comes of them.
THEOREM EmailHasOneAccount == Spec => []OneAccount
<1>1. UsersInv => OneAccount
  BY DEF UsersInv, AccountInv, OneAccount, HasAccount, TypeOK
<1> QED
  BY AccountsInv, <1>1, PTL

\* An answer, OK or error, to an attempt that came as far as its INSERT leaves the
\* email with an account unless the database failed (user.go:63-69).
THEOREM AnswerLeavesAccount == Spec => []AnsweredHasAccount
<1>1. UsersInv => AnsweredHasAccount
  BY DEF UsersInv
<1> QED
  BY AccountsInv, <1>1, PTL

\* No read shows an account that does not exist or denies one that does.
THEOREM ReadsAreTrue == Spec => ProfileTrue
<1>1. ASSUME UsersInv, [Next]_vars
      PROVE  [\A r \in Readers : answer'[r] # answer[r] =>
                (answer'[r].from = "none" <=> answer'[r].id \notin rows)]_vars
  <2> SUFFICES ASSUME NEW r \in Readers, answer'[r] # answer[r]
               PROVE  answer'[r].from = "none" <=> answer'[r].id \notin rows
    OBVIOUS
  <2> USE DEF UsersInv, TypeOK, AccountInv
  <2>0. ASSUME NEW q \in Readers, NEW a, NEW from, NEW url, Answer(q, a, from, url)
        PROVE  answer'[r].id = a /\ answer'[r].from = from
    <3>1. q = r
      BY <1>1, <2>0 DEF Answer
    <3>2. answer'[r] = [id |-> a, from |-> from, avatar |-> url]
      BY <1>1, <2>0, <3>1 DEF Answer
    <3> QED  BY <3>2
  <2>1. ASSUME NEW q \in Readers, NEW a \in Attempts, GetUserHit(q, a)
        PROVE  answer'[r].from = "none" <=> answer'[r].id \notin rows
    BY <1>1, <2>0, <2>1 DEF GetUserHit
  <2>2. ASSUME NEW q \in Readers, GetRow(q)
        PROVE  answer'[r].from = "none" <=> answer'[r].id \notin rows
    BY <2>0, <2>2 DEF GetRow
  <2>3. answer' # answer
    OBVIOUS
  <2>4. ASSUME NEW a \in Attempts,
               \/ \E e \in Emails : \/ CreateUser(a, e) \/ CreateUserRefused(a, e)
                                    \/ LoginByEmail(e, a)
               \/ AttemptRun(a) \/ Expire(a) \/ TokenExpires(a)
               \/ \E url \in Avatars : UpdateAvatarUrl(a, url)
        PROVE  answer' = answer
    BY <2>4 DEF CreateUser, CreateUserRefused, LoginByEmail, AttemptRun, Save, SaveError, SaveUserHSet,
         SaveUserExpire, SaveUserError, Expire, TokenExpires, UpdateAvatarUrl, accounts, reads
  <2>5. ASSUME NEW q \in Readers,
               GetRowError(q) \/ \E a \in Attempts : GetUserMiss(q, a)
        PROVE  answer' = answer
    BY <2>5 DEF GetUserMiss, GetRowError
  <2>6. Next
    BY <1>1, <2>3 DEF vars, reads
  <2> QED
    BY <2>1, <2>2, <2>3, <2>4, <2>5, <2>6 DEF Next
<1> QED
  BY AccountsInv, <1>1, PTL DEF Spec, ProfileTrue

----------------------------------------------------------------------------
Expiring == \A a \in Attempts : at[a] = "created" /\ a \in hash => a \in ttl

\* What is created keeps its time to live with its hash, and is created for good:
\* a later attempt works on an id of its own.
LEMMA CopyStep ==
  ASSUME UsersInv, Expiring, [Next]_vars
  PROVE  /\ Expiring'
         /\ \A a \in Attempts :
              at[a] = "created" => at'[a] = "created" /\ (a \in hash' => a \in hash)
<1> USE DEF UsersInv, TypeOK, AccountInv, Expiring, Step
<1>1. ASSUME NEW a \in Attempts, NEW e \in Emails, CreateUser(a, e)
      PROVE  at[a] = "new" /\ a \notin hash /\ at' = [at EXCEPT ![a] = "save"]
             /\ UNCHANGED <<hash, ttl>>
  BY <1>1 DEF CreateUser
<1>2. CASE \E a \in Attempts, e \in Emails : CreateUser(a, e) \/ CreateUserRefused(a, e)
  BY <1>1, <1>2 DEF CreateUserRefused
<1>3. ASSUME NEW a \in Attempts, AttemptRun(a)
      PROVE  /\ Expiring'
             /\ \A b \in Attempts :
                  at[b] = "created" => at'[b] = "created" /\ (b \in hash' => b \in hash)
  <2>1. CASE Save(a) \/ SaveError(a)
    BY <2>1 DEF Save, SaveError
  <2>2. CASE SaveUserHSet(a)
    BY <2>2 DEF SaveUserHSet
  <2>3. CASE SaveUserExpire(a)
    BY <2>3 DEF SaveUserExpire
  <2>4. CASE SaveUserError(a)
    BY <2>4 DEF SaveUserError, PerhapsAdded
  <2> QED
    BY <1>3, <2>1, <2>2, <2>3, <2>4 DEF AttemptRun
<1>4. CASE \E a \in Attempts : Expire(a)
  BY <1>4 DEF Expire, accounts
<1>5. ASSUME \/ \E a \in Attempts :
                  \/ \E e \in Emails : LoginByEmail(e, a)
                  \/ TokenExpires(a) \/ \E url \in Avatars : UpdateAvatarUrl(a, url)
                  \/ \E r \in Readers : GetUserHit(r, a) \/ GetUserMiss(r, a)
             \/ \E r \in Readers : GetRow(r) \/ GetRowError(r)
             \/ UNCHANGED vars
      PROVE  UNCHANGED <<at, hash, ttl>>
  BY <1>5 DEF LoginByEmail, TokenExpires, UpdateAvatarUrl, GetUserHit, GetUserMiss, GetRow,
       GetRowError, vars, accounts
<1>6. CASE UNCHANGED <<at, hash, ttl>>
  BY <1>6
<1> QED
  BY <1>2, <1>3, <1>4, <1>5, <1>6 DEF Next

\* The copy in redis of an account whose registration was answered OK expires and
\* does not return, so that its profile without avatar does not stay
\* (user_redis.go:160-176); that it does expire is WholeInTheEnd.
THEOREM CopiesExpire == Spec => CopyIsTemporary
<1>1. Init => Expiring
  BY DEF Init, Expiring
<1> QED
  BY AccountsInv, CopyStep, <1>1, PTL DEF Spec, CopyIsTemporary, Expiring
=============================================================================
