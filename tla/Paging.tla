------------------------------- MODULE Paging -------------------------------
(***************************************************************************)
(* A client that reads a table page by page, newest rows first, while rows *)
(* are written: /conversation/list (api/conversation.go), /relation/list   *)
(* and /friend/request/list (api/relation.go), /message/fetch              *)
(* (api/message.go), and the four SELECTs behind them.  They differ in     *)
(* whether the cursor's own instant is read again and in how the next      *)
(* cursor is found, and stop alike: at a page that is not full.            *)
(*                                                                         *)
(* A row holds the second that its writer read off the clock, or the       *)
(* SendAt of the message it is about, before the statement: goroutines     *)
(* that overtake each other write older seconds after newer ones, so there *)
(* is no clock here.                                                       *)
(***************************************************************************)
EXTENDS Integers, FiniteSets

CONSTANTS
  Rows,       \* rows that may be written
  Limit,      \* rows per page
  MaxTime     \* bound: the last second

Lists == {"conversation", "relation"}
\* With "message" the client sends the cookie that /message/fetch gave it, with
\* "cursor" the send_at of the last message.
Endpoints == Lists \union {"message", "cursor"}

ASSUME PagingAssumption ==
  IsFiniteSet(Rows) /\ Limit \in Nat \ {0} /\ MaxTime \in Nat

VARIABLES
  endpoint,   \* what the client reads
  ties,       \* whether two rows may hold the same second
  time,       \* the second each row holds; Never if it was not written
  cookie,     \* the client's cursor
  seen,       \* rows the client has been given
  page,       \* "first", "more" or "end"
  standing,   \* history: rows there when it began whose second is the same since
  lowered,    \* history: rows it was given whose second went down after that
  repeated,   \* history: rows that a list gave it twice
  cuts,       \* history: the seconds at which its pages ended
  broken      \* history: whether an error cut a page short

client == <<cookie, seen, page, repeated, cuts, broken>>
vars == <<endpoint, ties, time, client, standing, lowered>>

Never == -1
Infinity == MaxTime + 1   \* math.MaxInt64
Written == {r \in Rows : time[r] # Never}

Init ==
  /\ endpoint \in Endpoints /\ ties \in BOOLEAN
  /\ time = [r \in Rows |-> Never]
  /\ cookie = Infinity /\ seen = {} /\ page = "first"
  /\ standing = {} /\ lowered = {} /\ repeated = {} /\ cuts = {} /\ broken = FALSE

----------------------------------------------------------------------------
\* What is written after the last page is not followed (bound).
Stamp(r, t) ==
  /\ page # "end"
  /\ ties \/ \A s \in Rows \ {r} : time[s] # t
  /\ time' = [time EXCEPT ![r] = t]
  /\ UNCHANGED <<endpoint, ties, client>>

\* A new row.  A conversation that /conversation/create, /conversation/open or
\* the first message makes holds 0 until a message is counted in it.
Write(r, t) ==
  /\ time[r] = Never
  /\ t = 0 => endpoint = "conversation"
  /\ Stamp(r, t)
  /\ UNCHANGED <<standing, lowered>>

\* The upsert of a conversation that is there: the SendAt of the message that a
\* goroutine counts, which may be older than the last one, or 0 when
\* /conversation/create is called for it again.
Move(r, t) ==
  /\ endpoint = "conversation"
  /\ time[r] # Never
  /\ Stamp(r, t)
  /\ standing' = standing \ {r}
  /\ lowered' = IF r \in seen /\ t < time[r] THEN lowered \union {r} ELSE lowered

----------------------------------------------------------------------------
(* One request.                                                            *)

\* Mutant: the lists read the cursor's second again.
BeforeOrAt(r) == time[r] <= cookie

Before(r) == IF endpoint \in Lists THEN time[r] < cookie ELSE time[r] <= cookie
Matching == {r \in Written : Before(r)}

\* ORDER BY time DESC LIMIT n, up to where rows.Next() gives up: what it gave up
\* for is in rows.Err(), which nobody reads.
Selected(S) ==
  /\ S \subseteq Matching
  /\ Cardinality(S) <= Limit
  /\ \A s \in S, r \in Matching \ S : time[r] <= time[s]
Whole(S) == S = Matching \/ Cardinality(S) = Limit

IsLast(S, last) == last \in S /\ \A s \in S : time[last] <= time[s]

\* Mutants: the cursor never moves; it moves one second too far.
KeepCookie(S) == UNCHANGED cookie
SkipSecond(S) ==
  IF S = {} THEN UNCHANGED cookie
  ELSE \E last \in S : IsLast(S, last) /\ cookie' = time[last] - 1

\* An empty page leaves the cursor as it is; /message/fetch answers with the
\* cookie it was called with unless the page is the last one.
NextCookie(S) ==
  IF S = {} \/ (endpoint = "message" /\ Cardinality(S) = Limit)
  THEN UNCHANGED cookie
  ELSE \E last \in S : IsLast(S, last) /\ cookie' = time[last]

Read(S) ==
  /\ page # "end"
  /\ Selected(S)
  /\ NextCookie(S)
  /\ cuts' = cuts \union {cookie'}
  /\ seen' = seen \union S
  /\ repeated' = IF endpoint \in Lists THEN repeated \union (seen \intersect S)
                                       ELSE repeated
  /\ page' = IF Cardinality(S) < Limit THEN "end" ELSE "more"
  /\ standing' = IF page = "first" THEN Written ELSE standing
  /\ UNCHANGED <<endpoint, ties, time, lowered>>

Fetch == \E S \in SUBSET Rows : Read(S) /\ Whole(S) /\ UNCHANGED broken
FetchCutShort == \E S \in SUBSET Rows : Read(S) /\ ~Whole(S) /\ broken' = TRUE

Next ==
  \/ \E r \in Rows, t \in 0 .. MaxTime : Write(r, t) \/ Move(r, t)
  \/ Fetch \/ FetchCutShort

Spec == Init /\ [][Next]_vars
FairSpec == Spec /\ WF_vars(Fetch)

----------------------------------------------------------------------------
TypeOK ==
  /\ endpoint \in Endpoints /\ ties \in BOOLEAN
  /\ time \in [Rows -> Never .. MaxTime]
  /\ cookie \in 0 .. MaxTime + 1
  /\ seen \subseteq Rows
  /\ page \in {"first", "more", "end"}
  /\ standing \subseteq Rows /\ lowered \subseteq seen
  /\ repeated \subseteq Rows
  /\ cuts \subseteq 0 .. MaxTime + 1
  /\ broken \in BOOLEAN

\* A tie may hide a row from the lists: the next page begins below its second.
Hidden(r) == endpoint \in Lists /\ ties /\ time[r] \in cuts
Missed(r) == r \notin seen /\ ~Hidden(r)

\* The client that has read to the end was given every row that stood there all
\* the time (docs/conversation-api.md:140-142, 215-224;
\* docs/notes/week05-groupchat.md:331), with two exceptions: in the lists, rows
\* of a second at which a page ended, among them all the conversations without
\* a message, which hold 0; and what lies behind an error of the database that
\* cut a page short, since rows.Err() is never read and the client takes a
\* short page for the last one.
Complete == page = "end" /\ ~broken => \A r \in standing : ~Missed(r)

\* The lists show a row twice only if its second went down while the client read
\* on: a conversation whose last_msg_time an overtaken goroutine (message.go:309)
\* or /conversation/create (service/conversation.go:36-43) put below the cursor.
\* One that moves to the top is not shown again, nor is any relation or request.
NoRepeat == repeated \subseteq lowered

\* The client gets to the end, a page that is not full: always in the lists;
\* in a channel's history when it makes its own cursor, and no page is full of
\* one second; with the cookie it was given, it may read one page for ever.
PagingEnds ==
  endpoint \in Lists \/ (endpoint = "cursor" /\ ~ties) => <>(page = "end")

\* Why it gets there: every page that is not the last one moves its cursor down,
\* whatever is written meanwhile, above the cursor or below it.
GoesDown == endpoint \in Lists \/ (endpoint = "cursor" /\ ~ties /\ Limit > 1)
CursorFalls ==
  [][GoesDown /\ Fetch => (page' = "end" \/ cookie' < cookie)]_vars

\* What makes Complete and NoRepeat inductive: before the first page nothing is
\* read and everything is in reach; as long as no page was cut short, what stood
\* there and is missed is in reach of the cursor; nothing that has been read is,
\* unless its second went down; without ties the rows are apart.
FirstPage == page = "first" => cookie = Infinity /\ seen = {}
ReadDownTo ==
  /\ standing \subseteq Written
  /\ page = "more" /\ ~broken => \A r \in standing : Missed(r) => Before(r)
ReadNothingBelow ==
  endpoint \in Lists /\ page = "more" => \A r \in seen \ lowered : cookie <= time[r]
Apart == ~ties => \A r, s \in Written : time[r] = time[s] => r = s
PagingInv == /\ TypeOK /\ FirstPage /\ ReadDownTo /\ ReadNothingBelow /\ Apart
             /\ Complete /\ NoRepeat
=============================================================================
