---- MODULE Lists ----
(* A long list is read page by page while rows are written, committed late and    *)
(* taken off it.  The handlers continue a list in four ways: after the last row   *)
(* by its exact time and its id, before its time to the millisecond, at an offset, *)
(* or not at all; three loops of the browser walk them.                           *)
EXTENDS Integers, FiniteSets, SequencesExt

CONSTANTS
  ListKinds,  \* the lists that a behaviour may be about
  ListRows,   \* rows, by their ids
  Instants,   \* microseconds at which rows are dated
  Micros,     \* microseconds in a millisecond
  PageSize,   \* `limit'
  MaxWrites   \* rows that are written, committed or taken off during a walk

Restartable == {"reports", "audit-logs"}
Exact       == Restartable \cup {"security-events", "versions"}
Coarse      == {"orders", "wallet", "courses", "contents"}
Offset      == {"applications", "certifications"}
Unpaged     == {"refunds", "submissions"}

ASSUME ListAssumption ==
  /\ ListKinds \subseteq Exact \cup Coarse \cup Offset \cup Unpaged
  /\ ListRows \subseteq Nat \ {0} /\ IsFiniteSet(ListRows)
  /\ Instants \subseteq Nat \ {0} /\ IsFiniteSet(Instants) /\ Instants # {}
  /\ Micros \in Nat \ {0} /\ PageSize \in Nat \ {0} /\ MaxWrites \in Nat

VARIABLES
  list,      \* which list
  at,        \* the time of a row, in microseconds, and 0 for NULL
  listed,    \* committed rows that the filter of the list shows
  open,      \* rows of transactions that have not committed
  api,       \* "rolling" while instances of the release before still answer
  walk,      \* the loop of the browser
  standing,  \* history: rows shown from the beginning of the walk until now
  writes     \* history: for the bound

listVars == <<list, at, listed, open, api, walk, standing, writes>>

-----------------------------------------------------------------------------
(* Reports of before the column was filled have no time, and neither has a course *)
(* that is not held at one.                                                       *)
Undated == 0
MayBeUndated == list \in {"reports", "courses"}

(* A decided report or submission leaves its list, so does a course or content    *)
(* that is cancelled or archived; histories and unfiltered queues only grow.      *)
MayLeave == list \in {"reports", "submissions", "courses", "contents"}

(* created_at is when the transaction began, starts_at what the trainer chose.    *)
ByTrainer == list = "courses"
Milli(t) == t - (t % Micros)

(* ORDER BY: the newest first, NULLS LAST; queues that are worked off, oldest first. *)
Ahead(r, s) ==
  IF list \in Offset \cup Unpaged THEN at[r] < at[s] \/ (at[r] = at[s] /\ r < s)
  ELSE at[r] > at[s] \/ (at[r] = at[s] /\ r > s)

NoCursor == [v |-> 0, at |-> Undated, id |-> 0]

(* Mutant: by the time alone, as the coarse lists do. *)
Follows_NoTie(c, r) == IF list \in Exact THEN at[r] < c.at ELSE at[r] # Undated /\ at[r] < c.at

(* The clause of a cursor: the keyset of an exact list; a coarse list compares    *)
(* with the displayed time, which NULL never is less than.                        *)
Follows(c, r) ==
  IF list \in Exact THEN at[r] < c.at \/ (at[r] = c.at /\ r < c.id)
  ELSE at[r] # Undated /\ at[r] < c.at

(* Rows in the order of the list. *)
RowsAhead(r, S) == Cardinality({s \in S : Ahead(s, r)})
InOrder(S) == [n \in 1..Cardinality(S) |-> CHOOSE r \in S : RowsAhead(r, S) = n - 1]

(* The rows of an answer: LIMIT, and OFFSET of the lists that have one. *)
Rest == {r \in listed : walk.cursor = NoCursor \/ Follows(walk.cursor, r)}
Skipped == IF list \in Offset THEN (walk.page - 1) * PageSize ELSE 0
PageRows == {r \in Rest : RowsAhead(r, Rest) \in Skipped..(Skipped + PageSize - 1)}
Page == InOrder(PageRows)

(* nextCursor: with one row in reserve an exact list knows that there is more; a  *)
(* coarse one takes a full page for it, and the Date of its last row.             *)
Cursor(v) == LET r == Last(Page) IN
  IF list \in Exact /\ Cardinality(Rest) > PageSize THEN [v |-> v, at |-> at[r], id |-> r]
  ELSE IF list \in Coarse /\ Len(Page) = PageSize /\ at[r] # Undated
    THEN [v |-> v, at |-> Milli(at[r]), id |-> 0]
  ELSE NoCursor

-----------------------------------------------------------------------------
(* Any rows, some of a transaction under way. *)
ListInit ==
  /\ list \in ListKinds
  /\ at \in [ListRows -> Instants \cup (IF MayBeUndated THEN {Undated} ELSE {})]
  /\ ByTrainer => \A r \in ListRows : at[r] % Micros = 0
  /\ listed \in SUBSET ListRows
  /\ open \in SUBSET (ListRows \ listed)
  /\ api \in {"rolling", "new"} /\ (list \notin Restartable => api = "new")
  /\ walk = [phase |-> "idle", cursor |-> NoCursor, page |-> 1, items |-> <<>>,
             cursors |-> {}, restarted |-> FALSE]
  /\ standing = {} /\ writes = 0

(* A page opens, or its timer fires. *)
StartWalk ==
  /\ walk.phase = "idle"
  /\ walk' = [walk EXCEPT !.phase = "reading"]
  /\ standing' = listed
  /\ UNCHANGED <<list, at, listed, open, api, writes>>

(* Two loops append whatever comes; of the others a row that was seen is not new, *)
(* and the new ones keep their order, which is that of the list.                  *)
Appending == {"orders", "wallet"}
New(batch) == IF list \in Appending THEN batch
              ELSE InOrder(ToSet(batch) \ ToSet(walk.items))

(* listAllPages goes on with the cursor of the answer unless it had it before;    *)
(* without one it ends with a page that says so, is short, or shows nothing new,  *)
(* and otherwise asks for the next number.  The two loops end without a cursor.   *)
Continue(batch, next) ==
  LET read == [walk EXCEPT !.items = @ \o New(batch)] IN
  IF next # NoCursor
    THEN IF next \in walk.cursors THEN [read EXCEPT !.phase = "failed"]
         ELSE [read EXCEPT !.cursor = next, !.cursors = @ \cup {next}, !.page = @ + 1]
  ELSE IF list \in Exact \cup Appending \/ Len(batch) < PageSize \/ New(batch) = <<>>
    THEN [read EXCEPT !.phase = "done"]
  ELSE [read EXCEPT !.cursor = NoCursor, !.page = @ + 1]

(* One answer: the query sees one snapshot. *)
FetchPage ==
  /\ walk.phase = "reading" /\ walk.cursor.v # 1
  /\ walk' = Continue(Page, IF Page = <<>> THEN NoCursor ELSE Cursor(2))
  /\ UNCHANGED <<list, at, listed, open, api, standing, writes>>

(* The first page of an instance of the release before, whose cursors are of      *)
(* version 1.                                                                     *)
FetchFromOld ==
  /\ walk.phase = "reading" /\ api = "rolling" /\ walk.cursor = NoCursor
  /\ walk' = Continue(Page, IF Page = <<>> THEN NoCursor ELSE Cursor(1))
  /\ UNCHANGED <<list, at, listed, open, api, standing, writes>>

(* CURSOR_RESTART_REQUIRED: the loop forgets what it has read and begins again,   *)
(* once.                                                                          *)
RefuseOldCursor ==
  /\ walk.phase = "reading" /\ walk.cursor.v = 1
  /\ walk' = IF walk.restarted THEN [walk EXCEPT !.phase = "failed"]
             ELSE [walk EXCEPT !.cursor = NoCursor, !.page = 1, !.items = <<>>, !.cursors = {},
                               !.restarted = TRUE]
  /\ UNCHANGED <<list, at, listed, open, api, standing, writes>>

(* An answer is an error, or none: the caller shows the error and no list. *)
FetchFails ==
  /\ walk.phase = "reading"
  /\ walk' = [walk EXCEPT !.phase = "failed"]
  /\ UNCHANGED <<list, at, listed, open, api, standing, writes>>

Deployed ==
  /\ api = "rolling" /\ api' = "new"
  /\ UNCHANGED <<list, at, listed, open, walk, standing, writes>>

(* A row appears, perhaps behind rows that the walk has passed: its time is that  *)
(* of the beginning of its transaction, or of the course.                         *)
CommitRow(r) ==
  /\ walk.phase = "reading" /\ writes < MaxWrites
  /\ r \in open
  /\ listed' = listed \cup {r} /\ open' = open \ {r} /\ writes' = writes + 1
  /\ UNCHANGED <<list, at, api, walk, standing>>

RowLeaves(r) ==
  /\ walk.phase = "reading" /\ writes < MaxWrites
  /\ MayLeave /\ r \in listed
  /\ listed' = listed \ {r} /\ standing' = standing \ {r} /\ writes' = writes + 1
  /\ UNCHANGED <<list, at, open, api, walk>>

ListNext ==
  \/ StartWalk \/ FetchPage \/ FetchFromOld \/ RefuseOldCursor \/ FetchFails \/ Deployed
  \/ \E r \in ListRows : CommitRow(r) \/ RowLeaves(r)

ListSpec == ListInit /\ [][ListNext]_listVars

-----------------------------------------------------------------------------
Shown == ToSet(walk.items)
Missed == standing \ Shown

(* What a list that was read to its end holds: no row twice, and of the rows that *)
(* stood on it all the time every one, if it is continued exactly                 *)
(* (pagination-integration-check.mjs:203) or by an offset into a queue that only   *)
(* grows, by fewer rows than a page while it is read: a whole page of rows that    *)
(* moved back ends the walk.  By the time alone, the rows without a time may be     *)
(* missing and those of a millisecond that a page ended in (wallet.ts:44-59), and   *)
(* without pages those behind the first page (refunds/service.ts:149).             *)
ListsAreWhole == walk.phase = "done" =>
  /\ Cardinality(Shown) = Len(walk.items)
  /\ list \in Exact => \A i, j \in DOMAIN walk.items : i < j => Ahead(walk.items[i], walk.items[j])
  /\ list \in Exact \cup Offset => Missed = {}
  /\ list \in Coarse => \A r \in Missed :
       at[r] = Undated \/ \E s \in Shown : Milli(at[s]) = Milli(at[r])
  /\ list \in Unpaged => \A r \in Missed :
       Cardinality({s \in Shown : Ahead(s, r)}) >= PageSize

(* What a test says of refund requests, "cursor lists include the 101st refund    *)
(* request" (pagination.test.js:5), of whatever list is read to its end.          *)
NothingIsMissed == walk.phase = "done" => Missed = {}
====
