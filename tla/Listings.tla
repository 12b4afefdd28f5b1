------------------------------ MODULE Listings ------------------------------
(***************************************************************************)
(* The paginated listings of the API: a client walks one page by page, by  *)
(* the nextCursor of the page before, while rows come, change and go.      *)
(*                                                                         *)
(* Every listing filters (by user, status, dates), takes the rows after    *)
(* the cursor, sorts them newest first and cuts the page; they differ in   *)
(* what they sort by and in what the cursor holds, which is all a listing  *)
(* is here.  The row of an admin session is the session, its times those   *)
(* of its events; other rows have a time of creation and of each update,   *)
(* which for users are their uploads, outfits or paid calls.               *)
(***************************************************************************)
EXTENDS Integers, Sequences, FiniteSets, FiniteSetsExt, SequencesExt

CONSTANTS
  ListRows,        \* ids of rows, which Mongo can order; most are random
  PageSize,
  ScanCap,         \* maxUsersScan
  Window,          \* the 7 days of the computed counts
  PageCap,         \* the 50 pages of getAllItems
  LastTime,        \* bound: times are 1 .. LastTime
  MaxListChanges   \* bound: inserts, updates and deletes during a walk

ASSUME ListAssumption ==
  /\ ListRows \subseteq Int /\ IsFiniteSet(ListRows)
  /\ {PageSize, ScanCap, Window, PageCap, LastTime} \subseteq Nat \ {0} /\ MaxListChanges \in Nat

VARIABLES
  times,   \* times[r]: when row r was created and updated; {}: there is no such row
  past,    \* rows that are gone
  now,
  walk,    \* the client's; history, in it: steady, the rows that were there unchanged since
           \* it began; home, the rows of a listing by offset as it would have shown them
           \* then; placed, those whose place the cursor has been able to tell
  changes

listVars == <<times, past, now, walk, changes>>

-----------------------------------------------------------------------------
(* The listings. *)

\* GET /v1/wardrobe/items.
FindItems       == [sort |-> "created", cursor |-> "compound"]
\* GET /v1/moodboards.
FindMoodboards  == [sort |-> "created", cursor |-> "compound"]
ListTraces      == [sort |-> "created", cursor |-> "compound"]
\* Users by sign-up, by last activity, and by a computed count.
UsersBySignup   == [sort |-> "created", cursor |-> "compound"]
UsersByActivity == [sort |-> "updated", cursor |-> "compound"]
UsersByCount    == [sort |-> "count",   cursor |-> "offset"]
\* What an admin sees of one user.
ListWardrobe      == [sort |-> "created", cursor |-> "id"]
ListMoodboards    == [sort |-> "created", cursor |-> "id"]
ListOutfitBatches == [sort |-> "created", cursor |-> "id"]
ListAudit         == [sort |-> "created", cursor |-> "id"]
ListEvalRuns      == [sort |-> "created", cursor |-> "id"]
\* The ids of trials start with the time of their creation.
ListTrials        == [sort |-> "id", cursor |-> "id"]
ListSessions      == [sort |-> "last", cursor |-> "last"]

Listings ==
  {FindItems, FindMoodboards, ListTraces, UsersBySignup, UsersByActivity, UsersByCount,
   ListWardrobe, ListMoodboards, ListOutfitBatches, ListAudit, ListEvalRuns, ListTrials,
   ListSessions}

There == {r \in ListRows : times[r] # {}}
Start == [key |-> LastTime + 1, id |-> 0]  \* no cursor

ListTypeOK ==
  /\ times \in [ListRows -> SUBSET (1 .. LastTime)]
  /\ past \subseteq ListRows /\ past \cap There = {}
  /\ now \in 1 .. LastTime
  /\ walk \in [listing : Listings, at : {"on", "done", "cut"}, pages : 0 .. PageCap,
               cursor : [key : Int, id : ListRows \cup {0}], shown : Seq(ListRows),
               steady : SUBSET ListRows, home : Seq(ListRows), placed : SUBSET ListRows]
  /\ changes \in 0 .. MaxListChanges

-----------------------------------------------------------------------------
(* A page. *)

\* What a user did of late, as time goes by: signing up is none of it.
Recent(r) == {t \in times[r] \ {Min(times[r])} : now - t < Window}

\* The number a listing sorts by; a session is grouped from its events before the
\* cursor, so its last one is the last of those.
KeyOf(l, c, r) ==
  CASE l.sort = "created" -> Min(times[r])
    [] l.sort = "updated" -> Max(times[r])
    [] l.sort = "count"   -> Cardinality(Recent(r))
    [] l.sort = "id"      -> r
    [] l.sort = "last"    -> Max({t \in times[r] : t < c.key})

\* Mutant: rows of the same time as the cursor are taken for shown.
AfterTimeOnly(l, c, r) ==
  c = Start \/ CASE l.cursor = "compound" -> KeyOf(l, c, r) < c.key
                 [] l.cursor = "id"       -> r < c.id
                 [] l.cursor = "last"     -> \E t \in times[r] : t < c.key
                 [] l.cursor = "offset"   -> TRUE

\* The filter a cursor adds: the compound one pins the place of the row it names.
After(l, c, r) ==
  c = Start \/ CASE l.cursor = "compound" -> \/ KeyOf(l, c, r) < c.key
                                             \/ KeyOf(l, c, r) = c.key /\ r < c.id
                 [] l.cursor = "id"       -> r < c.id
                 [] l.cursor = "last"     -> \E t \in times[r] : t < c.key
                 [] l.cursor = "offset"   -> TRUE

Newer(r, s) == \/ Min(times[r]) > Min(times[s])
               \/ Min(times[r]) = Min(times[s]) /\ r > s

\* Ties go by id, descending; counts are sorted stably, newest first; those of
\* sessions go either way.
Earlier(l, c, up, r, s) ==
  \/ KeyOf(l, c, r) > KeyOf(l, c, s)
  \/ /\ KeyOf(l, c, r) = KeyOf(l, c, s)
     /\ IF l.sort = "count" THEN Newer(r, s) ELSE IF up THEN r < s ELSE r > s

\* The i-th row is the one with i - 1 before it.
Sorted(l, c, up, rows) ==
  LET Before(r) == {s \in rows : Earlier(l, c, up, s, r)}
  IN  [i \in 1 .. Cardinality(rows) |-> CHOOSE r \in rows : Cardinality(Before(r)) = i - 1]

\* A computed sort sees the newest ScanCap users.
Scanned(l) ==
  IF l.cursor = "offset"
  THEN {r \in There : Cardinality({s \in There : Newer(s, r)}) < ScanCap}
  ELSE There

-----------------------------------------------------------------------------
(* A walk. *)

\* The rows whose place a cursor can tell from those that are there: by id, those
\* created in the order of their ids; by a time alone, those that share none.
InOrder(ts, r, s) == Min(ts[r]) < Min(ts[s]) => r < s
Placeable(l, ts) ==
  LET live == {r \in ListRows : ts[r] # {}} IN
  CASE l.cursor = "id" /\ l.sort = "created" ->
         {r \in ListRows : r \in live => \A s \in live : InOrder(ts, r, s) /\ InOrder(ts, s, r)}
    [] l.cursor = "last" -> {r \in ListRows : \A s \in live \ {r} : ts[r] \cap ts[s] = {}}
    [] OTHER -> ListRows

\* Row r was inserted, updated or deleted.
Disturbed(r) ==
  walk' = [walk EXCEPT !.steady = @ \ {r}, !.placed = @ \cap Placeable(walk.listing, times')]

ListInit ==
  /\ times \in [ListRows -> {T \in SUBSET (1 .. LastTime) : Cardinality(T) < 3}]
  /\ past = {} /\ changes = 0
  /\ now = Max({1} \cup UNION {times[r] : r \in ListRows})
  /\ \E l \in Listings :
       LET home == IF l.cursor = "offset" THEN Sorted(l, Start, FALSE, Scanned(l)) ELSE <<>> IN
       walk = [listing |-> l, at |-> "on", pages |-> 0, cursor |-> Start, shown |-> <<>>,
               steady |-> There, home |-> home,
               placed |-> IF l.cursor = "offset" THEN ToSet(home) ELSE Placeable(l, times)]

\* Counts that cannot be read are 0, so the page is that of another order.
AsRead == {walk.listing} \cup {l \in {UsersBySignup} : walk.listing.sort = "count"}

\* The rows after the cursor; all of them in a listing by offset.
Ordered(l, up) ==
  Sorted(l, walk.cursor, up, {r \in Scanned(walk.listing) : After(walk.listing, walk.cursor, r)})

\* Those from the offset on.
Found(l, up) ==
  LET skip == IF walk.listing.cursor = "offset" THEN walk.pages * PageSize ELSE 0
  IN  SubSeq(Ordered(l, up), skip + 1, Len(Ordered(l, up)))

\* The rows that are where they were when the walk began.
AtHome(rows) ==
  {r \in ListRows : \A i \in DOMAIN rows \cup DOMAIN walk.home :
     (i \in DOMAIN rows /\ rows[i] = r) <=> (i \in DOMAIN walk.home /\ walk.home[i] = r)}
StillPlaced(l, up) ==
  IF walk.listing.cursor = "offset" THEN walk.placed \cap AtHome(Ordered(l, up)) ELSE walk.placed

\* Sessions of one time come in either order.
Orders == IF walk.listing.sort = "last" THEN BOOLEAN ELSE {FALSE}

\* Mutant: the cursor is taken from the extra row that was read to see if there is more.
ReadsPageSkipping ==
  /\ walk.at = "on" /\ UNCHANGED <<times, past, now, changes>>
  /\ \E l \in AsRead, up \in Orders :
       LET found == Found(l, up)
           more  == Len(found) > PageSize
           page  == IF more THEN SubSeq(found, 1, PageSize) ELSE found
       IN  walk' = [walk EXCEPT
             !.shown  = @ \o page,
             !.placed = StillPlaced(l, up),
             !.pages  = IF more THEN @ + 1 ELSE @,
             !.cursor = IF more THEN [key |-> KeyOf(l, @, found[PageSize + 1]),
                                      id  |-> found[PageSize + 1]]
                        ELSE @,
             !.at     = IF ~more THEN "done"
                        ELSE IF walk.pages + 1 = PageCap THEN "cut" ELSE "on"]

\* One row more than the page is read; if it is there, the cursor is that of the last
\* row of the page.  getAllItems stops at its cap.
ReadsPage ==
  /\ walk.at = "on" /\ UNCHANGED <<times, past, now, changes>>
  /\ \E l \in AsRead, up \in Orders :
       LET found == Found(l, up)
           more  == Len(found) > PageSize
           page  == IF more THEN SubSeq(found, 1, PageSize) ELSE found
       IN  walk' = [walk EXCEPT
             !.shown  = @ \o page,
             !.placed = StillPlaced(l, up),
             !.pages  = IF more THEN @ + 1 ELSE @,
             !.cursor = IF more THEN [key |-> KeyOf(l, @, Last(page)), id |-> Last(page)] ELSE @,
             !.at     = IF ~more THEN "done"
                        ELSE IF walk.pages + 1 = PageCap THEN "cut" ELSE "on"]

-----------------------------------------------------------------------------
(* The rows, meanwhile. *)

ListChanging == walk.at = "on" /\ changes < MaxListChanges /\ changes' = changes + 1

Inserted(r) ==
  /\ ListChanging /\ r \notin There \cup past
  /\ times' = [times EXCEPT ![r] = {now}] /\ Disturbed(r) /\ UNCHANGED <<past, now>>

\* The user was active, the session had another event.
Updated(r) ==
  /\ ListChanging /\ r \in There /\ now \notin times[r]
  /\ times' = [times EXCEPT ![r] = @ \cup {now}] /\ Disturbed(r) /\ UNCHANGED <<past, now>>

Deleted(r) ==
  /\ ListChanging /\ r \in There
  /\ times' = [times EXCEPT ![r] = {}] /\ past' = past \cup {r} /\ Disturbed(r)
  /\ UNCHANGED now

TimePasses ==
  /\ walk.at = "on" /\ now < LastTime /\ now' = now + 1
  /\ UNCHANGED <<times, past, walk, changes>>

ListNext ==
  \/ ReadsPage \/ TimePasses
  \/ \E r \in ListRows : Inserted(r) \/ Updated(r) \/ Deleted(r)

ListSpec == ListInit /\ [][ListNext]_listVars

-----------------------------------------------------------------------------
\* "Stable pagination" (users.go:726), row by row: a walk that came to its end has shown
\* every row that was there and unchanged all the while, and shows none twice, whatever was
\* inserted, updated or deleted between two pages, if the cursor could tell its place: in
\* a listing by id alone, a row created in the order of the ids of all others; by a time
\* alone, one that shared none (and it may be shown again); by an offset, one that every
\* page found where it was at first, though counts grow old or cannot be read.
WalkIsExact ==
  /\ walk.at = "done" => walk.steady \cap walk.placed \subseteq ToSet(walk.shown)
  /\ walk.listing.cursor # "last" =>
       \A i, j \in DOMAIN walk.shown :
         walk.shown[i] = walk.shown[j] /\ walk.shown[i] \in walk.placed => i = j
=============================================================================
