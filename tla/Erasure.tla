------------------------------ MODULE Erasure -------------------------------
(***************************************************************************)
(* Saving a moodboard (backend/internal/moodboard) and erasing an account  *)
(* (backend/internal/privacy), which run concurrently: the routes check    *)
(* the access token only, so a request of a user may outlive its document. *)
(*                                                                         *)
(* A board is named after the save that makes it; its rendered image is a  *)
(* GridFS blob under the board's id.  Wardrobe items and detection runs    *)
(* are purged the same way (list the ids, delete each blob, delete the     *)
(* rows); the collections without blobs are one set of rows.  What a save  *)
(* then blends into the user document is left out.                         *)
(***************************************************************************)
EXTENDS Integers

CONSTANTS
  Saves,            \* POST /v1/moodboards requests
  Dates,            \* the days boards are saved for
  Purges,           \* erasures: self-service, delete account, or an admin's
  Rows,             \* rows other requests and background jobs write
  MaxErasureFaults  \* bound: failed database and GridFS calls

ASSUME ErasureAssumption == MaxErasureFaults \in Nat /\ Saves \cap Rows = {}

VARIABLES
  user,        \* the user document exists
  boards,      \* boards[d]: the moodboard documents of the day
  images,      \* boards whose image is in GridFS
  rows,        \* rows[r]: a row of the collections without blobs
  budgetRow,   \* the user's row of user_budgets, keyed by its field userId
  sv,          \* sv[s]: where the save is and its date
  pg,          \* pg[p]: where the purge is, the images it has still to delete,
               \*   and what was settled when it began
  erased,      \* history: what was settled when the purge that deleted the user began
  replaced,    \* history: boards that a later save for their day deleted
  raced,       \* history: saves that were under way beside a purge
  erasureFaults

erasureVars == <<user, boards, images, rows, budgetRow, sv, pg, erased, replaced,
                 raced, erasureFaults>>

ErasureFault   == erasureFaults < MaxErasureFaults /\ erasureFaults' = erasureFaults + 1
NoErasureFault == UNCHANGED erasureFaults
AllBoards == UNION {boards[d] : d \in Dates}
Kept == {r \in Rows : rows[r] = "kept"}

ErasureTypeOK ==
  /\ user \in BOOLEAN /\ boards \in [Dates -> SUBSET Saves] /\ images \subseteq Saves
  /\ rows \in [Rows -> {"unwritten", "kept", "deleted"}] /\ budgetRow \in BOOLEAN
  /\ sv \in [Saves -> [at : {"idle", "rendered", "cleared", "done"}, date : Dates]]
  /\ pg \in [Purges -> [at : {"idle", "begun", "listed", "wiped", "rest", "budget", "done",
                              "failed"},
                        blobs : SUBSET Saves, before : SUBSET (Saves \cup Rows)]]
  /\ erased \subseteq Saves \cup Rows /\ replaced \subseteq Saves /\ raced \subseteq Saves
  /\ erasureFaults \in 0 .. MaxErasureFaults

ErasureInit ==
  /\ user = TRUE /\ boards = [d \in Dates |-> {}] /\ images = {}
  /\ rows = [r \in Rows |-> "unwritten"] /\ budgetRow = FALSE
  /\ erased = {} /\ replaced = {} /\ raced = {} /\ erasureFaults = 0
  /\ sv \in [Saves -> [at : {"idle"}, date : Dates]]
  /\ pg = [p \in Purges |-> [at |-> "idle", blobs |-> {}, before |-> {}]]

-----------------------------------------------------------------------------
(* Save.  SaveGoes leaves the purges alone. *)

SvAt(s, at) == sv[s].at = at
Purging(p) == pg[p].at \notin {"idle", "done", "failed"}
SaveGoes(s, at) ==
  /\ sv' = [sv EXCEPT ![s].at = at]
  /\ UNCHANGED <<user, rows, budgetRow, pg, erased>>

\* SaveImage, best effort: a board without a render is saved all the same.
Renders(s) ==
  /\ SvAt(s, "idle") /\ SaveGoes(s, "rendered")
  /\ raced' = IF \E p \in Purges : Purging(p) THEN raced \cup {s} ELSE raced
  /\ \/ images' = images \cup {s} /\ NoErasureFault
     \/ UNCHANGED images /\ NoErasureFault     \* no image, too large, upload failed
  /\ UNCHANGED <<boards, replaced>>

\* Repository.Save deletes the boards of the day, and not their images,
ClearsDay(s) ==
  /\ SvAt(s, "rendered")
  /\ \/ /\ boards' = [boards EXCEPT ![sv[s].date] = {}]
        /\ replaced' = replaced \cup boards[sv[s].date]
        /\ SaveGoes(s, "cleared") /\ NoErasureFault
     \/ SaveGoes(s, "done") /\ ErasureFault /\ UNCHANGED <<boards, replaced>>
  /\ UNCHANGED <<images, raced>>

\* and inserts the new one.
InsertsBoard(s) ==
  /\ SvAt(s, "cleared")
  /\ \/ /\ boards' = [boards EXCEPT ![sv[s].date] = @ \cup {s}]
        /\ SaveGoes(s, "done") /\ NoErasureFault
     \/ SaveGoes(s, "done") /\ ErasureFault /\ UNCHANGED boards
  /\ UNCHANGED <<images, replaced, raced>>

-----------------------------------------------------------------------------
(* Other writers. *)

WritesRow(r) ==
  /\ rows[r] = "unwritten" /\ rows' = [rows EXCEPT ![r] = "kept"] /\ NoErasureFault
  /\ UNCHANGED <<user, boards, images, budgetRow, sv, pg, erased, replaced, raced>>

\* An admin sets a budget: an upsert that matches the field userId.
SetsBudget ==
  /\ user /\ ~budgetRow /\ budgetRow' = TRUE /\ NoErasureFault
  /\ UNCHANGED <<user, boards, images, rows, sv, pg, erased, replaced, raced>>

-----------------------------------------------------------------------------
(* Purge.  PurgeGoes leaves the saves alone. *)

PgAt(p, at) == pg[p].at = at
PurgeGoes(p, at) == pg' = [pg EXCEPT ![p].at = at]
Saved == {s \in Saves : SvAt(s, "done")}

\* A call of the database fails or its minute is over: a 500, which the user may
\* retry.
PurgeFails(p) ==
  /\ pg[p].at \in {"begun", "listed", "wiped", "rest", "budget"}
  /\ ErasureFault /\ PurgeGoes(p, "failed")
  /\ UNCHANGED <<user, boards, images, rows, budgetRow, sv, erased, replaced, raced>>

\* The existence check; a user who is gone is answered 404.
BeginsPurge(p) ==
  /\ pg[p].at \in {"idle", "failed"}
  /\ IF user
     THEN /\ pg' = [pg EXCEPT ![p] = [at |-> "begun", blobs |-> {}, before |-> Saved \cup Kept]]
          /\ raced' = raced \cup {s \in Saves : ~SvAt(s, "idle") /\ ~SvAt(s, "done")}
     ELSE PurgeGoes(p, "done") /\ UNCHANGED raced
  /\ NoErasureFault /\ UNCHANGED <<user, boards, images, rows, budgetRow, sv, erased, replaced>>

\* DeleteAllByUser lists the ids first, to know the blobs,
ListsBoards(p) ==
  /\ PgAt(p, "begun")
  /\ pg' = [pg EXCEPT ![p].at = "listed", ![p].blobs = AllBoards]
  /\ NoErasureFault /\ UNCHANGED <<user, boards, images, rows, budgetRow, sv, erased, replaced, raced>>

\* deletes each blob, best effort,
DeletesBlob(p) ==
  /\ PgAt(p, "listed")
  /\ \E s \in pg[p].blobs :
       /\ pg' = [pg EXCEPT ![p].blobs = @ \ {s}]
       /\ \/ images' = images \ {s} /\ NoErasureFault
          \/ ErasureFault /\ UNCHANGED images
  /\ UNCHANGED <<user, boards, rows, budgetRow, sv, erased, replaced, raced>>

\* Mutant: the rows are deleted before their blobs.
DeletesBoardsFirst(p) ==
  /\ PgAt(p, "listed") /\ PurgeGoes(p, "wiped") /\ boards' = [d \in Dates |-> {}]
  /\ NoErasureFault /\ UNCHANGED <<user, images, rows, budgetRow, sv, erased, replaced, raced>>

\* and deletes whatever rows there are by now.
DeletesBoards(p) ==
  /\ PgAt(p, "listed") /\ pg[p].blobs = {}
  /\ boards' = [d \in Dates |-> {}] /\ PurgeGoes(p, "wiped")
  /\ NoErasureFault /\ UNCHANGED <<user, images, rows, budgetRow, sv, erased, replaced, raced>>

DeletesRows(p) ==
  /\ PgAt(p, "wiped") /\ rows' = [r \in Rows |-> IF rows[r] = "kept" THEN "deleted" ELSE rows[r]]
  /\ PurgeGoes(p, "rest")
  /\ NoErasureFault /\ UNCHANGED <<user, boards, images, budgetRow, sv, erased, replaced, raced>>

\* user_budgets by _id, which holds no user id: nothing matches.
DeletesBudget(p) ==
  /\ PgAt(p, "rest") /\ PurgeGoes(p, "budget")
  /\ NoErasureFault
  /\ UNCHANGED <<user, boards, images, rows, budgetRow, sv, erased, replaced, raced>>

\* The user document goes last; of two purges one deletes it.
DeletesUser(p) ==
  /\ PgAt(p, "budget") /\ PurgeGoes(p, "done")
  /\ user' = FALSE
  /\ erased' = IF user THEN pg[p].before ELSE erased
  /\ NoErasureFault /\ UNCHANGED <<boards, images, rows, budgetRow, sv, replaced, raced>>

ErasureNext ==
  \/ SetsBudget
  \/ \E s \in Saves : \/ Renders(s) \/ ClearsDay(s) \/ InsertsBoard(s)
  \/ \E r \in Rows : WritesRow(r)
  \/ \E p \in Purges : \/ BeginsPurge(p) \/ ListsBoards(p) \/ DeletesBlob(p) \/ DeletesBoards(p)
                       \/ DeletesRows(p) \/ DeletesBudget(p) \/ DeletesUser(p) \/ PurgeFails(p)

ErasureSpec == ErasureInit /\ [][ErasureNext]_erasureVars

-----------------------------------------------------------------------------
\* "Delete the user record LAST" (privacy/service.go:84): once the user is gone, what
\* was settled when that purge began is gone for good, whatever failed, was retried or
\* ran beside it.  Images are deleted best effort, and those of boards that a save
\* replaced are out of its reach.
ErasedIsGone ==
  ~user =>
    /\ AllBoards \cap erased = {} /\ Kept \cap erased = {}
    /\ erasureFaults = 0 => images \cap erased \subseteq replaced \cup raced

\* "Purge wipes every per-user document for userID" (privacy/service.go:81), and its
\* image blobs "go too" (privacy/service.go:111): after a purge that nothing disturbed
\* the user has no board, image, row or budget.
PurgeLeavesNothing ==
  (~user /\ erasureFaults = 0 /\ raced = {} /\ Kept \cup AllBoards \cup images \subseteq erased) =>
    AllBoards = {} /\ images = {} /\ Kept = {} /\ ~budgetRow
=============================================================================
