--------------------------- MODULE WardrobeItems ---------------------------
(***************************************************************************)
(* One wardrobe item and the PNG of it that background removal makes       *)
(* (backend/internal/wardrobe): the detection that creates the item, the   *)
(* boot-time retry worker, the passes triggered by failures, the updates   *)
(* that replace its image and its deletion.                                *)
(*                                                                         *)
(* A step is one call to Mongo, GridFS or the removal service with the     *)
(* code up to the next call.  Blobs are keyed by item id alone, so any     *)
(* writer replaces any other's.  Other items take no part in these steps.  *)
(* Not modelled: the 7-day window of retries, the text fields of an item.  *)
(***************************************************************************)
EXTENDS Integers, FiniteSets

CONSTANTS
  Updates,       \* PATCH requests that carry a new image
  Original,      \* the detected image; also names the pass its detection triggers
  Worker,        \* names the passes of the worker started at boot
  NoImage,       \* no blob
  MaxAttempts,   \* pngMaxAttempts
  MaxItemFaults  \* bound: failed calls and crashes

Images == Updates \cup {Original}
Passes == Images \cup {Worker}

ASSUME ItemsAssumption ==
  /\ IsFiniteSet(Updates) /\ Original \notin Updates /\ Worker \notin Images
  /\ NoImage \notin Images /\ MaxAttempts \in Nat \ {0} /\ MaxItemFaults \in Nat

VARIABLES
  item,        \* the document in wardrobe_items
  blob,        \* GridFS: the image, and the image the PNG was made from
  det,         \* processDetected for this item
  pass,        \* pass[p]: retryMissingPNGs, at most one per trigger
  ticking,     \* the retry worker has not returned
  upd,         \* upd[u]: updateItem
  making,      \* making[u]: the goroutine updateItem starts
  itemFaults, raced  \* history: faults so far; an image was replaced while a PNG
                     \*   of an older one was being made

itemVars == <<item, blob, det, pass, ticking, upd, making, itemFaults, raced>>

ItemFault == itemFaults < MaxItemFaults /\ itemFaults' = itemFaults + 1
NoItemFault == UNCHANGED itemFaults

Holding == {"listed", "loaded", "made", "stored"}
InHand  == {"loaded", "made", "stored"}

ItemTypeOK ==
  /\ item \in [at : {"new", "stored", "deleted"}, img : BOOLEAN, png : BOOLEAN, attempts : Nat]
  /\ blob \in [img : Images \cup {NoImage}, png : Images \cup {NoImage}]
  /\ det \in [at : {"image", "removal", "png", "save", "ending", "done"},
              img : BOOLEAN, png : BOOLEAN]
  /\ pass \in [Passes -> [at : {"idle", "start"} \cup Holding, of : Images \cup {NoImage}]]
  /\ ticking \in BOOLEAN
  /\ upd \in [Updates -> {"none", "owned", "saved", "unsaved", "done"}]
  /\ making \in [Updates -> {"none", "done"} \cup InHand]
  /\ itemFaults \in 0 .. MaxItemFaults /\ raced \in BOOLEAN

Idle == [at |-> "idle", of |-> NoImage]
Begin == [at |-> "start", of |-> NoImage]

\* The server has just booted: the worker makes its first pass at once.
ItemInit ==
  /\ item = [at |-> "new", img |-> FALSE, png |-> FALSE, attempts |-> 0]
  /\ blob = [img |-> NoImage, png |-> NoImage]
  /\ det = [at |-> "image", img |-> FALSE, png |-> FALSE]
  /\ pass = [p \in Passes |-> IF p = Worker THEN Begin ELSE Idle]
  /\ ticking = TRUE
  /\ upd = [u \in Updates |-> "none"] /\ making = [u \in Updates |-> "none"]
  /\ itemFaults = 0 /\ raced = FALSE

-----------------------------------------------------------------------------
(* processDetected. *)

DetectStoresImage ==
  /\ det.at = "image"
  /\ \/ /\ blob' = [blob EXCEPT !.img = Original]
        /\ det' = [det EXCEPT !.at = "removal", !.img = TRUE] /\ NoItemFault
     \/ ItemFault /\ det' = [det EXCEPT !.at = "save"] /\ UNCHANGED blob
  /\ UNCHANGED <<item, pass, ticking, upd, making, raced>>

\* A failed removal triggers a retry pass, before the item is saved.
DetectRemovesBackground ==
  /\ det.at = "removal"
  /\ \/ det' = [det EXCEPT !.at = "png"] /\ UNCHANGED pass
     \/ det' = [det EXCEPT !.at = "save"] /\ pass' = [pass EXCEPT ![Original] = Begin]
  /\ NoItemFault /\ UNCHANGED <<item, blob, ticking, upd, making, raced>>

DetectStoresPng ==
  /\ det.at = "png"
  /\ \/ /\ blob' = [blob EXCEPT !.png = Original]
        /\ det' = [det EXCEPT !.at = "save", !.png = TRUE] /\ NoItemFault
     \/ ItemFault /\ det' = [det EXCEPT !.at = "save"] /\ UNCHANGED blob
  /\ UNCHANGED <<item, pass, ticking, upd, making, raced>>

DetectSavesItem ==
  /\ det.at = "save" /\ det' = [det EXCEPT !.at = "ending"]
  /\ \/ /\ item' = [at |-> "stored", img |-> det.img, png |-> det.png, attempts |-> 0]
        /\ NoItemFault
     \/ ItemFault /\ UNCHANGED item
  /\ UNCHANGED <<blob, pass, ticking, upd, making, raced>>

\* The handler or job returns, which cancels the context of the pass it triggered.
DetectEnds ==
  /\ det.at = "ending" /\ det' = [det EXCEPT !.at = "done"]
  /\ NoItemFault /\ UNCHANGED <<item, blob, pass, ticking, upd, making, raced>>

-----------------------------------------------------------------------------
(* retryMissingPNGs, by the boot worker or after a trigger. *)

CtxAlive(p) == p = Original => det.at # "done"

\* FindMissingPNG.
Eligible == item.at = "stored" /\ item.img /\ ~item.png /\ item.attempts < MaxAttempts

EndPass(p) == pass' = [pass EXCEPT ![p] = Idle]

\* Mutant: the list is read with <= instead of <.
PassListsOneMore(p) ==
  /\ pass[p].at = "start" /\ NoItemFault
  /\ IF item.at = "stored" /\ item.img /\ ~item.png /\ item.attempts <= MaxAttempts
     THEN pass' = [pass EXCEPT ![p].at = "listed"] /\ UNCHANGED ticking
     ELSE EndPass(p) /\ ticking' = (ticking /\ p # Worker)
  /\ UNCHANGED <<item, blob, det, upd, making, raced>>

\* An empty list, and a list that cannot be read, end the worker for good.
PassLists(p) ==
  /\ pass[p].at = "start"
  /\ \/ /\ Eligible /\ CtxAlive(p) /\ NoItemFault
        /\ pass' = [pass EXCEPT ![p].at = "listed"] /\ UNCHANGED ticking
     \/ /\ ~(Eligible /\ CtxAlive(p)) /\ NoItemFault
        /\ EndPass(p) /\ ticking' = (ticking /\ p # Worker)
     \/ ItemFault /\ EndPass(p) /\ ticking' = (ticking /\ p # Worker)
  /\ UNCHANGED <<item, blob, det, upd, making, raced>>

\* Mutant: the failure is logged but not recorded.
PassFailsUncounted(p) == EndPass(p) /\ UNCHANGED item

\* RecordPngFailure increments by id and never inserts; with the context gone it
\* fails as well.
PassFails(p) ==
  /\ EndPass(p)
  /\ IF item.at = "stored" /\ CtxAlive(p)
     THEN item' = [item EXCEPT !.attempts = @ + 1]
     ELSE UNCHANGED item

PassLoads(p) ==
  /\ pass[p].at = "listed"
  /\ \/ /\ CtxAlive(p) /\ blob.img # NoImage /\ NoItemFault
        /\ pass' = [pass EXCEPT ![p] = [at |-> "loaded", of |-> blob.img]] /\ UNCHANGED item
     \/ (~CtxAlive(p) \/ blob.img = NoImage) /\ PassFails(p) /\ NoItemFault
     \/ ItemFault /\ PassFails(p)
  /\ UNCHANGED <<blob, det, ticking, upd, making, raced>>

\* RemoveBackground takes no context and may always fail.
PassRemoves(p) ==
  /\ pass[p].at = "loaded" /\ NoItemFault
  /\ \/ pass' = [pass EXCEPT ![p].at = "made"] /\ UNCHANGED item
     \/ PassFails(p)
  /\ UNCHANGED <<blob, det, ticking, upd, making, raced>>

\* SaveImage deletes the old blob and uploads: a failure may leave none.
PassStores(p) ==
  /\ pass[p].at = "made"
  /\ \/ /\ CtxAlive(p) /\ NoItemFault /\ blob' = [blob EXCEPT !.png = pass[p].of]
        /\ pass' = [pass EXCEPT ![p].at = "stored"] /\ UNCHANGED item
     \/ ~CtxAlive(p) /\ PassFails(p) /\ NoItemFault /\ UNCHANGED blob
     \/ ItemFault /\ PassFails(p) /\ (UNCHANGED blob \/ blob' = [blob EXCEPT !.png = NoImage])
  /\ UNCHANGED <<det, ticking, upd, making, raced>>

\* Mutant: UpdatePngURL upserts.
PublishUpserts == item' = [item EXCEPT !.at = "stored", !.png = TRUE]

\* UpdatePngURL: by id alone, without an upsert.
Publish ==
  IF item.at = "stored" THEN item' = [item EXCEPT !.png = TRUE] ELSE UNCHANGED item

PassPublishes(p) ==
  /\ pass[p].at = "stored"
  /\ \/ CtxAlive(p) /\ Publish /\ EndPass(p) /\ NoItemFault
     \/ ~CtxAlive(p) /\ PassFails(p) /\ NoItemFault
     \/ ItemFault /\ PassFails(p)
  /\ UNCHANGED <<blob, det, ticking, upd, making, raced>>

\* The ticker of the boot worker.
WorkerTicks ==
  /\ ticking /\ pass[Worker].at = "idle" /\ pass' = [pass EXCEPT ![Worker] = Begin]
  /\ NoItemFault /\ UNCHANGED <<item, blob, det, ticking, upd, making, raced>>

-----------------------------------------------------------------------------
(* updateItem and deleteItem. *)

\* OwnsItem.
UpdateBegins(u) ==
  /\ upd[u] = "none" /\ item.at = "stored" /\ upd' = [upd EXCEPT ![u] = "owned"]
  /\ NoItemFault /\ UNCHANGED <<item, blob, det, pass, ticking, making, raced>>

OlderInHand == (\E p \in Passes : pass[p].at \in InHand) \/ (\E v \in Updates : making[v] \in InHand)

\* SaveImage, then the goroutine that makes the PNG.
UpdateStoresImage(u) ==
  /\ upd[u] = "owned"
  /\ \/ /\ blob' = [blob EXCEPT !.img = u] /\ raced' = (raced \/ OlderInHand)
        /\ upd' = [upd EXCEPT ![u] = "saved"] /\ making' = [making EXCEPT ![u] = "loaded"]
        /\ NoItemFault
     \/ /\ ItemFault /\ (UNCHANGED blob \/ blob' = [blob EXCEPT !.img = NoImage])
        /\ upd' = [upd EXCEPT ![u] = "unsaved"] /\ UNCHANGED <<making, raced>>
  /\ UNCHANGED <<item, det, pass, ticking>>

\* Mutant: the old PNG is not cleared.
UpdateKeepsPng(u) ==
  /\ upd[u] \in {"saved", "unsaved"} /\ upd' = [upd EXCEPT ![u] = "done"]
  /\ item' = [item EXCEPT !.img = TRUE]
  /\ NoItemFault /\ UNCHANGED <<blob, det, pass, ticking, making, raced>>

\* UpdateItem: 404 when the item is gone; without a stored image the URLs stay.
UpdateWritesItem(u) ==
  /\ upd[u] \in {"saved", "unsaved"} /\ upd' = [upd EXCEPT ![u] = "done"]
  /\ \/ /\ NoItemFault
        /\ IF upd[u] = "saved" /\ item.at = "stored"
           THEN item' = [item EXCEPT !.img = TRUE, !.png = FALSE] ELSE UNCHANGED item
     \/ ItemFault /\ UNCHANGED item
  /\ UNCHANGED <<blob, det, pass, ticking, making, raced>>

\* The goroutine: removal, SaveImage, UpdatePngURL, on the server's context.
MakePng(u) ==
  /\ \/ /\ making[u] = "loaded" /\ NoItemFault
        /\ \/ making' = [making EXCEPT ![u] = "made"] /\ UNCHANGED pass
           \/ making' = [making EXCEPT ![u] = "done"] /\ pass' = [pass EXCEPT ![u] = Begin]
        /\ UNCHANGED <<item, blob>>
     \/ /\ making[u] = "made" /\ UNCHANGED <<item, pass>>
        /\ \/ /\ NoItemFault /\ blob' = [blob EXCEPT !.png = u]
              /\ making' = [making EXCEPT ![u] = "stored"]
           \/ /\ ItemFault /\ (UNCHANGED blob \/ blob' = [blob EXCEPT !.png = NoImage])
              /\ making' = [making EXCEPT ![u] = "done"]
     \/ /\ making[u] = "stored" /\ making' = [making EXCEPT ![u] = "done"]
        /\ ((Publish /\ NoItemFault) \/ (ItemFault /\ UNCHANGED item)) /\ UNCHANGED <<blob, pass>>
  /\ UNCHANGED <<det, ticking, upd, raced>>

\* Delete removes the document; its blobs stay.
DeleteItem ==
  /\ item.at = "stored" /\ item' = [item EXCEPT !.at = "deleted"]
  /\ NoItemFault /\ UNCHANGED <<blob, det, pass, ticking, upd, making, raced>>

\* The process dies and boots again.
ItemCrash ==
  /\ ItemFault
  /\ det' = [det EXCEPT !.at = "done"]
  /\ pass' = [p \in Passes |-> IF p = Worker THEN Begin ELSE Idle] /\ ticking' = TRUE
  /\ upd' = [u \in Updates |-> IF upd[u] = "none" THEN "none" ELSE "done"]
  /\ making' = [u \in Updates |-> IF making[u] = "none" THEN "none" ELSE "done"]
  /\ UNCHANGED <<item, blob, raced>>

-----------------------------------------------------------------------------
DetectStep ==
  \/ DetectStoresImage \/ DetectRemovesBackground \/ DetectStoresPng \/ DetectSavesItem
  \/ DetectEnds
PassStep(p) ==
  \/ PassLists(p) \/ PassLoads(p) \/ PassRemoves(p) \/ PassStores(p) \/ PassPublishes(p)
UpdateStep(u) == UpdateStoresImage(u) \/ UpdateWritesItem(u)

ItemNext ==
  \/ DetectStep \/ WorkerTicks \/ DeleteItem \/ ItemCrash
  \/ \E p \in Passes : PassStep(p)
  \/ \E u \in Updates : UpdateBegins(u) \/ UpdateStep(u) \/ MakePng(u)

ItemSpec == ItemInit /\ [][ItemNext]_itemVars

\* Goroutines run on, calls return, the ticker ticks.
ItemFairness ==
  /\ WF_itemVars(DetectStep) /\ WF_itemVars(WorkerTicks)
  /\ \A p \in Passes : WF_itemVars(PassStep(p))
  /\ \A u \in Updates : WF_itemVars(UpdateStep(u)) /\ WF_itemVars(MakePng(u))

-----------------------------------------------------------------------------
\* A PNG that is shown was made from the image that is shown, unless an image
\* was replaced while a PNG of an older one was being made; passes, updates and
\* the detection may overlap in every other way (handler.go updateItem, pngworker.go).
PngIsOfImage ==
  itemFaults = 0 /\ ~raced /\ item.at = "stored" /\ item.png
     /\ (\A u \in Updates : upd[u] # "saved")
  => blob.png = blob.img

ItemHolders == {p \in Passes : pass[p].at \in Holding}

\* pngMaxAttempts is exceeded by at most the passes that overlap: each counts one
\* failure of a list it read while the item had attempts left.
AttemptsBounded == item.attempts + Cardinality(ItemHolders) <= MaxAttempts - 1 + Cardinality(Passes)

\* No late writer of a pass, an update or a detection brings a deleted item back.
DeletedStays == [][item.at = "deleted" => item'.at = "deleted"]_itemVars

\* Retrying ends: an image that cannot be processed ages out (repository.go,
\* FindMissingPNG, "would retry every 30s forever").
RetriesEnd == <>[](\A p \in Passes : pass[p].at = "idle")
=============================================================================
