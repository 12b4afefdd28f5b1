-------------------------- MODULE BackgroundProofs --------------------------
(***************************************************************************)
(* Theorems about WardrobeItems, for every number of updates, attempts and *)
(* failed calls, about DetectJobs, for every set of photos and all limits, *)
(* about Sessions, for every number of requests, tokens and faults, and    *)
(* about the three together, as MCBackground composes them.                *)
(***************************************************************************)
EXTENDS MCBackground, FiniteSetTheorems, TLAPS

-----------------------------------------------------------------------------
(* WardrobeItems. *)

LEMMA ItemTypeInit == ItemInit => ItemTypeOK
<1> SUFFICES ASSUME ItemInit PROVE ItemTypeOK
  OBVIOUS
<1> USE ItemsAssumption DEF ItemInit
<1>1. item \in [at : {"new", "stored", "deleted"}, img : BOOLEAN, png : BOOLEAN, attempts : Nat]
  OBVIOUS
<1>2. det \in [at : {"image", "removal", "png", "save", "ending", "done"},
              img : BOOLEAN, png : BOOLEAN]
  OBVIOUS
<1>3. pass \in [Passes -> [at : {"idle", "start"} \cup Holding, of : Images \cup {NoImage}]]
  BY DEF Begin, Idle, Images
<1>4. upd \in [Updates -> {"none", "owned", "saved", "unsaved", "done"}]
  OBVIOUS
<1>5. making \in [Updates -> {"none", "done"} \cup InHand]
  OBVIOUS
<1>6. ticking \in BOOLEAN /\ raced \in BOOLEAN
  OBVIOUS
<1>7. itemFaults \in 0 .. MaxItemFaults
  OBVIOUS
<1>8. blob \in [img : Images \cup {NoImage}, png : Images \cup {NoImage}]
  OBVIOUS
<1> QED
  BY <1>1, <1>2, <1>3, <1>4, <1>5, <1>6, <1>7, <1>8 DEF ItemTypeOK

ItemDoc ==
  [at : {"new", "stored", "deleted"}, img : BOOLEAN, png : BOOLEAN, attempts : Nat]

LEMMA ItemDocs ==
  ASSUME ItemTypeOK
  PROVE  /\ item \in ItemDoc /\ [item EXCEPT !.png = TRUE] \in ItemDoc
         /\ [item EXCEPT !.img = TRUE, !.png = FALSE] \in ItemDoc
         /\ [item EXCEPT !.attempts = @ + 1] \in ItemDoc
<1>1. item \in ItemDoc
  BY DEF ItemTypeOK, ItemDoc
<1>2. [item EXCEPT !.png = TRUE] \in ItemDoc
  BY <1>1 DEF ItemDoc
<1>3. [item EXCEPT !.img = TRUE, !.png = FALSE] \in ItemDoc
  BY <1>1 DEF ItemDoc
<1>4. [item EXCEPT !.attempts = @ + 1] \in ItemDoc
  BY <1>1 DEF ItemDoc
<1> QED
  BY <1>1, <1>2, <1>3, <1>4

DetRecord ==
  [at : {"image", "removal", "png", "save", "ending", "done"}, img : BOOLEAN, png : BOOLEAN]

LEMMA DetChanges ==
  ASSUME NEW d \in DetRecord
  PROVE  /\ [d EXCEPT !.at = "removal", !.img = TRUE] \in DetRecord
         /\ [d EXCEPT !.at = "save", !.png = TRUE] \in DetRecord
         /\ [d EXCEPT !.at = "save"] \in DetRecord
BY DEF DetRecord

LEMMA ItemTypeStep == ItemTypeOK /\ [ItemNext]_itemVars => ItemTypeOK'
<1> SUFFICES ASSUME ItemTypeOK, [ItemNext]_itemVars PROVE ItemTypeOK'
  OBVIOUS
<1> USE ItemsAssumption
    DEF ItemTypeOK, ItemFault, NoItemFault, Holding, InHand, Images, Passes, Begin, Idle,
        EndPass, PassFails, Publish
<1>1. CASE DetectStoresImage
  <2>1. blob' \in [img : Images \cup {NoImage}, png : Images \cup {NoImage}]
    BY <1>1 DEF DetectStoresImage
  <2>2. det' \in DetRecord
    <3>1. det \in DetRecord
      BY DEF DetRecord
    <3>2. det' = [det EXCEPT !.at = "removal", !.img = TRUE] \/ det' = [det EXCEPT !.at = "save"]
      BY <1>1 DEF DetectStoresImage
    <3> QED
      BY <3>1, <3>2, DetChanges
  <2>3. itemFaults' \in 0 .. MaxItemFaults
    BY <1>1 DEF DetectStoresImage
  <2> QED
    BY <1>1, <2>1, <2>2, <2>3 DEF DetectStoresImage, DetRecord
<1>2. CASE DetectRemovesBackground
  BY <1>2 DEF DetectRemovesBackground
<1>3. CASE DetectStoresPng
  <2>1. blob' \in [img : Images \cup {NoImage}, png : Images \cup {NoImage}]
    BY <1>3 DEF DetectStoresPng
  <2>2. det' \in DetRecord
    <3>1. det \in DetRecord
      BY DEF DetRecord
    <3>2. det' = [det EXCEPT !.at = "save", !.png = TRUE] \/ det' = [det EXCEPT !.at = "save"]
      BY <1>3 DEF DetectStoresPng
    <3> QED
      BY <3>1, <3>2, DetChanges
  <2>3. itemFaults' \in 0 .. MaxItemFaults
    BY <1>3 DEF DetectStoresPng
  <2> QED
    BY <1>3, <2>1, <2>2, <2>3 DEF DetectStoresPng, DetRecord
<1>4. CASE DetectSavesItem
  BY <1>4 DEF DetectSavesItem
<1>5. CASE DetectEnds
  BY <1>5 DEF DetectEnds
<1>6. CASE WorkerTicks
  BY <1>6 DEF WorkerTicks
<1>7. CASE DeleteItem
  BY <1>7 DEF DeleteItem
<1>8. CASE ItemCrash
  BY <1>8 DEF ItemCrash
<1>9. ASSUME NEW p \in Passes, PassLists(p) PROVE ItemTypeOK'
  <2>1. pass' \in [Passes -> [at : {"idle", "start"} \cup Holding, of : Images \cup {NoImage}]]
    BY <1>9 DEF PassLists
  <2>2. ticking' \in BOOLEAN
    <3>1. ticking' = ticking \/ ticking' = (ticking /\ p # Worker)
      BY <1>9, Zenon DEF PassLists
    <3> QED
      BY <3>1, Zenon
  <2>3. itemFaults' \in 0 .. MaxItemFaults
    BY <1>9 DEF PassLists
  <2>4. UNCHANGED <<item, blob, det, upd, making, raced>>
    BY <1>9 DEF PassLists
  <2> QED
    BY <2>1, <2>2, <2>3, <2>4
<1>10. ASSUME NEW p \in Passes, PassLoads(p) PROVE ItemTypeOK'
  BY <1>10 DEF PassLoads
<1>11. ASSUME NEW p \in Passes, PassRemoves(p) PROVE ItemTypeOK'
  BY <1>11 DEF PassRemoves
<1>12. ASSUME NEW p \in Passes, PassStores(p) PROVE ItemTypeOK'
  BY <1>12 DEF PassStores
<1>13. ASSUME NEW p \in Passes, PassPublishes(p) PROVE ItemTypeOK'
  <2>1. item' \in ItemDoc
    <3>1. \/ item' = item \/ item' = [item EXCEPT !.png = TRUE]
          \/ item' = [item EXCEPT !.attempts = @ + 1]
      BY <1>13 DEF PassPublishes
    <3> QED
      BY <3>1, ItemDocs
  <2>2. pass' \in [Passes -> [at : {"idle", "start"} \cup Holding, of : Images \cup {NoImage}]]
    BY <1>13 DEF PassPublishes
  <2>3. itemFaults' \in 0 .. MaxItemFaults
    BY <1>13 DEF PassPublishes
  <2>4. UNCHANGED <<blob, det, ticking, upd, making, raced>>
    BY <1>13 DEF PassPublishes
  <2> QED
    BY <2>1, <2>2, <2>3, <2>4 DEF ItemDoc
<1>14. ASSUME NEW u \in Updates, UpdateBegins(u) PROVE ItemTypeOK'
  BY <1>14 DEF UpdateBegins
<1>15. ASSUME NEW u \in Updates, UpdateStoresImage(u) PROVE ItemTypeOK'
  <2>1. blob' \in [img : Images \cup {NoImage}, png : Images \cup {NoImage}]
    BY <1>15 DEF UpdateStoresImage
  <2>2. raced' \in BOOLEAN
    <3>1. raced' = raced \/ raced' = (raced \/ OlderInHand)
      BY <1>15, Zenon DEF UpdateStoresImage
    <3> QED
      BY <3>1, Zenon
  <2>3. /\ upd' \in [Updates -> {"none", "owned", "saved", "unsaved", "done"}]
        /\ making' \in [Updates -> {"none", "done"} \cup InHand]
    BY <1>15 DEF UpdateStoresImage
  <2>4. itemFaults' \in 0 .. MaxItemFaults
    BY <1>15 DEF UpdateStoresImage
  <2>5. UNCHANGED <<item, det, pass, ticking>>
    BY <1>15 DEF UpdateStoresImage
  <2> QED
    BY <2>1, <2>2, <2>3, <2>4, <2>5
<1>16. ASSUME NEW u \in Updates, UpdateWritesItem(u) PROVE ItemTypeOK'
  <2>1. item' \in ItemDoc
    <3>1. item' = item \/ item' = [item EXCEPT !.img = TRUE, !.png = FALSE]
      BY <1>16 DEF UpdateWritesItem
    <3> QED
      BY <3>1, ItemDocs
  <2>2. upd' \in [Updates -> {"none", "owned", "saved", "unsaved", "done"}]
    BY <1>16 DEF UpdateWritesItem
  <2>3. itemFaults' \in 0 .. MaxItemFaults
    BY <1>16 DEF UpdateWritesItem
  <2>4. UNCHANGED <<blob, det, pass, ticking, making, raced>>
    BY <1>16 DEF UpdateWritesItem
  <2> QED
    BY <2>1, <2>2, <2>3, <2>4 DEF ItemDoc
<1>17. ASSUME NEW u \in Updates, MakePng(u) PROVE ItemTypeOK'
  <2>1. item' \in ItemDoc
    <3>1. item' = item \/ item' = [item EXCEPT !.png = TRUE]
      BY <1>17 DEF MakePng
    <3> QED
      BY <3>1, ItemDocs
  <2>2. blob' \in [img : Images \cup {NoImage}, png : Images \cup {NoImage}]
    BY <1>17 DEF MakePng
  <2>3. pass' \in [Passes -> [at : {"idle", "start"} \cup Holding, of : Images \cup {NoImage}]]
    BY <1>17 DEF MakePng
  <2>4. making' \in [Updates -> {"none", "done"} \cup InHand]
    BY <1>17 DEF MakePng
  <2>5. itemFaults' \in 0 .. MaxItemFaults
    BY <1>17 DEF MakePng
  <2>6. UNCHANGED <<det, ticking, upd, raced>>
    BY <1>17 DEF MakePng
  <2> QED
    BY <2>1, <2>2, <2>3, <2>4, <2>5, <2>6 DEF ItemDoc
<1>18. CASE UNCHANGED itemVars
  BY <1>18 DEF itemVars
<1> QED
  BY <1>1, <1>2, <1>3, <1>4, <1>5, <1>6, <1>7, <1>8, <1>9, <1>10, <1>11, <1>12, <1>13,
     <1>14, <1>15, <1>16, <1>17, <1>18 DEF ItemNext, DetectStep, PassStep, UpdateStep

(***************************************************************************)
(* Items, the holders of copies of them, the images and the attempts keep  *)
(* their types.                                                            *)
(***************************************************************************)
THEOREM ItemTypeCorrect == ItemSpec => []ItemTypeOK
  BY ItemTypeInit, ItemTypeStep, PTL DEF ItemSpec
-----------------------------------------------------------------------------
(***************************************************************************)
(* That nobody brings a deleted item back rests on the one writer that     *)
(* inserts: as long as the detection has not saved the item there is none  *)
(* to delete; every other write is by id and never inserts.                *)
(***************************************************************************)
UnsavedIsNew == det.at \in {"image", "removal", "png", "save"} => item.at = "new"

LEMMA UnsavedInit == ItemInit => UnsavedIsNew
  BY DEF ItemInit, UnsavedIsNew

LEMMA UnsavedStep == ItemTypeOK /\ UnsavedIsNew /\ [ItemNext]_itemVars => UnsavedIsNew'
<1> SUFFICES ASSUME ItemTypeOK /\ UnsavedIsNew, [ItemNext]_itemVars PROVE UnsavedIsNew'
  OBVIOUS
<1> USE ItemsAssumption
    DEF ItemTypeOK, UnsavedIsNew, EndPass, PassFails, Publish
<1>1. CASE DetectStoresImage
  BY <1>1 DEF DetectStoresImage
<1>2. CASE DetectRemovesBackground
  BY <1>2 DEF DetectRemovesBackground
<1>3. CASE DetectStoresPng
  BY <1>3 DEF DetectStoresPng
<1>4. CASE DetectSavesItem
  BY <1>4 DEF DetectSavesItem
<1>5. CASE DetectEnds
  BY <1>5 DEF DetectEnds
<1>6. CASE WorkerTicks
  BY <1>6 DEF WorkerTicks
<1>7. CASE DeleteItem
  BY <1>7 DEF DeleteItem
<1>8. CASE ItemCrash
  BY <1>8 DEF ItemCrash
<1>9. ASSUME NEW p \in Passes, PassLists(p) PROVE UnsavedIsNew'
  BY <1>9 DEF PassLists
<1>10. ASSUME NEW p \in Passes, PassLoads(p) PROVE UnsavedIsNew'
  BY <1>10 DEF PassLoads
<1>11. ASSUME NEW p \in Passes, PassRemoves(p) PROVE UnsavedIsNew'
  BY <1>11 DEF PassRemoves
<1>12. ASSUME NEW p \in Passes, PassStores(p) PROVE UnsavedIsNew'
  BY <1>12 DEF PassStores
<1>13. ASSUME NEW p \in Passes, PassPublishes(p) PROVE UnsavedIsNew'
  BY <1>13 DEF PassPublishes
<1>14. ASSUME NEW u \in Updates, UpdateBegins(u) PROVE UnsavedIsNew'
  BY <1>14 DEF UpdateBegins
<1>15. ASSUME NEW u \in Updates, UpdateStoresImage(u) PROVE UnsavedIsNew'
  BY <1>15 DEF UpdateStoresImage
<1>16. ASSUME NEW u \in Updates, UpdateWritesItem(u) PROVE UnsavedIsNew'
  BY <1>16 DEF UpdateWritesItem
<1>17. ASSUME NEW u \in Updates, MakePng(u) PROVE UnsavedIsNew'
  BY <1>17 DEF MakePng
<1>18. CASE UNCHANGED itemVars
  BY <1>18 DEF itemVars
<1> QED
  BY <1>1, <1>2, <1>3, <1>4, <1>5, <1>6, <1>7, <1>8, <1>9, <1>10, <1>11, <1>12, <1>13,
     <1>14, <1>15, <1>16, <1>17, <1>18 DEF ItemNext, DetectStep, PassStep, UpdateStep

LEMMA DeletedStep ==
  ItemTypeOK /\ UnsavedIsNew /\ [ItemNext]_itemVars => (item.at = "deleted" => item'.at = "deleted")
<1> SUFFICES ASSUME ItemTypeOK /\ UnsavedIsNew, [ItemNext]_itemVars, item.at = "deleted"
             PROVE item'.at = "deleted"
  OBVIOUS
<1> USE ItemsAssumption
    DEF ItemTypeOK, UnsavedIsNew, EndPass, PassFails, Publish
<1>1. CASE DetectStoresImage
  BY <1>1 DEF DetectStoresImage
<1>2. CASE DetectRemovesBackground
  BY <1>2 DEF DetectRemovesBackground
<1>3. CASE DetectStoresPng
  BY <1>3 DEF DetectStoresPng
<1>4. CASE DetectSavesItem
  BY <1>4 DEF DetectSavesItem
<1>5. CASE DetectEnds
  BY <1>5 DEF DetectEnds
<1>6. CASE WorkerTicks
  BY <1>6 DEF WorkerTicks
<1>7. CASE DeleteItem
  BY <1>7 DEF DeleteItem
<1>8. CASE ItemCrash
  BY <1>8 DEF ItemCrash
<1>9. ASSUME NEW p \in Passes, PassLists(p) PROVE item'.at = "deleted"
  BY <1>9 DEF PassLists
<1>10. ASSUME NEW p \in Passes, PassLoads(p) PROVE item'.at = "deleted"
  BY <1>10 DEF PassLoads
<1>11. ASSUME NEW p \in Passes, PassRemoves(p) PROVE item'.at = "deleted"
  BY <1>11 DEF PassRemoves
<1>12. ASSUME NEW p \in Passes, PassStores(p) PROVE item'.at = "deleted"
  BY <1>12 DEF PassStores
<1>13. ASSUME NEW p \in Passes, PassPublishes(p) PROVE item'.at = "deleted"
  BY <1>13 DEF PassPublishes
<1>14. ASSUME NEW u \in Updates, UpdateBegins(u) PROVE item'.at = "deleted"
  BY <1>14 DEF UpdateBegins
<1>15. ASSUME NEW u \in Updates, UpdateStoresImage(u) PROVE item'.at = "deleted"
  BY <1>15 DEF UpdateStoresImage
<1>16. ASSUME NEW u \in Updates, UpdateWritesItem(u) PROVE item'.at = "deleted"
  BY <1>16 DEF UpdateWritesItem
<1>17. ASSUME NEW u \in Updates, MakePng(u) PROVE item'.at = "deleted"
  BY <1>17 DEF MakePng
<1>18. CASE UNCHANGED itemVars
  BY <1>18 DEF itemVars
<1> QED
  BY <1>1, <1>2, <1>3, <1>4, <1>5, <1>6, <1>7, <1>8, <1>9, <1>10, <1>11, <1>12, <1>13,
     <1>14, <1>15, <1>16, <1>17, <1>18 DEF ItemNext, DetectStep, PassStep, UpdateStep

\* No late writer brings a deleted item back.
THEOREM DeletionIsFinal == ItemSpec => DeletedStays
<1>1. ItemTypeOK /\ UnsavedIsNew /\ [ItemNext]_itemVars
        => [item.at = "deleted" => item'.at = "deleted"]_itemVars
  BY DeletedStep
<1> QED
  BY <1>1, ItemTypeInit, ItemTypeStep, UnsavedInit, UnsavedStep, PTL DEF ItemSpec, DeletedStays

-----------------------------------------------------------------------------
(***************************************************************************)
(* A pass counts one failure at most, of a list it read while the item had *)
(* attempts left: a step lets go of holders, or one of them counts, or the *)
(* attempts are below the maximum afterwards.                              *)
(***************************************************************************)
LetsGo == ItemHolders' \subseteq ItemHolders /\ item'.attempts = item.attempts
Below  == item'.attempts <= MaxAttempts - 1
Fails(p) ==
  /\ p \in ItemHolders /\ ItemHolders' \subseteq ItemHolders \ {p}
  /\ item'.attempts = item.attempts + 1

Counts == LetsGo \/ Below \/ \E p \in Passes : Fails(p)

LEMMA CountsStep == ItemTypeOK /\ [ItemNext]_itemVars => Counts
<1> SUFFICES ASSUME ItemTypeOK, [ItemNext]_itemVars PROVE Counts
  OBVIOUS
<1> USE ItemsAssumption
    DEF ItemTypeOK, Counts, LetsGo, Below, Fails, ItemHolders, Holding, EndPass, PassFails,
        Publish, Begin, Idle
<1>1. CASE DetectStoresImage
  BY <1>1 DEF DetectStoresImage
<1>2. CASE DetectRemovesBackground
  BY <1>2 DEF DetectRemovesBackground
<1>3. CASE DetectStoresPng
  BY <1>3 DEF DetectStoresPng
<1>4. CASE DetectSavesItem
  BY <1>4 DEF DetectSavesItem
<1>5. CASE DetectEnds
  BY <1>5 DEF DetectEnds
<1>6. CASE WorkerTicks
  BY <1>6 DEF WorkerTicks
<1>7. CASE DeleteItem
  BY <1>7 DEF DeleteItem
<1>8. CASE ItemCrash
  BY <1>8 DEF ItemCrash
<1>9. ASSUME NEW p \in Passes, PassLists(p) PROVE Counts
  <2>1. CASE Eligible
    <3>1. item.attempts <= MaxAttempts - 1
      BY <2>1 DEF Eligible
    <3>2. item' = item
      BY <1>9 DEF PassLists
    <3> QED
      BY <3>1, <3>2
  <2>2. CASE ~Eligible
    <3>1. item' = item /\ pass' = [pass EXCEPT ![p] = Idle]
      BY <1>9, <2>2 DEF PassLists
    <3> QED
      BY <3>1
  <2> QED
    BY <2>1, <2>2
<1>10. ASSUME NEW p \in Passes, PassLoads(p) PROVE Counts
  BY <1>10 DEF PassLoads
<1>11. ASSUME NEW p \in Passes, PassRemoves(p) PROVE Counts
  BY <1>11 DEF PassRemoves
<1>12. ASSUME NEW p \in Passes, PassStores(p) PROVE Counts
  BY <1>12 DEF PassStores
<1>13. ASSUME NEW p \in Passes, PassPublishes(p) PROVE Counts
  BY <1>13 DEF PassPublishes
<1>14. ASSUME NEW u \in Updates, UpdateBegins(u) PROVE Counts
  BY <1>14 DEF UpdateBegins
<1>15. ASSUME NEW u \in Updates, UpdateStoresImage(u) PROVE Counts
  BY <1>15 DEF UpdateStoresImage
<1>16. ASSUME NEW u \in Updates, UpdateWritesItem(u) PROVE Counts
  BY <1>16 DEF UpdateWritesItem
<1>17. ASSUME NEW u \in Updates, MakePng(u) PROVE Counts
  BY <1>17 DEF MakePng
<1>18. CASE UNCHANGED itemVars
  BY <1>18 DEF itemVars
<1> QED
  BY <1>1, <1>2, <1>3, <1>4, <1>5, <1>6, <1>7, <1>8, <1>9, <1>10, <1>11, <1>12, <1>13,
     <1>14, <1>15, <1>16, <1>17, <1>18 DEF ItemNext, DetectStep, PassStep, UpdateStep

LEMMA AttemptsStep ==
  ItemTypeOK /\ AttemptsBounded /\ [ItemNext]_itemVars => AttemptsBounded'
<1> SUFFICES ASSUME ItemTypeOK, AttemptsBounded, [ItemNext]_itemVars PROVE AttemptsBounded'
  OBVIOUS
<1>1. IsFiniteSet(Passes)
  BY ItemsAssumption, FS_AddElement DEF Passes, Images
<1>2. ItemHolders \subseteq Passes /\ ItemHolders' \subseteq Passes
  BY DEF ItemHolders
<1>3. /\ IsFiniteSet(ItemHolders) /\ Cardinality(ItemHolders) <= Cardinality(Passes)
      /\ IsFiniteSet(ItemHolders') /\ Cardinality(ItemHolders') <= Cardinality(Passes)
  BY <1>1, <1>2, FS_Subset
<1>4. /\ Cardinality(ItemHolders) \in Nat /\ Cardinality(ItemHolders') \in Nat
      /\ Cardinality(Passes) \in Nat
  BY <1>1, <1>3, FS_CardinalityType
<1>5. item.attempts \in Nat /\ item'.attempts \in Nat /\ MaxAttempts \in Nat
  BY ItemTypeStep, ItemsAssumption DEF ItemTypeOK
<1>6. CASE LetsGo
  <2>1. Cardinality(ItemHolders') <= Cardinality(ItemHolders)
    BY <1>3, <1>6, FS_Subset DEF LetsGo
  <2> QED
    BY <1>4, <1>5, <1>6, <2>1 DEF LetsGo, AttemptsBounded
<1>7. CASE Below
  BY <1>3, <1>4, <1>5, <1>7 DEF Below, AttemptsBounded
<1>8. ASSUME NEW p \in Passes, Fails(p) PROVE AttemptsBounded'
  <2>1. Cardinality(ItemHolders \ {p}) = Cardinality(ItemHolders) - 1
    BY <1>3, <1>8, FS_RemoveElement DEF Fails
  <2>2. Cardinality(ItemHolders') <= Cardinality(ItemHolders \ {p})
    BY <1>3, <1>8, FS_Subset, FS_RemoveElement DEF Fails
  <2> QED
    BY <1>4, <1>5, <1>8, <2>1, <2>2 DEF Fails, AttemptsBounded
<1> QED
  BY <1>6, <1>7, <1>8, CountsStep DEF Counts

LEMMA AttemptsInit == ItemInit => AttemptsBounded
<1> SUFFICES ASSUME ItemInit PROVE AttemptsBounded
  OBVIOUS
<1>1. ItemHolders = {} /\ item.attempts = 0
  BY DEF ItemInit, ItemHolders, Holding, Begin, Idle
<1>2. IsFiniteSet(Passes)
  BY ItemsAssumption, FS_AddElement DEF Passes, Images
<1>3. Cardinality(Passes) \in Nat /\ Cardinality(ItemHolders) = 0
  BY <1>1, <1>2, FS_CardinalityType, FS_EmptySet
<1> QED
  BY <1>1, <1>3, ItemsAssumption DEF AttemptsBounded

\* pngMaxAttempts is exceeded by at most the passes that overlap.
THEOREM AttemptsAreBounded == ItemSpec => []AttemptsBounded
  BY AttemptsInit, AttemptsStep, ItemTypeInit, ItemTypeStep, PTL DEF ItemSpec

-----------------------------------------------------------------------------
(***************************************************************************)
(* Whose PNG is stored.  As long as nothing has failed and no image was    *)
(* replaced under a PNG that was being made: whatever a pass or an update  *)
(* holds was made from the image that is stored, and there is nothing to   *)
(* hold before the item is saved.  A PNG that no longer fits is shown only *)
(* until the update that replaced its image writes the item.               *)
(***************************************************************************)
NothingBefore ==
  item.at = "new" => /\ ~item.png /\ \A p \in Passes : pass[p].at \notin Holding
                     /\ \A u \in Updates : upd[u] = "none" /\ making[u] = "none"
PassesFit ==
  \A p \in Passes : /\ pass[p].at \in InHand => pass[p].of = blob.img
                    /\ pass[p].at = "stored" => blob.png = blob.img
MakersFit ==
  \A u \in Updates : /\ making[u] \in InHand => blob.img = u
                     /\ making[u] = "stored" => blob.png = blob.img
DetectionFits ==
  /\ det.at \in {"image", "removal", "png"} => ~det.png
  /\ det.at \in {"removal", "png"} => blob.img = Original
  /\ det.at = "save" /\ det.png => blob.png = blob.img
ShownFits ==
  item.at = "stored" /\ item.png => blob.png = blob.img \/ \E u \in Updates : upd[u] = "saved"

PngsFit == NothingBefore /\ PassesFit /\ MakersFit /\ DetectionFits /\ ShownFits
PngInv == itemFaults = 0 /\ ~raced => PngsFit

LEMMA PngStep ==
  ASSUME ItemTypeOK, UnsavedIsNew, PngsFit, ItemNext, itemFaults = 0, itemFaults' = 0, ~raced'
  PROVE  PngsFit'
<1> USE ItemsAssumption
    DEF ItemTypeOK, UnsavedIsNew, PngsFit, NothingBefore, PassesFit, MakersFit, DetectionFits,
        ShownFits, Holding, InHand, EndPass, PassFails, Publish, Begin, Idle, Passes, Images,
        ItemFault
<1>1. CASE DetectStoresImage
  <2>1. /\ det.at = "image" /\ blob' = [blob EXCEPT !.img = Original]
        /\ det' = [det EXCEPT !.at = "removal", !.img = TRUE]
        /\ UNCHANGED <<item, pass, upd, making>>
    BY <1>1 DEF DetectStoresImage
  <2>2. item.at = "new"
    BY <2>1
  <2>3. blob'.img = Original /\ det'.at = "removal" /\ det'.png = det.png
    BY <2>1
  <2>4. DetectionFits'
    BY <2>1, <2>3
  <2> QED
    BY <2>1, <2>2, <2>4
<1>2. CASE DetectRemovesBackground
  BY <1>2 DEF DetectRemovesBackground
<1>3. CASE DetectStoresPng
  <2>1. /\ det.at = "png" /\ blob' = [blob EXCEPT !.png = Original]
        /\ det' = [det EXCEPT !.at = "save", !.png = TRUE]
        /\ UNCHANGED <<item, pass, upd, making>>
    BY <1>3 DEF DetectStoresPng
  <2>2. item.at = "new" /\ blob.img = Original
    BY <2>1
  <2>3. blob'.img = Original /\ blob'.png = Original
    BY <2>1, <2>2
  <2>4. DetectionFits'
    BY <2>1, <2>3
  <2> QED
    BY <2>1, <2>2, <2>4
<1>4. CASE DetectSavesItem
  BY <1>4 DEF DetectSavesItem
<1>5. CASE DetectEnds
  BY <1>5 DEF DetectEnds
<1>6. CASE WorkerTicks
  BY <1>6 DEF WorkerTicks
<1>7. CASE DeleteItem
  BY <1>7 DEF DeleteItem
<1>8. CASE ItemCrash
  BY <1>8 DEF ItemCrash
<1>9. ASSUME NEW p \in Passes, PassLists(p) PROVE PngsFit'
  BY <1>9 DEF PassLists, Eligible
<1>10. ASSUME NEW p \in Passes, PassLoads(p) PROVE PngsFit'
  BY <1>10 DEF PassLoads
<1>11. ASSUME NEW p \in Passes, PassRemoves(p) PROVE PngsFit'
  BY <1>11 DEF PassRemoves
<1>12. ASSUME NEW p \in Passes, PassStores(p) PROVE PngsFit'
  BY <1>12 DEF PassStores
<1>13. ASSUME NEW p \in Passes, PassPublishes(p) PROVE PngsFit'
  BY <1>13 DEF PassPublishes
<1>14. ASSUME NEW u \in Updates, UpdateBegins(u) PROVE PngsFit'
  BY <1>14 DEF UpdateBegins
<1>15. ASSUME NEW u \in Updates, UpdateStoresImage(u) PROVE PngsFit'
  <2>1. /\ upd[u] = "owned" /\ blob' = [blob EXCEPT !.img = u]
        /\ upd' = [upd EXCEPT ![u] = "saved"] /\ making' = [making EXCEPT ![u] = "loaded"]
        /\ UNCHANGED <<item, det, pass>>
    BY <1>15 DEF UpdateStoresImage
  <2>2. ~OlderInHand
    <3>1. raced' = (raced \/ OlderInHand)
      BY <1>15 DEF UpdateStoresImage
    <3> QED
      BY <3>1, Zenon
  <2>3. item.at # "new"
    BY <2>1
  <2>4. NothingBefore' /\ DetectionFits'
    BY <2>1, <2>3
  <2>5. PassesFit' /\ MakersFit'
    BY <2>1, <2>2 DEF OlderInHand
  <2>6. ShownFits'
    BY <2>1
  <2> QED
    BY <2>4, <2>5, <2>6
<1>16. ASSUME NEW u \in Updates, UpdateWritesItem(u) PROVE PngsFit'
  <2>1. /\ upd[u] \in {"saved", "unsaved"} /\ upd' = [upd EXCEPT ![u] = "done"]
        /\ UNCHANGED <<blob, det, pass, making>>
    BY <1>16 DEF UpdateWritesItem
  <2>2. IF upd[u] = "saved" /\ item.at = "stored"
        THEN item' = [item EXCEPT !.img = TRUE, !.png = FALSE] ELSE item' = item
    BY <1>16 DEF UpdateWritesItem
  <2>3. NothingBefore'
    <3>1. item.at # "new"
      BY <2>1
    <3>2. item' = item \/ item' = [item EXCEPT !.img = TRUE, !.png = FALSE]
      BY <2>2
    <3>3. item'.at = item.at
      <4>1. CASE item' = item
        BY <4>1
      <4>2. CASE item' = [item EXCEPT !.img = TRUE, !.png = FALSE]
        BY <4>2
      <4> QED
        BY <3>2, <4>1, <4>2
    <3> QED
      BY <3>1, <3>3
  <2>4. PassesFit' /\ MakersFit' /\ DetectionFits'
    BY <2>1
  <2>5. ShownFits'
    <3>1. CASE upd[u] = "saved" /\ item.at = "stored"
      <4>1. item' = [item EXCEPT !.img = TRUE, !.png = FALSE]
        BY <2>2, <3>1
      <4>2. ~item'.png
        BY <4>1
      <4> QED
        BY <4>2
    <3>2. CASE upd[u] = "saved" /\ item.at # "stored"
      BY <2>2, <3>2
    <3>3. CASE upd[u] = "unsaved"
      BY <2>1, <2>2, <3>3
    <3> QED
      BY <2>1, <3>1, <3>2, <3>3
  <2> QED
    BY <2>3, <2>4, <2>5
<1>17. ASSUME NEW u \in Updates, MakePng(u) PROVE PngsFit'
  BY <1>17 DEF MakePng
<1> QED
  BY <1>1, <1>2, <1>3, <1>4, <1>5, <1>6, <1>7, <1>8, <1>9, <1>10, <1>11, <1>12, <1>13,
     <1>14, <1>15, <1>16, <1>17 DEF ItemNext, DetectStep, PassStep, UpdateStep

LEMMA PngInit == ItemInit => PngInv
<1> SUFFICES ASSUME ItemInit PROVE PngsFit
  BY DEF PngInv
<1> QED
  BY DEF ItemInit, PngsFit, NothingBefore, PassesFit, MakersFit, DetectionFits, ShownFits,
         Holding, InHand, Begin, Idle

\* Neither history is ever forgotten.
LEMMA HistoryKept ==
  ItemTypeOK /\ ItemNext => /\ itemFaults' = 0 => itemFaults = 0
                            /\ raced => raced'
<1> SUFFICES ASSUME ItemTypeOK, ItemNext
             PROVE  (itemFaults' = 0 => itemFaults = 0) /\ (raced => raced')
  OBVIOUS
<1>1. itemFaults' = itemFaults \/ itemFaults' = itemFaults + 1
  BY DEF ItemNext, DetectStep, PassStep, UpdateStep, DetectStoresImage, DetectRemovesBackground,
         DetectStoresPng, DetectSavesItem, DetectEnds, WorkerTicks, DeleteItem, ItemCrash,
         PassLists, PassLoads, PassRemoves, PassStores, PassPublishes, UpdateBegins,
         UpdateStoresImage, UpdateWritesItem, MakePng, ItemFault, NoItemFault
<1>2. raced' = raced \/ raced' = (raced \/ OlderInHand)
  BY Zenon
     DEF ItemNext, DetectStep, PassStep, UpdateStep, DetectStoresImage, DetectRemovesBackground,
         DetectStoresPng, DetectSavesItem, DetectEnds, WorkerTicks, DeleteItem, ItemCrash,
         PassLists, PassLoads, PassRemoves, PassStores, PassPublishes, UpdateBegins,
         UpdateStoresImage, UpdateWritesItem, MakePng
<1>3. itemFaults \in Nat
  BY ItemsAssumption DEF ItemTypeOK
<1>4. itemFaults' = 0 => itemFaults = 0
  BY <1>1, <1>3
<1>5. raced => raced'
  BY <1>2, Zenon
<1> QED
  BY <1>4, <1>5

LEMMA PngInvStep == ItemTypeOK /\ UnsavedIsNew /\ PngInv /\ [ItemNext]_itemVars => PngInv'
<1> SUFFICES ASSUME ItemTypeOK, UnsavedIsNew, PngInv, [ItemNext]_itemVars PROVE PngInv'
  OBVIOUS
<1>1. CASE ItemNext
  <2> SUFFICES ASSUME itemFaults' = 0, ~raced' PROVE PngsFit'
    BY DEF PngInv
  <2>1. itemFaults = 0
    BY <1>1, HistoryKept
  <2>2. ~raced
    BY <1>1, HistoryKept
  <2> QED
    BY <1>1, <2>1, <2>2, PngStep DEF PngInv
<1>2. CASE UNCHANGED itemVars
  BY <1>2 DEF itemVars, PngInv, PngsFit, NothingBefore, PassesFit, MakersFit, DetectionFits,
              ShownFits
<1> QED
  BY <1>1, <1>2

\* A PNG that is shown was made from the image that is shown, whatever passes, updates
\* and the detection overlap, unless a call failed or an image was replaced while a PNG
\* of an older one was being made (handler.go updateItem, pngworker.go).
THEOREM PngAlwaysFits == ItemSpec => []PngIsOfImage
<1>1. PngInv => PngIsOfImage
  BY DEF PngInv, PngsFit, ShownFits, PngIsOfImage
<1> QED
  BY <1>1, ItemTypeInit, ItemTypeStep, UnsavedInit, UnsavedStep, PngInit, PngInvStep, PTL
     DEF ItemSpec

-----------------------------------------------------------------------------
(* Detection jobs. *)

AppStates ==
  [loop : {"idle", "submitting", "polling", "sync", "done"}, waited : 0 .. PollDeadline,
   shown : {"none", "detecting", "completed", "failed", "gone"}, fresh : BOOLEAN]
ServerStates ==
  [post : {"none", "arrived", "slot", "accepted", "refused"},
   row : {"none", "pending", "processing", "completed", "failed"}, ttl : 0 .. JobTTL,
   work : {"none", "done"} \cup Workers, age : 0 .. JobTimeout,
   sync : {"none", "detecting", "ok", "error"}]
Histories == [paid : 0 .. 2, stored : BOOLEAN, bad : BOOLEAN]

\* One photo, whatever fails: the app submits once, the worker of an accepted job and
\* the synchronous request each call the detector once.
Protocol(a, s, h) ==
  /\ a.loop = "idle" <=> s.post = "none"
  /\ a.loop = "polling" => s.post = "accepted"
  /\ s.post \in {"none", "arrived", "slot"} => s.work = "none"
  /\ s.sync # "none" => a.loop \in {"sync", "done"}
  /\ a.loop # "polling" => a.waited = 0
  /\ a.loop \in {"idle", "submitting"} => a.fresh
  /\ a.loop = "polling" /\ a.waited = PollDeadline => ~a.fresh
  /\ s.work \notin Workers => s.age = 0
  /\ s.work \in {"none", "starting"} /\ s.sync = "none" => h.paid = 0
  /\ s.work \in {"none", "starting"} \/ s.sync = "none" => h.paid <= 1

\* While nothing fails the synchronous path follows a refusal, which launched no
\* worker, and every verdict has its reason.
Faultless(a, s, h) ==
  /\ s.post = "refused" => s.work = "none"
  /\ s.sync # "none" => s.post = "refused"
  /\ s.work = "ending" /\ s.age < JobTimeout => h.stored
  /\ s.row = "completed" => h.stored
  /\ s.sync = "ok" => h.stored
  /\ s.sync = "error" => h.bad
  /\ s.row = "failed" => h.bad
  /\ a.shown = "completed" => h.stored

Awaits(a, s) == a.loop \in {"submitting", "polling"} /\ s.post = "accepted"

\* When, in addition, the app is never suspended, it has waited as long as the worker
\* has run and the row outlives the wait; a good verdict is at most a tick old.
Timely(a, s, h) ==
  /\ a.shown = "failed" => h.bad \/ s.age = JobTimeout
  /\ Awaits(a, s) =>
       /\ s.row # "none" /\ s.work # "none" /\ s.ttl + a.waited >= JobTTL
       /\ s.work \in Workers /\ a.waited < JobTimeout => s.age = a.waited
       /\ s.work \in Workers /\ a.waited >= JobTimeout => s.age = JobTimeout
       /\ s.work = "done" /\ ~h.bad =>
            /\ s.row = "completed" /\ a.waited <= JobTimeout
            /\ a.fresh => a.waited < JobTimeout

DetectTypes ==
  /\ app \in [Photos -> AppStates] /\ srv \in [Photos -> ServerStates]
  /\ ran \in [Photos -> Histories]
  /\ detSlots \in 0 .. MaxConcurrent /\ detFaults \in 0 .. MaxDetectFaults /\ asleep \in BOOLEAN

\* The inductive invariant.
DetectInv ==
  /\ DetectTypes
  /\ DetectSlotsAccounted
  /\ \A p \in Photos : Protocol(app[p], srv[p], ran[p])
  /\ detFaults = 0 => \A p \in Photos : Faultless(app[p], srv[p], ran[p])
  /\ Quiet => \A p \in Photos : Timely(app[p], srv[p], ran[p])

\* A photo's handler or worker owns a slot.
Holds(s) == s.post = "slot" \/ s.work \in Workers

LEMMA DetectConstants ==
  /\ JobTimeout \in Nat /\ PollDeadline \in Nat /\ JobTTL \in Nat /\ MaxConcurrent \in Nat
  /\ MaxDetectFaults \in Nat
  /\ 0 < JobTimeout /\ JobTimeout < PollDeadline /\ PollDeadline < JobTTL /\ 0 < MaxConcurrent
BY DetectAssumption

LEMMA DetectInitially == DetectInit => DetectInv
<1> SUFFICES ASSUME DetectInit PROVE DetectInv
  OBVIOUS
<1> USE DetectConstants
<1>1. DetectTypes
  <2>1. 0 \in 0 .. PollDeadline /\ 0 \in 0 .. JobTTL /\ 0 \in 0 .. JobTimeout
    OBVIOUS
  <2>2. /\ [loop |-> "idle", waited |-> 0, shown |-> "none", fresh |-> TRUE] \in AppStates
        /\ [post |-> "none", row |-> "none", ttl |-> 0, work |-> "none", age |-> 0, sync |-> "none"]
             \in ServerStates
        /\ [paid |-> 0, stored |-> FALSE, bad |-> FALSE] \in Histories
    BY <2>1 DEF AppStates, ServerStates, Histories
  <2>3. detSlots \in 0 .. MaxConcurrent /\ detFaults \in 0 .. MaxDetectFaults /\ asleep \in BOOLEAN
    <3>1. detSlots = 0 /\ detFaults = 0
      BY DEF DetectInit
    <3>2. detSlots \in 0 .. MaxConcurrent /\ detFaults \in 0 .. MaxDetectFaults
      BY <3>1
    <3>3. asleep \in BOOLEAN
      BY Zenon DEF DetectInit
    <3> QED
      BY <3>2, <3>3
  <2> QED
    BY <2>2, <2>3 DEF DetectInit, DetectTypes
<1>2. Holders = {}
  BY DEF DetectInit, Holders, Workers
<1>3. DetectSlotsAccounted
  BY <1>2, FS_EmptySet DEF DetectInit, DetectSlotsAccounted
<1>4. ASSUME NEW p \in Photos
      PROVE  /\ Protocol(app[p], srv[p], ran[p]) /\ Faultless(app[p], srv[p], ran[p])
             /\ Timely(app[p], srv[p], ran[p])
  BY DEF DetectInit, Protocol, Faultless, Timely, Awaits, Workers
<1> QED
  BY <1>1, <1>3, <1>4 DEF DetectInv

\* A step of one photo: what it becomes keeps the three parts of the invariant, and
\* the semaphore follows the slot it owns.
Keeps(a, s, h) ==
  /\ Protocol(a, s, h)
  /\ detFaults' = 0 => Faultless(a, s, h)
  /\ detFaults' = 0 /\ ~asleep => Timely(a, s, h)

SlotFollows(t, s) ==
  \/ detSlots' = detSlots /\ (Holds(s) <=> Holds(t))
  \/ detSlots' = detSlots + 1 /\ detSlots < MaxConcurrent /\ Holds(s) /\ ~Holds(t)
  \/ detSlots' = detSlots - 1 /\ ~Holds(s) /\ Holds(t)

Moving(p) ==
  /\ \E a \in AppStates, s \in ServerStates, h \in Histories :
       /\ app' = [app EXCEPT ![p] = a] /\ srv' = [srv EXCEPT ![p] = s]
       /\ ran' = [ran EXCEPT ![p] = h]
       /\ Keeps(a, s, h) /\ SlotFollows(srv[p], s)
  /\ (Fault \/ NoFault) /\ asleep' = asleep

\* Faults only grow.
LEMMA FaultsGrow ==
  ASSUME DetectTypes, Fault \/ NoFault
  PROVE  detFaults' \in 0 .. MaxDetectFaults /\ (detFaults' = 0 => detFaults = 0 /\ ~Fault)
BY DetectConstants DEF DetectTypes, Fault, NoFault

\* The holders after the state of one photo changed.
LEMMA HoldersMove ==
  ASSUME DetectTypes, DetectSlotsAccounted, NEW p \in Photos, NEW s \in ServerStates,
         srv' = [srv EXCEPT ![p] = s], SlotFollows(srv[p], s)
  PROVE  DetectSlotsAccounted' /\ detSlots' \in 0 .. MaxConcurrent
<1>1. IsFiniteSet(Holders)
  BY DetectAssumption, FS_Subset DEF Holders
<1>2. Holders' = {q \in Photos : Holds(srv'[q])} /\ Holders = {q \in Photos : Holds(srv[q])}
  BY DEF Holders, Holds
<1>3. srv'[p] = s /\ \A q \in Photos \ {p} : srv'[q] = srv[q]
  BY DEF DetectTypes
<1>4. detSlots = Cardinality(Holders) /\ detSlots \in 0 .. MaxConcurrent /\ MaxConcurrent \in Nat
  BY DetectConstants DEF DetectTypes, DetectSlotsAccounted
<1>5. CASE detSlots' = detSlots /\ (Holds(s) <=> Holds(srv[p]))
  <2>1. Holders' = Holders
    BY <1>2, <1>3, <1>5
  <2> QED
    BY <1>4, <1>5, <2>1 DEF DetectSlotsAccounted
<1>6. CASE detSlots' = detSlots + 1 /\ detSlots < MaxConcurrent /\ Holds(s) /\ ~Holds(srv[p])
  <2>1. Holders' = Holders \cup {p} /\ p \notin Holders
    BY <1>2, <1>3, <1>6
  <2>2. Cardinality(Holders') = Cardinality(Holders) + 1
    BY <1>1, <2>1, FS_AddElement
  <2> QED
    BY <1>4, <1>6, <2>2 DEF DetectSlotsAccounted
<1>7. CASE detSlots' = detSlots - 1 /\ ~Holds(s) /\ Holds(srv[p])
  <2>1. Holders' = Holders \ {p} /\ p \in Holders
    BY <1>2, <1>3, <1>7
  <2>2. Cardinality(Holders') = Cardinality(Holders) - 1 /\ Cardinality(Holders') \in Nat
    BY <1>1, <2>1, FS_RemoveElement, FS_CardinalityType
  <2> QED
    BY <1>4, <1>7, <2>2 DEF DetectSlotsAccounted
<1> QED
  BY <1>5, <1>6, <1>7 DEF SlotFollows

LEMMA MovingKeeps ==
  ASSUME DetectInv, NEW p \in Photos, Moving(p)
  PROVE  DetectInv'
<1>1. PICK a \in AppStates, s \in ServerStates, h \in Histories :
        /\ app' = [app EXCEPT ![p] = a] /\ srv' = [srv EXCEPT ![p] = s]
        /\ ran' = [ran EXCEPT ![p] = h]
        /\ Keeps(a, s, h) /\ SlotFollows(srv[p], s)
  BY DEF Moving
<1>2. DetectTypes /\ (Fault \/ NoFault) /\ asleep' = asleep
  BY DEF DetectInv, Moving
<1>3. detFaults' \in 0 .. MaxDetectFaults /\ (detFaults' = 0 => detFaults = 0)
  BY <1>2, FaultsGrow
<1>4. DetectSlotsAccounted' /\ detSlots' \in 0 .. MaxConcurrent
  BY <1>1, <1>2, HoldersMove DEF DetectInv
<1>5. DetectTypes'
  BY <1>1, <1>2, <1>3, <1>4 DEF DetectTypes
<1>6. /\ app'[p] = a /\ srv'[p] = s /\ ran'[p] = h
      /\ \A q \in Photos \ {p} : app'[q] = app[q] /\ srv'[q] = srv[q] /\ ran'[q] = ran[q]
  BY <1>1, <1>2 DEF DetectTypes
<1>7. \A q \in Photos : Protocol(app'[q], srv'[q], ran'[q])
  BY <1>1, <1>6 DEF DetectInv, Keeps
<1>8. detFaults' = 0 => \A q \in Photos : Faultless(app'[q], srv'[q], ran'[q])
  BY <1>1, <1>3, <1>6 DEF DetectInv, Keeps
<1>9. Quiet' => \A q \in Photos : Timely(app'[q], srv'[q], ran'[q])
  BY <1>1, <1>2, <1>3, <1>6 DEF DetectInv, Keeps, Quiet
<1> QED
  BY <1>4, <1>5, <1>7, <1>8, <1>9 DEF DetectInv, Protocol, Faultless, Timely, Awaits

\* The actions of the server for one photo.
LEMMA ServerMoves ==
  ASSUME DetectInv, NEW p \in Photos, ServerStep(p)
  PROVE  Moving(p)
<1> DEFINE a0 == app[p]
           s0 == srv[p]
           h0 == ran[p]
<1> USE DetectConstants
<1>t. DetectTypes /\ a0 \in AppStates /\ s0 \in ServerStates /\ h0 \in Histories
  BY DEF DetectInv, DetectTypes
<1>u. /\ UNCHANGED app => app' = [app EXCEPT ![p] = a0]
      /\ UNCHANGED ran => ran' = [ran EXCEPT ![p] = h0]
  BY <1>t DEF DetectTypes
<1>f. (Fault \/ NoFault) => (detFaults' = 0 => detFaults = 0 /\ ~Fault)
  BY <1>t, FaultsGrow
<1>k. /\ Protocol(a0, s0, h0)
      /\ detFaults = 0 => Faultless(a0, s0, h0)
      /\ detFaults = 0 /\ ~asleep => Timely(a0, s0, h0)
  BY DEF DetectInv, Quiet
<1>c. CtxLive(p) <=> s0.age < JobTimeout
  BY DEF CtxLive
<1>m. ASSUME NEW s \in ServerStates, NEW h \in Histories, UNCHANGED <<app, asleep>>,
             srv' = [srv EXCEPT ![p] = s], ran' = [ran EXCEPT ![p] = h],
             Keeps(a0, s, h), SlotFollows(s0, s), Fault \/ NoFault
      PROVE  Moving(p)
  BY <1>t, <1>u, <1>m DEF Moving
<1> HIDE DEF a0, s0, h0
<1>1. CASE TakeDetectSlot(p)
  <2> DEFINE s == [s0 EXCEPT !.post = "slot"]
  <2>1. /\ s0.post = "arrived" /\ detSlots < MaxConcurrent /\ srv' = [srv EXCEPT ![p] = s]
        /\ detSlots' = detSlots + 1 /\ NoFault /\ UNCHANGED <<app, ran, asleep>>
    BY <1>t, <1>1 DEF TakeDetectSlot, s0
  <2>2. /\ s \in ServerStates /\ s.post = "slot" /\ s.row = s0.row /\ s.ttl = s0.ttl
        /\ s.work = s0.work /\ s.age = s0.age /\ s.sync = s0.sync
    BY <1>t DEF ServerStates
  <2> HIDE DEF s
  <2>3. Protocol(a0, s, h0)
    BY <1>k, <2>1, <2>2 DEF Protocol
  <2>4. detFaults' = 0 => Faultless(a0, s, h0)
    BY <1>f, <1>k, <2>1, <2>2 DEF Faultless
  <2>5. detFaults' = 0 /\ ~asleep => Timely(a0, s, h0)
    BY <1>f, <1>k, <2>1, <2>2 DEF Timely, Awaits
  <2>6. SlotFollows(s0, s)
    BY <1>k, <2>1, <2>2 DEF SlotFollows, Holds, Protocol, Workers
  <2> QED
    BY <1>m, <1>t, <1>u, <2>1, <2>2, <2>3, <2>4, <2>5, <2>6 DEF Keeps
<1>2. CASE DetectBusy(p)
  <2> DEFINE s == [s0 EXCEPT !.post = "refused"]
  <2>1. /\ s0.post = "arrived" /\ srv' = [srv EXCEPT ![p] = s]
        /\ NoFault /\ UNCHANGED <<app, ran, asleep, detSlots>>
    BY <1>t, <1>2 DEF DetectBusy, s0
  <2>2. /\ s \in ServerStates /\ s.post = "refused" /\ s.row = s0.row /\ s.ttl = s0.ttl
        /\ s.work = s0.work /\ s.age = s0.age /\ s.sync = s0.sync
    BY <1>t DEF ServerStates
  <2> HIDE DEF s
  <2>3. Protocol(a0, s, h0)
    BY <1>k, <2>1, <2>2 DEF Protocol
  <2>4. detFaults' = 0 => Faultless(a0, s, h0)
    BY <1>f, <1>k, <2>1, <2>2 DEF Faultless, Protocol
  <2>5. detFaults' = 0 /\ ~asleep => Timely(a0, s, h0)
    BY <1>f, <1>k, <2>1, <2>2 DEF Timely, Awaits
  <2>6. SlotFollows(s0, s)
    BY <1>k, <2>1, <2>2 DEF SlotFollows, Holds, Protocol, Workers
  <2> QED
    BY <1>m, <1>t, <1>u, <2>1, <2>2, <2>3, <2>4, <2>5, <2>6 DEF Keeps
<1>3. CASE LaunchDetect(p)
  <2> DEFINE s1 == [s0 EXCEPT !.post = "accepted", !.work = "starting", !.row = "pending", !.ttl = JobTTL]
             s2 == [s0 EXCEPT !.post = "refused"]
             s3 == [s0 EXCEPT !.post = "refused", !.row = "pending", !.ttl = JobTTL]
  <2>1. /\ s0.post = "slot" /\ UNCHANGED <<app, ran, asleep>>
        /\ \/ srv' = [srv EXCEPT ![p] = s1] /\ NoFault /\ UNCHANGED detSlots
           \/ /\ srv' = [srv EXCEPT ![p] = s2] \/ srv' = [srv EXCEPT ![p] = s3]
              /\ Fault /\ detSlots' = detSlots - 1
    BY <1>t, <1>3 DEF LaunchDetect, Launched, WithRow, s0
  <2>0. JobTTL \in 0 .. JobTTL
    OBVIOUS
  <2>b. /\ s1 \in ServerStates /\ s1.post = "accepted" /\ s1.row = "pending" /\ s1.ttl = JobTTL
        /\ s1.work = "starting" /\ s1.age = s0.age /\ s1.sync = s0.sync
    BY <1>t, <2>0 DEF ServerStates, Workers
  <2>c. /\ s2 \in ServerStates /\ s2.post = "refused" /\ s2.work = s0.work
        /\ s2.age = s0.age /\ s2.sync = s0.sync
    BY <1>t DEF ServerStates
  <2>d. /\ s3 \in ServerStates /\ s3.post = "refused" /\ s3.work = s0.work
        /\ s3.age = s0.age /\ s3.sync = s0.sync
    BY <1>t, <2>0 DEF ServerStates
  <2> HIDE DEF s1, s2, s3
  <2>a. s0.work = "none" /\ s0.age = 0
    BY <1>k, <2>1 DEF Protocol, Workers
  <2>3. CASE srv' = [srv EXCEPT ![p] = s1] /\ NoFault /\ UNCHANGED detSlots
    <3>3. Protocol(a0, s1, h0)
      BY <1>k, <2>1, <2>b, <2>a DEF Protocol, Workers
    <3>4. detFaults' = 0 => Faultless(a0, s1, h0)
      BY <1>f, <1>k, <2>1, <2>b, <2>3, <2>a DEF Faultless
    <3>5. detFaults' = 0 /\ ~asleep => Timely(a0, s1, h0)
      <4>1. a0.loop = "submitting" => a0.waited = 0
        BY <1>k DEF Protocol
      <4>2. a0.loop # "polling"
        BY <1>k, <2>1 DEF Protocol
      <4> QED
        BY <1>f, <1>k, <2>1, <2>b, <2>3, <2>a, <4>1, <4>2 DEF Timely, Awaits, Workers
    <3>6. SlotFollows(s0, s1)
      BY <1>k, <2>1, <2>b, <2>3 DEF SlotFollows, Holds, Workers
    <3> QED
      BY <1>m, <1>t, <1>u, <2>1, <2>b, <2>3, <3>3, <3>4, <3>5, <3>6 DEF Keeps
  <2>4. ASSUME NEW s \in ServerStates, srv' = [srv EXCEPT ![p] = s], Fault, detSlots' = detSlots - 1,
               s.post = "refused", s.work = s0.work, s.age = s0.age, s.sync = s0.sync
        PROVE  Moving(p)
    <3>1. detFaults' # 0
      BY <1>f, <2>4
    <3>3. Protocol(a0, s, h0)
      BY <1>k, <2>1, <2>4, <2>a DEF Protocol, Workers
    <3>6. SlotFollows(s0, s)
      BY <1>k, <2>1, <2>a, <2>4 DEF SlotFollows, Holds, Workers
    <3> QED
      BY <1>m, <1>t, <1>u, <2>1, <2>4, <3>1, <3>3, <3>6 DEF Keeps
  <2> QED
    BY <2>1, <2>c, <2>d, <2>3, <2>4
<1>4. CASE DetectorCalled(p)
  <2> DEFINE h  == [h0 EXCEPT !.paid = h0.paid + 1]
             s1 == [s0 EXCEPT !.work = "detecting", !.row = "processing", !.ttl = JobTTL]
             s2 == [s0 EXCEPT !.work = "detecting"]
  <2>1. /\ s0.work = "starting" /\ UNCHANGED <<app, detSlots, asleep>> /\ ran' = [ran EXCEPT ![p] = h]
        /\ \/ srv' = [srv EXCEPT ![p] = s1] /\ NoFault
           \/ srv' = [srv EXCEPT ![p] = s2] /\ Fault
    BY <1>t, <1>4 DEF DetectorCalled, WithRow, s0, h0
  <2>0. JobTTL \in 0 .. JobTTL
    OBVIOUS
  <2>a. /\ h0.paid <= 1 /\ (s0.sync = "none" => h0.paid = 0)
        /\ s0.post \notin {"none", "arrived", "slot"}
    BY <1>k, <2>1 DEF Protocol
  <2>b. /\ s1 \in ServerStates /\ s1.post = s0.post /\ s1.row = "processing" /\ s1.ttl = JobTTL
        /\ s1.work = "detecting" /\ s1.age = s0.age /\ s1.sync = s0.sync
    BY <1>t, <2>0 DEF ServerStates, Workers
  <2>c. /\ s2 \in ServerStates /\ s2.post = s0.post
        /\ s2.work = "detecting" /\ s2.age = s0.age /\ s2.sync = s0.sync
    BY <1>t DEF ServerStates, Workers
  <2>2. /\ h \in Histories /\ h.paid = h0.paid + 1 /\ h.stored = h0.stored /\ h.bad = h0.bad
    BY <1>t, <2>a DEF Histories
  <2> HIDE DEF s1, s2, h
  <2>d. ASSUME NEW s, s.post = s0.post, s.work = "detecting", s.age = s0.age, s.sync = s0.sync,
               UNCHANGED detSlots
        PROVE  Protocol(a0, s, h) /\ SlotFollows(s0, s)
    <3>1. Protocol(a0, s, h)
      BY <1>k, <1>t, <2>1, <2>2, <2>a, <2>d DEF Protocol, Workers, Histories
    <3>2. SlotFollows(s0, s)
      BY <2>1, <2>d DEF SlotFollows, Holds, Workers
    <3> QED
      BY <3>1, <3>2
  <2>3. CASE srv' = [srv EXCEPT ![p] = s1] /\ NoFault
    <3>1. detFaults' = 0 => Faultless(a0, s1, h)
      BY <1>f, <1>k, <2>1, <2>2, <2>3, <2>b DEF Faultless
    <3>2. detFaults' = 0 /\ ~asleep => Timely(a0, s1, h)
      BY <1>f, <1>k, <1>t, <2>1, <2>2, <2>3, <2>b DEF Timely, Awaits, Workers, AppStates
    <3>3. Protocol(a0, s1, h) /\ SlotFollows(s0, s1)
      BY <2>1, <2>b, <2>d
    <3> QED
      BY <1>m, <2>1, <2>2, <2>3, <2>b, <3>1, <3>2, <3>3 DEF Keeps
  <2>4. CASE srv' = [srv EXCEPT ![p] = s2] /\ Fault
    <3>1. detFaults' # 0
      BY <1>f, <2>4
    <3>3. Protocol(a0, s2, h) /\ SlotFollows(s0, s2)
      BY <2>1, <2>c, <2>d
    <3> QED
      BY <1>m, <2>1, <2>2, <2>4, <2>c, <3>1, <3>3 DEF Keeps
  <2> QED
    BY <2>1, <2>3, <2>4
<1>5. CASE DetectorReturns(p)
  <2> DEFINE s == [s0 EXCEPT !.work = "storing"]
  <2>1. /\ s0.work = "detecting" /\ srv' = [srv EXCEPT ![p] = s]
        /\ NoFault /\ UNCHANGED <<app, ran, asleep, detSlots>>
    BY <1>t, <1>5 DEF DetectorReturns, s0
  <2>2. /\ s \in ServerStates /\ s.post = s0.post /\ s.row = s0.row /\ s.ttl = s0.ttl
        /\ s.work = "storing" /\ s.age = s0.age /\ s.sync = s0.sync
    BY <1>t DEF ServerStates, Workers
  <2> HIDE DEF s
  <2>3. Protocol(a0, s, h0)
    BY <1>k, <2>1, <2>2 DEF Protocol, Workers
  <2>4. detFaults' = 0 => Faultless(a0, s, h0)
    BY <1>f, <1>k, <2>1, <2>2 DEF Faultless
  <2>5. detFaults' = 0 /\ ~asleep => Timely(a0, s, h0)
    BY <1>f, <1>k, <2>1, <2>2 DEF Timely, Awaits, Workers
  <2>6. SlotFollows(s0, s)
    BY <2>1, <2>2 DEF SlotFollows, Holds, Workers
  <2> QED
    BY <1>m, <1>t, <1>u, <2>1, <2>2, <2>3, <2>4, <2>5, <2>6 DEF Keeps
<1>6. CASE StoreItems(p)
  <2> DEFINE s == [s0 EXCEPT !.work = "ending"]
             h1 == [h0 EXCEPT !.stored = TRUE]
  <2>1. /\ s0.work = "storing" /\ srv' = [srv EXCEPT ![p] = s] /\ UNCHANGED <<app, asleep, detSlots>>
        /\ \/ ran' = [ran EXCEPT ![p] = h1] /\ NoFault
           \/ ~(s0.age < JobTimeout) /\ NoFault /\ UNCHANGED ran
           \/ Fault /\ UNCHANGED ran
    BY <1>c, <1>t, <1>6 DEF StoreItems, s0, h0
  <2>2. /\ s \in ServerStates /\ s.post = s0.post /\ s.row = s0.row /\ s.ttl = s0.ttl
        /\ s.work = "ending" /\ s.age = s0.age /\ s.sync = s0.sync
    BY <1>t DEF ServerStates, Workers
  <2>3. /\ h1 \in Histories /\ h1.paid = h0.paid /\ h1.stored = TRUE /\ h1.bad = h0.bad
    BY <1>t DEF Histories
  <2> HIDE DEF s, h1
  <2>4. Protocol(a0, s, h0) /\ Protocol(a0, s, h1)
    BY <1>k, <2>1, <2>2, <2>3 DEF Protocol, Workers
  <2>5. detFaults' = 0 /\ NoFault => Faultless(a0, s, h1)
    BY <1>f, <1>k, <2>1, <2>2, <2>3 DEF Faultless
  <2>6. detFaults' = 0 /\ ~(s0.age < JobTimeout) /\ NoFault => Faultless(a0, s, h0)
    BY <1>f, <1>k, <2>1, <2>2, <2>3 DEF Faultless
  <2>7. detFaults' = 0 /\ ~asleep /\ NoFault => Timely(a0, s, h0) /\ Timely(a0, s, h1)
    BY <1>f, <1>k, <2>1, <2>2, <2>3 DEF Timely, Awaits, Workers
  <2>8. SlotFollows(s0, s)
    BY <2>1, <2>2 DEF SlotFollows, Holds, Workers
  <2>9. CASE ran' = [ran EXCEPT ![p] = h1] /\ NoFault
    BY <1>m, <2>1, <2>2, <2>3, <2>4, <2>5, <2>7, <2>8, <2>9 DEF Keeps
  <2>10. CASE ~(s0.age < JobTimeout) /\ NoFault /\ UNCHANGED ran
    BY <1>m, <1>t, <1>u, <2>1, <2>2, <2>4, <2>6, <2>7, <2>8, <2>10 DEF Keeps
  <2>11. CASE Fault /\ UNCHANGED ran
    <3>1. detFaults' # 0
      BY <1>f, <2>11
    <3> QED
      BY <1>m, <1>t, <1>u, <2>1, <2>2, <2>4, <2>8, <2>11, <3>1 DEF Keeps
  <2> QED
    BY <2>1, <2>9, <2>10, <2>11
<1>7. ASSUME NEW verdict \in {"completed", "failed"}, NEW bad \in BOOLEAN,
             EndWork(p, verdict), ran' = [ran EXCEPT ![p].bad = bad],
             s0.work \in Workers, h0.bad => bad,
             s0.age >= JobTimeout => bad,
             verdict = "failed" => bad,
             verdict = "completed" => s0.work = "ending"
      PROVE  Moving(p)
  <2> DEFINE h == [h0 EXCEPT !.bad = bad]
             done == [s0 EXCEPT !.work = "done", !.age = 0]
             told == [s0 EXCEPT !.work = "done", !.age = 0, !.row = verdict, !.ttl = JobTTL]
  <2>1. /\ ran' = [ran EXCEPT ![p] = h] /\ UNCHANGED <<app, asleep>> /\ detSlots' = detSlots - 1
        /\ \/ s0.age < JobTimeout /\ srv' = [srv EXCEPT ![p] = told] /\ NoFault
           \/ ~(s0.age < JobTimeout) /\ srv' = [srv EXCEPT ![p] = done] /\ NoFault
           \/ srv' = [srv EXCEPT ![p] = done] /\ Fault
    BY <1>c, <1>t, <1>7 DEF EndWork, WithRow, s0, h0
  <2>0. JobTTL \in 0 .. JobTTL /\ 0 \in 0 .. JobTimeout
    OBVIOUS
  <2>2. /\ h \in Histories /\ h.paid = h0.paid /\ h.stored = h0.stored /\ h.bad = bad
    BY <1>t DEF Histories
  <2>3. /\ done \in ServerStates /\ done.post = s0.post /\ done.row = s0.row /\ done.ttl = s0.ttl
        /\ done.work = "done" /\ done.age = 0 /\ done.sync = s0.sync
    BY <1>t, <2>0 DEF ServerStates
  <2>4. /\ told \in ServerStates /\ told.post = s0.post /\ told.row = verdict /\ told.ttl = JobTTL
        /\ told.work = "done" /\ told.age = 0 /\ told.sync = s0.sync
    BY <1>t, <2>0 DEF ServerStates
  <2> HIDE DEF done, told, h
  <2>a. s0.post \notin {"none", "arrived", "slot"} /\ (s0.sync = "none" => h0.paid <= 1)
    BY <1>7, <1>k DEF Protocol, Workers
  <2>5. Protocol(a0, done, h) /\ Protocol(a0, told, h)
    BY <1>k, <2>2, <2>3, <2>4, <2>a DEF Protocol, Workers
  <2>6. SlotFollows(s0, done) /\ SlotFollows(s0, told)
    BY <1>7, <2>1, <2>3, <2>4, <2>a DEF SlotFollows, Holds, Workers
  <2>7. CASE s0.age < JobTimeout /\ srv' = [srv EXCEPT ![p] = told] /\ NoFault
    <3>1. detFaults' = 0 => Faultless(a0, told, h)
      BY <1>7, <1>f, <1>k, <2>2, <2>4, <2>7, <2>a DEF Faultless, Workers
    <3>2. detFaults' = 0 /\ ~asleep => Timely(a0, told, h)
      <4> SUFFICES ASSUME detFaults' = 0, ~asleep PROVE Timely(a0, told, h)
        OBVIOUS
      <4>1. Timely(a0, s0, h0)
        BY <1>f, <1>k, <2>7
      <4>2. a0.shown = "failed" => h.bad
        BY <4>1, <1>7, <2>2, <2>7 DEF Timely
      <4>3. a0.waited \in 0 .. PollDeadline
        BY <1>t DEF AppStates
      <4>4. Awaits(a0, s0) => a0.waited < JobTimeout
        BY <4>1, <4>3, <1>7, <2>7 DEF Timely
      <4> QED
        BY <1>7, <2>2, <2>4, <4>2, <4>3, <4>4 DEF Timely, Awaits, Workers
    <3> QED
      BY <1>m, <2>1, <2>2, <2>4, <2>5, <2>6, <2>7, <3>1, <3>2 DEF Keeps
  <2>8. CASE ~(s0.age < JobTimeout) /\ srv' = [srv EXCEPT ![p] = done] /\ NoFault
    <3>0. h.bad
      BY <1>7, <1>t, <2>2, <2>8 DEF ServerStates
    <3>1. detFaults' = 0 => Faultless(a0, done, h)
      BY <1>7, <1>f, <1>k, <2>2, <2>3, <2>8, <2>a, <3>0 DEF Faultless, Workers
    <3>2. detFaults' = 0 /\ ~asleep => Timely(a0, done, h)
      BY <1>7, <1>f, <1>k, <2>2, <2>3, <2>8, <3>0 DEF Timely, Awaits, Workers
    <3> QED
      BY <1>m, <2>1, <2>2, <2>3, <2>5, <2>6, <2>8, <3>1, <3>2 DEF Keeps
  <2>9. CASE srv' = [srv EXCEPT ![p] = done] /\ Fault
    <3>1. detFaults' # 0
      BY <1>f, <2>9
    <3> QED
      BY <1>m, <2>1, <2>2, <2>3, <2>5, <2>6, <2>9, <3>1 DEF Keeps
  <2> QED
    BY <2>1, <2>7, <2>8, <2>9
<1>8. CASE DetectorFails(p)
  <2>1. s0.work = "detecting" /\ EndWork(p, "failed") /\ ran' = [ran EXCEPT ![p].bad = TRUE]
    BY <1>8 DEF DetectorFails, s0
  <2> QED
    BY <1>7, <2>1 DEF Workers
<1>9. CASE DetectCompletes(p)
  <2> DEFINE bad == h0.bad \/ ~CtxLive(p)
  <2>1. s0.work = "ending" /\ EndWork(p, "completed") /\ ran' = [ran EXCEPT ![p].bad = bad]
    BY <1>9 DEF DetectCompletes, s0, h0
  <2>2. bad \in BOOLEAN /\ (h0.bad => bad) /\ (s0.age >= JobTimeout => bad)
    BY <1>c, <1>t DEF ServerStates
  <2> HIDE DEF bad
  <2> QED
    BY <1>7, <2>1, <2>2 DEF Workers
<1>10. CASE SyncDetect(p)
  <2> DEFINE s1 == [s0 EXCEPT !.sync = "ok"]
             s2 == [s0 EXCEPT !.sync = "error"]
             h1 == [h0 EXCEPT !.stored = TRUE]
             h2 == [h0 EXCEPT !.bad = TRUE]
  <2>1. /\ s0.sync = "detecting" /\ NoFault /\ UNCHANGED <<app, detSlots, asleep>>
        /\ \/ srv' = [srv EXCEPT ![p] = s1] /\ ran' = [ran EXCEPT ![p] = h1]
           \/ srv' = [srv EXCEPT ![p] = s2] /\ ran' = [ran EXCEPT ![p] = h2]
    BY <1>t, <1>10 DEF SyncDetect, s0, h0
  <2>2. /\ s1 \in ServerStates /\ s1.post = s0.post /\ s1.row = s0.row /\ s1.ttl = s0.ttl
        /\ s1.work = s0.work /\ s1.age = s0.age /\ s1.sync = "ok"
    BY <1>t DEF ServerStates
  <2>3. /\ s2 \in ServerStates /\ s2.post = s0.post /\ s2.row = s0.row /\ s2.ttl = s0.ttl
        /\ s2.work = s0.work /\ s2.age = s0.age /\ s2.sync = "error"
    BY <1>t DEF ServerStates
  <2>4. /\ h1 \in Histories /\ h1.paid = h0.paid /\ h1.stored = TRUE /\ h1.bad = h0.bad
        /\ h2 \in Histories /\ h2.paid = h0.paid /\ h2.stored = h0.stored /\ h2.bad = TRUE
    BY <1>t DEF Histories
  <2> HIDE DEF s1, s2, h1, h2
  <2>5. Protocol(a0, s1, h1) /\ Protocol(a0, s2, h2)
    BY <1>k, <2>1, <2>2, <2>3, <2>4 DEF Protocol
  <2>6. detFaults' = 0 => Faultless(a0, s1, h1) /\ Faultless(a0, s2, h2)
    BY <1>f, <1>k, <2>1, <2>2, <2>3, <2>4 DEF Faultless
  <2>7. detFaults' = 0 /\ ~asleep => Timely(a0, s1, h1) /\ Timely(a0, s2, h2)
    BY <1>f, <1>k, <2>1, <2>2, <2>3, <2>4 DEF Timely, Awaits
  <2>8. SlotFollows(s0, s1) /\ SlotFollows(s0, s2)
    BY <2>1, <2>2, <2>3 DEF SlotFollows, Holds
  <2> QED
    BY <1>m, <2>1, <2>2, <2>3, <2>4, <2>5, <2>6, <2>7, <2>8 DEF Keeps
<1> QED
  BY <1>1, <1>2, <1>3, <1>4, <1>5, <1>6, <1>8, <1>9, <1>10 DEF ServerStep

\* The actions of the app for one photo.
LEMMA AppMoves ==
  ASSUME DetectInv, NEW p \in Photos,
         StartJob(p) \/ DismissJob(p) \/ AppStep(p) \/ PollJob(p)
  PROVE  Moving(p)
<1> DEFINE a0 == app[p]
           s0 == srv[p]
           h0 == ran[p]
<1> USE DetectConstants
<1>t. DetectTypes /\ a0 \in AppStates /\ s0 \in ServerStates /\ h0 \in Histories
  BY DEF DetectInv, DetectTypes
<1>u. /\ UNCHANGED srv => srv' = [srv EXCEPT ![p] = s0]
      /\ UNCHANGED ran => ran' = [ran EXCEPT ![p] = h0]
  BY <1>t DEF DetectTypes
<1>f. (Fault \/ NoFault) => (detFaults' = 0 => detFaults = 0 /\ ~Fault)
  BY <1>t, FaultsGrow
<1>k. /\ Protocol(a0, s0, h0)
      /\ detFaults = 0 => Faultless(a0, s0, h0)
      /\ detFaults = 0 /\ ~asleep => Timely(a0, s0, h0)
  BY DEF DetectInv, Quiet
<1>m. ASSUME NEW a \in AppStates, NEW s \in ServerStates, NEW h \in Histories,
             UNCHANGED <<detSlots, asleep>>, app' = [app EXCEPT ![p] = a],
             srv' = [srv EXCEPT ![p] = s], ran' = [ran EXCEPT ![p] = h],
             Keeps(a, s, h), Holds(s) <=> Holds(s0), Fault \/ NoFault
      PROVE  Moving(p)
  BY <1>m DEF Moving, SlotFollows
<1> HIDE DEF a0, s0, h0
\* A verdict is shown, for a reason.
<1>v. ASSUME NEW verdict \in {"completed", "failed"}, app' = [app EXCEPT ![p] = Marked(a0, verdict)],
             UNCHANGED <<srv, ran, detSlots, asleep>>, Fault \/ NoFault,
             a0.loop \in {"polling", "sync"},
             detFaults' = 0 /\ verdict = "completed" => h0.stored,
             detFaults' = 0 /\ ~asleep /\ verdict = "failed" => h0.bad \/ s0.age = JobTimeout
      PROVE  Moving(p)
  <2> DEFINE a == Marked(a0, verdict)
  <2>1. 0 \in 0 .. PollDeadline
    OBVIOUS
  <2>2. /\ a \in AppStates /\ a.loop = "done" /\ a.waited = 0
        /\ a.shown = IF a0.shown = "detecting" THEN verdict ELSE a0.shown
    BY <1>t, <2>1 DEF AppStates, Marked
  <2> HIDE DEF a
  <2>3. Protocol(a, s0, h0)
    BY <1>k, <1>v, <2>2 DEF Protocol
  <2>4. detFaults' = 0 => Faultless(a, s0, h0)
    BY <1>f, <1>k, <1>v, <2>2 DEF Faultless
  <2>5. detFaults' = 0 /\ ~asleep => Timely(a, s0, h0)
    BY <1>f, <1>k, <1>v, <2>2 DEF Timely, Awaits
  <2>6. app' = [app EXCEPT ![p] = a]
    BY <1>v DEF a
  <2> QED
    BY <1>m, <1>t, <1>u, <1>v, <2>2, <2>3, <2>4, <2>5, <2>6 DEF Keeps
<1>1. CASE StartJob(p)
  <2> DEFINE a == [a0 EXCEPT !.loop = "submitting", !.shown = "detecting"]
             s == [s0 EXCEPT !.post = "arrived"]
  <2>1. /\ a0.loop = "idle" /\ a0.shown = "none" /\ app' = [app EXCEPT ![p] = a]
        /\ srv' = [srv EXCEPT ![p] = s] /\ NoFault /\ UNCHANGED <<detSlots, ran, asleep>>
    BY <1>t, <1>1 DEF StartJob, a0, s0
  <2>2. /\ a \in AppStates /\ a.loop = "submitting" /\ a.shown = "detecting"
        /\ a.waited = a0.waited /\ a.fresh = a0.fresh
    BY <1>t DEF AppStates
  <2>3. /\ s \in ServerStates /\ s.post = "arrived" /\ s.row = s0.row /\ s.ttl = s0.ttl
        /\ s.work = s0.work /\ s.age = s0.age /\ s.sync = s0.sync
    BY <1>t DEF ServerStates
  <2> HIDE DEF a, s
  <2>a. s0.post = "none" /\ s0.sync = "none" /\ s0.work = "none"
    BY <1>k, <1>t, <2>1 DEF Protocol, ServerStates
  <2>4. Protocol(a, s, h0)
    BY <1>k, <2>1, <2>2, <2>3, <2>a DEF Protocol
  <2>5. detFaults' = 0 => Faultless(a, s, h0)
    BY <1>f, <1>k, <2>1, <2>2, <2>3, <2>a DEF Faultless
  <2>6. detFaults' = 0 /\ ~asleep => Timely(a, s, h0)
    BY <2>2, <2>3 DEF Timely, Awaits
  <2>7. Holds(s) <=> Holds(s0)
    BY <2>3, <2>a DEF Holds
  <2> QED
    BY <1>m, <1>t, <1>u, <2>1, <2>2, <2>3, <2>4, <2>5, <2>6, <2>7 DEF Keeps
<1>2. CASE Submitted(p)
  <2> DEFINE a == [a0 EXCEPT !.loop = "polling", !.fresh = TRUE]
  <2>1. /\ a0.loop = "submitting" /\ s0.post = "accepted" /\ app' = [app EXCEPT ![p] = a]
        /\ NoFault /\ UNCHANGED <<srv, detSlots, ran, asleep>>
    BY <1>t, <1>2 DEF Submitted, a0, s0
  <2>2. /\ a \in AppStates /\ a.loop = "polling" /\ a.shown = a0.shown
        /\ a.waited = a0.waited /\ a.fresh = TRUE
    BY <1>t DEF AppStates
  <2> HIDE DEF a
  <2>a. a0.waited = 0
    BY <1>k, <2>1 DEF Protocol
  <2>4. Protocol(a, s0, h0)
    BY <1>k, <2>1, <2>2, <2>a DEF Protocol
  <2>5. detFaults' = 0 => Faultless(a, s0, h0)
    BY <1>f, <1>k, <2>1, <2>2 DEF Faultless
  <2>6. detFaults' = 0 /\ ~asleep => Timely(a, s0, h0)
    BY <1>f, <1>k, <2>1, <2>2, <2>a DEF Timely, Awaits
  <2> QED
    BY <1>m, <1>t, <1>u, <2>1, <2>2, <2>4, <2>5, <2>6 DEF Keeps
<1>3. CASE FallBack(p)
  <2> DEFINE a == [a0 EXCEPT !.loop = "sync"]
             s == [s0 EXCEPT !.sync = "detecting"]
             h == [h0 EXCEPT !.paid = h0.paid + 1]
  <2>1. /\ a0.loop = "submitting" /\ app' = [app EXCEPT ![p] = a]
        /\ srv' = [srv EXCEPT ![p] = s] /\ ran' = [ran EXCEPT ![p] = h]
        /\ \/ s0.post = "refused" /\ NoFault
           \/ s0.post # "refused" /\ Fault
        /\ UNCHANGED <<detSlots, asleep>>
    BY <1>t, <1>3 DEF FallBack, a0, s0, h0
  <2>a. s0.sync = "none" /\ h0.paid <= 1 /\ (s0.work \in {"none", "starting"} => h0.paid = 0)
    BY <1>k, <1>t, <2>1 DEF Protocol, ServerStates
  <2>2. /\ a \in AppStates /\ a.loop = "sync" /\ a.shown = a0.shown
        /\ a.waited = a0.waited /\ a.fresh = a0.fresh
    BY <1>t DEF AppStates
  <2>3. /\ s \in ServerStates /\ s.post = s0.post /\ s.row = s0.row /\ s.ttl = s0.ttl
        /\ s.work = s0.work /\ s.age = s0.age /\ s.sync = "detecting"
    BY <1>t DEF ServerStates
  <2>b. /\ h \in Histories /\ h.paid = h0.paid + 1 /\ h.stored = h0.stored /\ h.bad = h0.bad
    BY <1>t, <2>a DEF Histories
  <2> HIDE DEF a, s, h
  <2>4. Protocol(a, s, h)
    BY <1>k, <1>t, <2>1, <2>2, <2>3, <2>a, <2>b DEF Protocol, Histories
  <2>5. detFaults' = 0 => Faultless(a, s, h)
    BY <1>f, <1>k, <2>1, <2>2, <2>3, <2>b DEF Faultless
  <2>6. detFaults' = 0 /\ ~asleep => Timely(a, s, h)
    BY <1>f, <1>k, <2>1, <2>2, <2>3, <2>b DEF Timely, Awaits
  <2>7. Holds(s) <=> Holds(s0)
    BY <2>3 DEF Holds
  <2> QED
    BY <1>m, <1>t, <1>u, <2>1, <2>2, <2>3, <2>4, <2>5, <2>6, <2>7, <2>b DEF Keeps
<1>4. CASE SyncAnswered(p)
  <2>1. /\ a0.loop = "sync" /\ UNCHANGED <<srv, detSlots, ran, asleep>>
        /\ \/ s0.sync = "ok" /\ app' = [app EXCEPT ![p] = Marked(a0, "completed")] /\ NoFault
           \/ s0.sync = "error" /\ app' = [app EXCEPT ![p] = Marked(a0, "failed")] /\ NoFault
           \/ app' = [app EXCEPT ![p] = Marked(a0, "failed")] /\ Fault
    BY <1>4 DEF SyncAnswered, a0, s0
  <2>2. detFaults = 0 => (s0.sync = "ok" => h0.stored) /\ (s0.sync = "error" => h0.bad)
    BY <1>k DEF Faultless
  <2> QED
    BY <1>f, <1>v, <2>1, <2>2
<1>5. CASE GiveUp(p)
  <2>1. /\ a0.loop = "polling" /\ a0.waited = PollDeadline /\ NoFault
        /\ app' = [app EXCEPT ![p] = Marked(a0, "failed")] /\ UNCHANGED <<srv, detSlots, ran, asleep>>
    BY <1>5 DEF GiveUp, a0
  <2>2. s0.post = "accepted"
    BY <1>k, <2>1 DEF Protocol
  <2>3. detFaults = 0 /\ ~asleep => h0.bad \/ s0.age = JobTimeout
    BY <1>k, <1>t, <2>1, <2>2 DEF Timely, Awaits, ServerStates
  <2> QED
    BY <1>f, <1>v, <2>1, <2>3
<1>6. CASE DismissJob(p)
  <2> DEFINE a == [a0 EXCEPT !.shown = "gone"]
  <2>1. /\ app' = [app EXCEPT ![p] = a] /\ NoFault /\ UNCHANGED <<srv, detSlots, ran, asleep>>
    BY <1>t, <1>6 DEF DismissJob, a0
  <2>2. /\ a \in AppStates /\ a.loop = a0.loop /\ a.shown = "gone"
        /\ a.waited = a0.waited /\ a.fresh = a0.fresh
    BY <1>t DEF AppStates
  <2> HIDE DEF a
  <2>4. Protocol(a, s0, h0)
    BY <1>k, <2>2 DEF Protocol
  <2>5. detFaults' = 0 => Faultless(a, s0, h0)
    BY <1>f, <1>k, <2>1, <2>2 DEF Faultless
  <2>6. detFaults' = 0 /\ ~asleep => Timely(a, s0, h0)
    BY <1>f, <1>k, <2>1, <2>2 DEF Timely, Awaits
  <2> QED
    BY <1>m, <1>t, <1>u, <2>1, <2>2, <2>4, <2>5, <2>6 DEF Keeps
<1>7. CASE PollJob(p)
  <2> DEFINE a == [a0 EXCEPT !.fresh = TRUE]
  <2>1. /\ a0.loop = "polling" /\ a0.waited < PollDeadline /\ UNCHANGED <<srv, detSlots, ran, asleep>>
        /\ \/ /\ NoFault
              /\ \/ s0.row \in {"pending", "processing"} /\ app' = [app EXCEPT ![p] = a]
                 \/ s0.row = "completed" /\ app' = [app EXCEPT ![p] = Marked(a0, "completed")]
                 \/ s0.row \in {"failed", "none"} /\ app' = [app EXCEPT ![p] = Marked(a0, "failed")]
           \/ Fault /\ app' = [app EXCEPT ![p] = Marked(a0, "failed")]
    BY <1>t, <1>7 DEF PollJob, a0, s0, ServerStates
  <2>2. /\ a \in AppStates /\ a.loop = a0.loop /\ a.shown = a0.shown
        /\ a.waited = a0.waited /\ a.fresh = TRUE
    BY <1>t DEF AppStates
  <2> HIDE DEF a
  <2>3. s0.post = "accepted"
    BY <1>k, <2>1 DEF Protocol
  <2>4. CASE s0.row \in {"pending", "processing"} /\ app' = [app EXCEPT ![p] = a] /\ NoFault
    <3>4. Protocol(a, s0, h0)
      BY <1>k, <2>1, <2>2 DEF Protocol
    <3>5. detFaults' = 0 => Faultless(a, s0, h0)
      BY <1>f, <1>k, <2>2, <2>4 DEF Faultless
    <3>6. detFaults' = 0 /\ ~asleep => Timely(a, s0, h0)
      BY <1>f, <1>k, <2>2, <2>4 DEF Timely, Awaits
    <3> QED
      BY <1>m, <1>t, <1>u, <2>1, <2>2, <2>4, <3>4, <3>5, <3>6 DEF Keeps
  <2>5. detFaults = 0 => (s0.row = "completed" => h0.stored) /\ (s0.row = "failed" => h0.bad)
    BY <1>k DEF Faultless
  <2>6. detFaults = 0 /\ ~asleep => s0.row # "none"
    BY <1>k, <2>1, <2>3 DEF Timely, Awaits
  <2> QED
    BY <1>f, <1>v, <2>1, <2>4, <2>5, <2>6
<1> QED
  BY <1>1, <1>2, <1>3, <1>4, <1>5, <1>6, <1>7 DEF AppStep

\* A tick: the app has waited longer, workers have run longer, rows live shorter.
LEMMA TickKeeps == ASSUME DetectInv, DetectTick PROVE DetectInv'
<1> USE DetectConstants
<1>t. DetectTypes /\ NoFault /\ UNCHANGED <<detSlots, ran, detFaults>>
  BY DEF DetectInv, DetectTick, NoFault
<1>q. asleep' \in BOOLEAN /\ (~asleep' => ~asleep /\ \A p \in Photos : Prompt(p))
  <2>1. asleep' = (asleep \/ \E p \in Photos : ~Prompt(p))
    BY DEF DetectTick
  <2> QED
    BY <1>t, <2>1 DEF DetectTypes
<1>1. ASSUME NEW p \in Photos
      PROVE  /\ app'[p] \in AppStates /\ srv'[p] \in ServerStates
             /\ Holds(srv'[p]) <=> Holds(srv[p])
             /\ Protocol(app'[p], srv'[p], ran[p])
             /\ detFaults = 0 => Faultless(app'[p], srv'[p], ran[p])
             /\ detFaults = 0 /\ ~asleep' => Timely(app'[p], srv'[p], ran[p])
  <2> DEFINE a0 == app[p]
             s0 == srv[p]
             h0 == ran[p]
             a1 == [a0 EXCEPT !.waited = a0.waited + 1, !.fresh = FALSE]
             a  == IF a0.loop = "polling" /\ a0.waited < PollDeadline THEN a1 ELSE a0
             age == IF s0.work \in Workers /\ s0.age < JobTimeout THEN s0.age + 1 ELSE s0.age
             ttl == IF s0.ttl > 0 THEN s0.ttl - 1 ELSE 0
             row == IF s0.ttl > 1 THEN s0.row ELSE "none"
             s  == [s0 EXCEPT !.age = age, !.ttl = ttl, !.row = row]
  <2>t. a0 \in AppStates /\ s0 \in ServerStates /\ h0 \in Histories
    BY <1>t DEF DetectTypes
  <2>k. /\ Protocol(a0, s0, h0)
        /\ detFaults = 0 => Faultless(a0, s0, h0)
        /\ detFaults = 0 /\ ~asleep' => Timely(a0, s0, h0)
    BY <1>q DEF DetectInv, Quiet
  <2>p. ~asleep' => /\ a0.loop # "submitting" /\ s0.work # "starting"
                    /\ a0.loop = "polling" => a0.fresh
    BY <1>q DEF Prompt
  <2>1. app'[p] = a /\ srv'[p] = s
    BY DEF DetectTick
  <2> HIDE DEF a0, s0, h0
  <2>2. a1 \in AppStates \/ ~(a0.waited < PollDeadline)
    <3>1. a0.waited \in 0 .. PollDeadline
      BY <2>t DEF AppStates
    <3>2. a0.waited + 1 \in 0 .. PollDeadline \/ ~(a0.waited < PollDeadline)
      BY <3>1
    <3> QED
      BY <2>t, <3>2 DEF AppStates
  <2>3. /\ a1.loop = a0.loop /\ a1.waited = a0.waited + 1 /\ a1.shown = a0.shown
        /\ a1.fresh = FALSE
    BY <2>t DEF AppStates
  <2>4. age \in 0 .. JobTimeout /\ ttl \in 0 .. JobTTL /\ row \in {"none", s0.row}
    <3>1. s0.age \in 0 .. JobTimeout /\ s0.ttl \in 0 .. JobTTL
      BY <2>t DEF ServerStates
    <3> QED
      BY <3>1
  <2>a. /\ s0.work \in Workers /\ s0.age < JobTimeout => age = s0.age + 1
        /\ s0.work \notin Workers \/ s0.age >= JobTimeout => age = s0.age
        /\ ttl > 0 => row = s0.row /\ s0.ttl = ttl + 1
        /\ s0.ttl <= ttl + 1
    <3>1. s0.age \in 0 .. JobTimeout /\ s0.ttl \in 0 .. JobTTL
      BY <2>t DEF ServerStates
    <3> QED
      BY <3>1
  <2> HIDE DEF a1, age, ttl, row
  <2>5. /\ s \in ServerStates /\ s.post = s0.post /\ s.row = row /\ s.ttl = ttl
        /\ s.work = s0.work /\ s.age = age /\ s.sync = s0.sync
    BY <2>t, <2>4 DEF ServerStates
  <2> HIDE DEF s
  <2>6. /\ a \in AppStates /\ a.loop = a0.loop /\ a.shown = a0.shown
        /\ a.fresh => a0.fresh
        /\ a.loop = "polling" /\ a0.waited < PollDeadline => a.waited = a0.waited + 1 /\ ~a.fresh
        /\ a.loop = "polling" /\ a0.waited = PollDeadline => a.waited = PollDeadline /\ ~a.fresh
        /\ a.loop # "polling" => a = a0
    <3>1. CASE a0.loop = "polling" /\ a0.waited < PollDeadline
      BY <2>t, <2>2, <2>3, <3>1 DEF AppStates
    <3>2. CASE ~(a0.loop = "polling" /\ a0.waited < PollDeadline)
      <4>1. a = a0
        BY <3>2
      <4>2. a0.loop = "polling" /\ a0.waited = PollDeadline => ~a0.fresh
        BY <2>k DEF Protocol
      <4>3. a0.waited \in 0 .. PollDeadline
        BY <2>t DEF AppStates
      <4> HIDE DEF a
      <4> QED
        BY <2>t, <3>2, <4>1, <4>2, <4>3
    <3> QED
      BY <3>1, <3>2
  <2> HIDE DEF a
  <2>7. Protocol(a, s, h0)
    <3>1. a.loop = "polling" /\ a.waited = PollDeadline => ~a.fresh
      BY <2>k, <2>t, <2>6 DEF Protocol, AppStates
    <3>2. a.loop # "polling" => a.waited = 0
      BY <2>k, <2>6 DEF Protocol
    <3>3. a.loop \in {"idle", "submitting"} => a.fresh
      BY <2>k, <2>6 DEF Protocol
    <3>4. s.work \notin Workers => s.age = 0
      BY <2>k, <2>5, <2>a DEF Protocol
    <3> QED
      BY <2>k, <2>5, <2>6, <3>1, <3>2, <3>3, <3>4 DEF Protocol
  <2>8. detFaults = 0 => Faultless(a, s, h0)
    <3> SUFFICES ASSUME detFaults = 0 PROVE Faultless(a, s, h0)
      OBVIOUS
    <3>1. s.work = "ending" /\ s.age < JobTimeout => h0.stored
      <4>1. s0.age \in 0 .. JobTimeout
        BY <2>t DEF ServerStates
      <4>2. age < JobTimeout => s0.age < JobTimeout
        BY <2>a, <4>1
      <4> QED
        BY <2>k, <2>5, <4>2 DEF Faultless
    <3> QED
      BY <2>k, <2>4, <2>5, <2>6, <3>1 DEF Faultless
  <2>9. detFaults = 0 /\ ~asleep' => Timely(a, s, h0)
    <3> SUFFICES ASSUME detFaults = 0, ~asleep' PROVE Timely(a, s, h0)
      OBVIOUS
    <3>1. s0.age \in 0 .. JobTimeout /\ s0.ttl \in 0 .. JobTTL /\ a0.waited \in 0 .. PollDeadline
      BY <2>t DEF ServerStates, AppStates
    <3>2. Timely(a0, s0, h0)
      BY <2>k
    <3>3. s0.age = JobTimeout => age = JobTimeout
      BY <2>a, <3>1
    <3>4. a.shown = "failed" => h0.bad \/ s.age = JobTimeout
      BY <2>5, <2>6, <3>2, <3>3 DEF Timely
    <3>5. ASSUME Awaits(a, s)
          PROVE  /\ s.row # "none" /\ s.work # "none" /\ s.ttl + a.waited >= JobTTL
                 /\ s.work \in Workers /\ a.waited < JobTimeout => s.age = a.waited
                 /\ s.work \in Workers /\ a.waited >= JobTimeout => s.age = JobTimeout
                 /\ s.work = "done" /\ ~h0.bad =>
                      /\ s.row = "completed" /\ a.waited <= JobTimeout
                      /\ a.fresh => a.waited < JobTimeout
      <4>1. a0.loop = "polling" /\ a0.fresh /\ Awaits(a0, s0)
        BY <2>5, <2>6, <2>p, <3>5 DEF Awaits
      <4>2. a0.waited < PollDeadline
        BY <2>k, <3>1, <4>1 DEF Protocol
      <4>3. a.waited = a0.waited + 1 /\ ~a.fresh
        BY <2>6, <4>1, <4>2
      <4>4. /\ s0.row # "none" /\ s0.work # "none" /\ s0.ttl + a0.waited >= JobTTL
            /\ s0.work \in Workers /\ a0.waited < JobTimeout => s0.age = a0.waited
            /\ s0.work \in Workers /\ a0.waited >= JobTimeout => s0.age = JobTimeout
            /\ s0.work = "done" /\ ~h0.bad => s0.row = "completed" /\ a0.waited < JobTimeout
        BY <3>2, <4>1 DEF Timely
      <4>5. ttl > 0 /\ ttl + a.waited >= JobTTL
        BY <2>a, <2>4, <3>1, <4>2, <4>3, <4>4
      <4>6. s0.work \in Workers =>
              /\ a.waited < JobTimeout => age = a.waited
              /\ a.waited >= JobTimeout => age = JobTimeout
        BY <2>a, <2>4, <3>1, <4>3, <4>4
      <4>7. s0.work = "done" /\ ~h0.bad => a.waited <= JobTimeout
        BY <3>1, <4>3, <4>4
      <4> QED
        BY <2>5, <2>a, <4>3, <4>4, <4>5, <4>6, <4>7
    <3> QED
      BY <3>4, <3>5 DEF Timely
  <2>10. Holds(s) <=> Holds(s0)
    BY <2>5 DEF Holds
  <2> QED
    BY <2>1, <2>5, <2>6, <2>7, <2>8, <2>9, <2>10 DEF a0, s0, h0
<1>2. app' \in [Photos -> AppStates] /\ srv' \in [Photos -> ServerStates]
  <2>1. app' = [p \in Photos |-> app'[p]] /\ srv' = [p \in Photos |-> srv'[p]]
    BY DEF DetectTick
  <2> QED
    BY <1>1, <2>1
<1>3. Holders' = Holders
  <2>1. Holders' = {q \in Photos : Holds(srv'[q])} /\ Holders = {q \in Photos : Holds(srv[q])}
    BY DEF Holders, Holds
  <2> QED
    BY <1>1, <2>1
<1>4. DetectSlotsAccounted'
  BY <1>3, <1>t DEF DetectInv, DetectSlotsAccounted
<1>5. DetectTypes'
  BY <1>t, <1>q, <1>2 DEF DetectTypes
<1>6. Quiet' => detFaults = 0 /\ ~asleep'
  BY <1>t DEF Quiet
<1> QED
  BY <1>t, <1>1, <1>4, <1>5, <1>6 DEF DetectInv, Protocol, Faultless, Timely, Awaits

\* The server dies: nothing holds a slot, and what was under way is refused.
LEMMA CrashKeeps == ASSUME DetectInv, DetectCrash PROVE DetectInv'
<1> USE DetectConstants
<1>t. DetectTypes /\ Fault /\ UNCHANGED <<app, ran, asleep>> /\ detSlots' = 0
  BY DEF DetectInv, DetectCrash
<1>f. detFaults' \in 0 .. MaxDetectFaults /\ detFaults' # 0
  BY <1>t, FaultsGrow
<1>1. ASSUME NEW p \in Photos
      PROVE  /\ srv'[p] \in ServerStates /\ ~Holds(srv'[p])
             /\ Protocol(app[p], srv'[p], ran[p])
  <2> DEFINE s0 == srv[p]
             work == IF s0.work \in Workers THEN "done" ELSE s0.work
             post == IF s0.post \in {"arrived", "slot"} THEN "refused" ELSE s0.post
             sync == IF s0.sync = "detecting" THEN "error" ELSE s0.sync
             s == [s0 EXCEPT !.work = work, !.age = 0, !.post = post, !.sync = sync]
  <2>1. srv'[p] = s
    BY DEF DetectCrash
  <2>2. s0 \in ServerStates /\ Protocol(app[p], s0, ran[p])
    BY <1>t DEF DetectInv, DetectTypes
  <2> HIDE DEF s0
  <2>0. 0 \in 0 .. JobTimeout
    OBVIOUS
  <2>a. /\ work \in {"none", "done"} \cup Workers /\ work \notin Workers
        /\ s0.work = "none" => work = "none"
        /\ work = "none" => s0.work = "none"
    BY <2>2 DEF ServerStates, Workers
  <2>b. /\ post \in {"none", "arrived", "slot", "accepted", "refused"}
        /\ post \notin {"arrived", "slot"} /\ (post = "none" <=> s0.post = "none")
        /\ s0.post = "accepted" => post = "accepted"
    BY <2>2 DEF ServerStates
  <2>c. /\ sync \in {"none", "detecting", "ok", "error"}
        /\ (sync = "none" <=> s0.sync = "none")
    BY <2>2 DEF ServerStates
  <2> HIDE DEF work, post, sync
  <2>3. /\ s \in ServerStates /\ s.post = post /\ s.work = work /\ s.age = 0 /\ s.sync = sync
    BY <2>0, <2>2, <2>a, <2>b, <2>c DEF ServerStates
  <2> HIDE DEF s
  <2>4. Protocol(app[p], s, ran[p])
    BY <2>2, <2>3, <2>a, <2>b, <2>c DEF Protocol, Workers
  <2>5. ~Holds(s)
    BY <2>3, <2>a, <2>b DEF Holds, Workers
  <2> QED
    BY <2>1, <2>3, <2>4, <2>5
<1>2. srv' \in [Photos -> ServerStates]
  <2>1. srv' = [p \in Photos |-> srv'[p]]
    BY DEF DetectCrash
  <2> QED
    BY <1>1, <2>1
<1>3. Holders' = {}
  BY <1>1 DEF Holders, Holds
<1>4. DetectSlotsAccounted'
  BY <1>t, <1>3, FS_EmptySet DEF DetectSlotsAccounted
<1>5. DetectTypes'
  BY <1>t, <1>f, <1>2 DEF DetectTypes
<1> QED
  BY <1>t, <1>f, <1>1, <1>4, <1>5 DEF DetectInv, Protocol, Quiet

LEMMA DetectNextKeeps == DetectInv /\ [DetectNext]_detectVars => DetectInv'
<1> SUFFICES ASSUME DetectInv, [DetectNext]_detectVars PROVE DetectInv'
  OBVIOUS
<1>1. ASSUME NEW p \in Photos,
             StartJob(p) \/ DismissJob(p) \/ ServerStep(p) \/ AppStep(p) \/ PollJob(p)
      PROVE  DetectInv'
  <2>1. Moving(p)
    BY <1>1, ServerMoves, AppMoves
  <2> QED
    BY <2>1, MovingKeeps
<1>2. CASE DetectTick
  BY <1>2, TickKeeps
<1>3. CASE DetectCrash
  BY <1>3, CrashKeeps
<1>4. CASE UNCHANGED detectVars
  BY <1>4 DEF detectVars, DetectInv, DetectTypes, DetectSlotsAccounted, Holders, Workers, Protocol,
              Faultless, Timely, Awaits, Quiet
<1> QED
  BY <1>1, <1>2, <1>3, <1>4 DEF DetectNext

LEMMA DetectInvariant == DetectSpec => []DetectInv
BY DetectInitially, DetectNextKeeps, PTL DEF DetectSpec

\* The app and the server keep their types: the detector is called at most twice for a
\* photo, whatever is lost, and the semaphore is never over its capacity.
THEOREM DetectTypesCorrect == DetectSpec => []DetectTypeOK
<1>1. DetectInv => DetectTypeOK
  BY DEF DetectInv, DetectTypes, DetectTypeOK, AppStates, ServerStates, Histories
<1> QED
  BY <1>1, DetectInvariant, PTL

\* The semaphore of wardrobe.Service never leaks a token nor gives one twice: the guard of
\* the handler and the deferred release of the worker hand it over, also across a failed
\* Save, a panic-free end of the worker and a crash.
THEOREM DetectSlotsNeverLeak == DetectSpec => []DetectSlotsAccounted
<1>1. DetectInv => DetectSlotsAccounted
  BY DEF DetectInv
<1> QED
  BY <1>1, DetectInvariant, PTL

\* Without faults the 503 that sends the app to the synchronous endpoint has launched no
\* worker, so a photo is billed once.
THEOREM PhotoPaidOnce == DetectSpec => []PaidOnce
<1>1. DetectInv => PaidOnce
  <2> SUFFICES ASSUME DetectInv, detFaults = 0, NEW p \in Photos PROVE ran[p].paid <= 1
    BY DEF PaidOnce
  <2>1. Protocol(app[p], srv[p], ran[p]) /\ Faultless(app[p], srv[p], ran[p])
    BY DEF DetectInv
  <2> QED
    BY <2>1 DEF Protocol, Faultless
<1> QED
  BY <1>1, DetectInvariant, PTL

\* For every choice of the worker's timeout, the app's deadline and the TTL that are
\* ordered as in the code, the app's last word on a photo is the server's.
THEOREM VerdictAlwaysTrue == DetectSpec => []VerdictIsTrue
<1>1. DetectInv => VerdictIsTrue
  <2> SUFFICES ASSUME DetectInv PROVE VerdictIsTrue
    OBVIOUS
  <2>1. ASSUME detFaults = 0, NEW p \in Photos, app[p].shown = "completed" PROVE ran[p].stored
    BY <2>1 DEF DetectInv, Faultless
  <2>2. ASSUME Quiet, NEW p \in Photos, app[p].shown = "failed" PROVE ran[p].bad \/ ~CtxLive(p)
    <3>1. ran[p].bad \/ srv[p].age = JobTimeout
      BY <2>2 DEF DetectInv, Timely
    <3> QED
      BY <3>1, DetectConstants DEF CtxLive
  <2> QED
    BY <2>1, <2>2 DEF VerdictIsTrue
<1> QED
  BY <1>1, DetectInvariant, PTL

-----------------------------------------------------------------------------
(***************************************************************************)
(* Sessions: the types of what the app, its storage and the server hold.   *)
(***************************************************************************)
Refreshes ==
  [at : {"none", "posted", "found", "rotated", "refused", "saving"},
   by : {"request", "restore"}, of : Tokens, new : Tokens, key : 1 .. 4]
SignIns == [at : {"none", "posted", "answered", "saving"}, new : Tokens, key : 1 .. 4]

LEMMA SessBounds == MaxTokens \in Nat /\ MaxSessionFaults \in Nat /\ 0 \in Tokens
BY SessionAssumption DEF Tokens

LEMMA NoneUnderWay == NoRefresh \in Refreshes /\ NoSignIn \in SignIns
BY SessBounds DEF NoRefresh, NoSignIn, Refreshes, SignIns

LEMMA KeyMoves ==
  ASSUME NEW k \in 1 .. 4, k <= 3 PROVE k \in 1 .. 3 /\ k + 1 \in 1 .. 4
OBVIOUS

LEMMA RefreshFields ==
  ASSUME NEW r \in Refreshes
  PROVE  /\ \A at \in {"posted", "found", "rotated", "refused", "saving"}, new \in Tokens :
              /\ [r EXCEPT !.at = at] \in Refreshes
              /\ [r EXCEPT !.at = at, !.new = new] \in Refreshes
         /\ \A k \in 1 .. 4 : [r EXCEPT !.key = k] \in Refreshes
         /\ r.key \in 1 .. 4 /\ r.new \in Tokens
BY DEF Refreshes

LEMMA SignInFields ==
  ASSUME NEW s \in SignIns
  PROVE  /\ \A at \in {"posted", "answered", "saving"}, new \in Tokens :
              /\ [s EXCEPT !.at = at] \in SignIns
              /\ [s EXCEPT !.at = at, !.new = new] \in SignIns
         /\ \A k \in 1 .. 4 : [s EXCEPT !.key = k] \in SignIns
         /\ s.key \in 1 .. 4 /\ s.new \in Tokens
BY DEF SignIns

LEMMA KeysOrdered ==
  ASSUME NEW i \in 1 .. 3
  PROVE  /\ Keys[i] \in {"tok", "ses", "ref"} /\ GoneKeys[i] \in {"tok", "ses", "ref"}
         /\ Keys[3] = "ref" /\ GoneKeys[1] = "tok"
BY DEF Keys, GoneKeys

\* Everything but the Booleans.
SessNumbers ==
  /\ hash \in Tokens /\ minted \in Tokens /\ mem \in Tokens
  /\ disk \in [{"tok", "ses", "ref"} -> Tokens]
  /\ launch \in {"dead", "restoring", "up"}
  /\ rf \in Refreshes /\ si \in SignIns
  /\ clearing \in 0 .. 3 /\ lo \in Tokens
  /\ calls \in [Calls -> {"idle", "waiting", "done"}]
  /\ sessFaults \in 0 .. MaxSessionFaults

SessFlags == bearer \in BOOLEAN /\ out \in BOOLEAN /\ crossed \in BOOLEAN

LEMMA MintedMore ==
  ASSUME SessNumbers, minted < MaxTokens PROVE minted + 1 \in Tokens
BY SessBounds DEF SessNumbers, Tokens

LEMMA SessFaultsCounted ==
  ASSUME SessNumbers, SessFault \/ NoSessFault
  PROVE  /\ sessFaults' \in 0 .. MaxSessionFaults
         /\ sessFaults' = 0 => sessFaults = 0 /\ ~SessFault
BY SessBounds DEF SessNumbers, SessFault, NoSessFault

LEMMA SessNumbersInit == SessInit => SessNumbers
<1> SUFFICES ASSUME SessInit PROVE SessNumbers
  OBVIOUS
<1> QED
  BY SessBounds, NoneUnderWay DEF SessInit, SessNumbers

LEMMA SessNumbersStep == SessNumbers /\ [SessNext]_sessVars => SessNumbers'
<1> SUFFICES ASSUME SessNumbers, [SessNext]_sessVars PROVE SessNumbers'
  OBVIOUS
<1> USE SessBounds
<1>1. CASE ServerSignsIn
  BY <1>1, MintedMore, SignInFields DEF ServerSignsIn, SessNumbers, NoSessFault
<1>2. CASE ServerFinds
  BY <1>2, RefreshFields DEF ServerFinds, SessNumbers, NoSessFault
<1>3. CASE ServerRotates
  BY <1>3, MintedMore, RefreshFields DEF ServerRotates, SessNumbers, NoSessFault
<1>4. CASE ServerLogsOut
  BY <1>4, SessFaultsCounted DEF ServerLogsOut, SessNumbers
<1>5. CASE OtherDevice
  BY <1>5, MintedMore, SessFaultsCounted DEF OtherDevice, SessNumbers
<1>6. CASE SignIn
  BY <1>6, SignInFields DEF SignIn, SessNumbers, NoSessFault
<1>7. CASE SignInAnswered
  BY <1>7, SignInFields DEF SignInAnswered, SessNumbers, NoSessFault
<1>8. CASE SignInSaves
  <2>1. CASE si.key <= 3
    <3>1. /\ disk' = [disk EXCEPT ![Keys[si.key]] = si.new]
          /\ si' = [si EXCEPT !.key = si.key + 1]
          /\ UNCHANGED <<hash, minted, mem, launch, rf, clearing, lo, calls, sessFaults>>
      BY <1>8, <2>1 DEF SignInSaves, NoSessFault
    <3>2. si.key \in 1 .. 3 /\ si.key + 1 \in 1 .. 4 /\ si.new \in Tokens
      BY <2>1, SignInFields, KeyMoves DEF SessNumbers
    <3>3. si' \in SignIns
      BY <3>1, <3>2, SignInFields DEF SessNumbers
    <3>4. disk' \in [{"tok", "ses", "ref"} -> Tokens]
      BY <3>1, <3>2, KeysOrdered DEF SessNumbers
    <3> QED
      BY <3>1, <3>3, <3>4 DEF SessNumbers
  <2>2. CASE ~(si.key <= 3)
    BY <1>8, <2>2, NoneUnderWay DEF SignInSaves, SessNumbers, NoSessFault, SignIns
  <2> QED
    BY <2>1, <2>2
<1>9. CASE SignInFails
  BY <1>9, NoneUnderWay, SessFaultsCounted DEF SignInFails, SessNumbers
<1>10. CASE SignOut
  BY <1>10 DEF SignOut, SignsOut, SessNumbers, NoSessFault
<1>11. CASE Clears
  <2>1. /\ disk' = [disk EXCEPT ![GoneKeys[4 - clearing]] = 0] \/ disk' = disk
        /\ clearing' = clearing - 1 \/ clearing' = 0
        /\ SessFault \/ NoSessFault
        /\ UNCHANGED <<hash, minted, mem, launch, rf, si, lo, calls>> /\ clearing > 0
    BY <1>11 DEF Clears
  <2>2. clearing' \in 0 .. 3
    BY <2>1 DEF SessNumbers
  <2>3. disk' \in [{"tok", "ses", "ref"} -> Tokens]
    BY <2>1 DEF SessNumbers
  <2> QED
    BY <2>1, <2>2, <2>3, SessFaultsCounted DEF SessNumbers
<1>12. ASSUME NEW c \in Calls, Gets401(c) PROVE SessNumbers'
  <2>1. /\ calls' = [calls EXCEPT ![c] = "waiting"] \/ calls' = [calls EXCEPT ![c] = "done"]
        /\ rf' = rf \/ rf' = [rf EXCEPT !.at = "posted", !.of = mem]
        /\ mem' = 0 \/ mem' = mem
        /\ clearing' = 3 \/ clearing' = clearing
        /\ lo' = mem \/ lo' = lo
        /\ UNCHANGED <<hash, minted, disk, launch, si, sessFaults>>
    BY <1>12 DEF Gets401, SignsOut, NoSessFault
  <2>2. rf' \in Refreshes
    <3>1. [rf EXCEPT !.at = "posted", !.of = mem] \in Refreshes
      BY DEF SessNumbers, Refreshes
    <3> QED
      BY <2>1, <3>1 DEF SessNumbers
  <2> QED
    BY <2>1, <2>2 DEF SessNumbers
<1>13. CASE RefreshAnswered
  BY <1>13, RefreshFields DEF RefreshAnswered, SessNumbers, NoSessFault
<1>14. CASE RefreshSaves
  <2>1. CASE rf.key <= 3
    <3>1. /\ disk' = [disk EXCEPT ![Keys[rf.key]] = rf.new]
          /\ rf' = [rf EXCEPT !.key = rf.key + 1]
          /\ UNCHANGED <<hash, minted, mem, launch, si, clearing, lo, calls, sessFaults>>
      BY <1>14, <2>1 DEF RefreshSaves, NoSessFault
    <3>2. rf.key \in 1 .. 3 /\ rf.key + 1 \in 1 .. 4 /\ rf.new \in Tokens
      BY <2>1, RefreshFields, KeyMoves DEF SessNumbers
    <3>3. rf' \in Refreshes
      BY <3>1, <3>2, RefreshFields DEF SessNumbers
    <3>4. disk' \in [{"tok", "ses", "ref"} -> Tokens]
      BY <3>1, <3>2, KeysOrdered DEF SessNumbers
    <3> QED
      BY <3>1, <3>3, <3>4 DEF SessNumbers
  <2>2. CASE ~(rf.key <= 3)
    BY <1>14, <2>2, NoneUnderWay DEF RefreshSaves, SessNumbers, NoSessFault, Refreshes, Resolved
  <2> QED
    BY <2>1, <2>2
<1>15. CASE RefreshFails
  <2>1. /\ rf' = NoRefresh /\ calls' = Resolved /\ launch' = "up"
        /\ UNCHANGED <<hash, minted, disk, si>> /\ (SessFault \/ NoSessFault)
    BY <1>15 DEF RefreshFails
  <2>2. /\ clearing' = 3 \/ clearing' = clearing
        /\ mem' = 0 \/ mem' = mem
        /\ lo' = mem \/ lo' = lo
    <3>1. CASE rf.by = "restore"
      BY <1>15, <3>1 DEF RefreshFails
    <3>2. CASE rf.by = "request" /\ clearing = 0
      BY <1>15, <3>2 DEF RefreshFails, SignsOut
    <3>3. CASE rf.by = "request" /\ clearing # 0
      BY <1>15, <3>3 DEF RefreshFails
    <3> QED
      BY <3>1, <3>2, <3>3 DEF SessNumbers, Refreshes
  <2> QED
    BY <2>1, <2>2, NoneUnderWay, SessFaultsCounted DEF SessNumbers, Resolved
<1>16. CASE KillApp
  BY <1>16, NoneUnderWay, SessFaultsCounted DEF KillApp, SessNumbers
<1>17. CASE Launch
  BY <1>17 DEF Launch, SessNumbers, NoSessFault
<1>18. CASE Restore
  <2>1. /\ launch' = launch \/ launch' = "up"
        /\ mem' = mem \/ mem' = disk.ref \/ mem' = disk.ses
        /\ \/ rf' = rf
           \/ rf' = [rf EXCEPT !.at = "posted", !.by = "restore", !.of = disk.ref]
        /\ clearing' = 3 \/ clearing' = clearing
        /\ UNCHANGED <<hash, minted, disk, si, lo, calls, sessFaults>>
    BY <1>18 DEF Restore, NoSessFault
  <2>2. disk.ref \in Tokens /\ disk.ses \in Tokens
    BY DEF SessNumbers
  <2>3. rf' \in Refreshes
    <3>1. [rf EXCEPT !.at = "posted", !.by = "restore", !.of = disk.ref] \in Refreshes
      BY <2>2 DEF SessNumbers, Refreshes
    <3> QED
      BY <2>1, <3>1 DEF SessNumbers
  <2> QED
    BY <2>1, <2>2, <2>3 DEF SessNumbers
<1>19. CASE UNCHANGED sessVars
  BY <1>19 DEF sessVars, SessNumbers
<1> QED
  BY <1>1, <1>2, <1>3, <1>4, <1>5, <1>6, <1>7, <1>8, <1>9, <1>10, <1>11, <1>12, <1>13, <1>14,
     <1>15, <1>16, <1>17, <1>18, <1>19 DEF SessNext, RefreshStep

LEMMA SessFlagsInit == SessInit => SessFlags
BY Zenon DEF SessInit, SessFlags

LEMMA SessFlagsStep == SessFlags /\ [SessNext]_sessVars => SessFlags'
<1> SUFFICES ASSUME SessFlags, [SessNext]_sessVars PROVE SessFlags'
  OBVIOUS
<1>1. /\ bearer' = bearer \/ bearer' = TRUE \/ bearer' = FALSE
      /\ \/ out' = out \/ out' = TRUE \/ out' = FALSE
         \/ out' = (out /\ disk.tok = 0) \/ out' = (out /\ clearing \in {0, 1, 2})
      /\ \/ crossed' = crossed \/ crossed' = (crossed \/ clearing > 0 \/ rf.at # "none")
         \/ crossed' = (crossed \/ si.at # "none" \/ rf.at # "none")
         \/ crossed' = (crossed \/ si.at # "none" \/ FALSE)
  BY Zenon
     DEF SessNext, RefreshStep, sessVars, ServerSignsIn, ServerFinds, ServerRotates, ServerLogsOut,
         OtherDevice, SignIn, SignInAnswered, SignInSaves, SignInFails, SignOut, SignsOut, Clears,
         Gets401, RefreshAnswered, RefreshSaves, RefreshFails, KillApp, Launch, Restore
<1> QED
  BY <1>1, Zenon DEF SessFlags

LEMMA SessTypes == SessSpec => [](SessNumbers /\ SessFlags)
BY SessNumbersInit, SessNumbersStep, SessFlagsInit, SessFlagsStep, PTL DEF SessSpec

\* Sessions, refreshes, sign-ins and tokens keep their types.
THEOREM SessTypeCorrect == SessSpec => []SessTypeOK
<1>1. SessNumbers /\ SessFlags => SessTypeOK
  BY DEF SessNumbers, SessFlags, SessTypeOK, Refreshes, SignIns
<1> QED
  BY <1>1, SessTypes, PTL

-----------------------------------------------------------------------------
(***************************************************************************)
(* Signed out for good.  A sign-out that met nothing under way leaves      *)
(* nothing under way, and deletes the access token first: from then on the *)
(* app restores nothing, refreshes nothing and sends nothing that could    *)
(* meet a 401, killed or not, until a sign-in is answered.                 *)
(***************************************************************************)
Erased == disk.tok = 0 \/ disk.ses = 0

SignedOut ==
  mem = 0 /\ ~bearer /\ rf.at = "none" /\ si.at # "saving" /\ (clearing # 3 => Erased)

OutInv == (launch # "up" => clearing = 0) /\ (out /\ ~crossed => SignedOut)

\* The histories: what once crossed stays so.
LEMMA CrossedStays == [SessNext]_sessVars /\ crossed => crossed'
<1> SUFFICES ASSUME [SessNext]_sessVars, crossed PROVE crossed'
  OBVIOUS
<1>1. \/ crossed' = crossed \/ crossed' = (crossed \/ clearing > 0 \/ rf.at # "none")
      \/ crossed' = (crossed \/ si.at # "none" \/ rf.at # "none")
      \/ crossed' = (crossed \/ si.at # "none" \/ FALSE)
  BY Zenon
     DEF SessNext, RefreshStep, sessVars, ServerSignsIn, ServerFinds, ServerRotates, ServerLogsOut,
         OtherDevice, SignIn, SignInAnswered, SignInSaves, SignInFails, SignOut, SignsOut, Clears,
         Gets401, RefreshAnswered, RefreshSaves, RefreshFails, KillApp, Launch, Restore
<1> QED
  BY <1>1, Zenon

\* What a sign-out does that meets nothing under way.
LEMMA SigningOut ==
  ASSUME SignsOut(rf.at # "none") \/ (SignsOut(FALSE) /\ rf'.at = "none"),
         rf' = rf \/ rf'.at = "none", ~crossed'
  PROVE  mem' = 0 /\ bearer' = FALSE /\ clearing' = 3 /\ rf'.at = "none" /\ si.at = "none"
         /\ (lo' = IF mem # 0 THEN mem ELSE lo)
<1>1. mem' = 0 /\ bearer' = FALSE /\ clearing' = 3 /\ (lo' = IF mem # 0 THEN mem ELSE lo)
  BY DEF SignsOut
<1>2. CASE SignsOut(rf.at # "none")
  <2>1. crossed' = (crossed \/ si.at # "none" \/ rf.at # "none")
    BY <1>2 DEF SignsOut
  <2>2. si.at = "none" /\ rf.at = "none"
    BY <2>1, Zenon
  <2> QED
    BY <1>1, <2>2
<1>3. CASE SignsOut(FALSE) /\ rf'.at = "none"
  <2>1. crossed' = (crossed \/ si.at # "none" \/ FALSE)
    BY <1>3 DEF SignsOut
  <2>2. si.at = "none"
    BY <2>1, Zenon
  <2> QED
    BY <1>1, <1>3, <2>2
<1> QED
  BY <1>2, <1>3

LEMMA SomebodySignsOut ==
  ASSUME SessNumbers, SessFlags, SessNext, out', ~out, ~crossed'
  PROVE  SignedOut' /\ launch' = "up"
<1>0. SignedOut' <=> /\ mem' = 0 /\ ~bearer' /\ rf'.at = "none" /\ si'.at # "saving"
                     /\ (clearing' # 3 => disk'.tok = 0 \/ disk'.ses = 0)
  BY DEF SignedOut, Erased
<1>1. CASE SignOut
  <2>1. SignsOut(rf.at # "none") /\ rf' = rf /\ si' = si /\ launch' = "up"
    BY <1>1 DEF SignOut
  <2> QED
    BY <1>0, <2>1, SigningOut
<1>2. ASSUME NEW c \in Calls, Gets401(c) PROVE SignedOut' /\ launch' = "up"
  <2>1. out' # out
    OBVIOUS
  <2>2. SignsOut(FALSE) /\ rf' = rf /\ rf.at = "none" /\ si' = si /\ launch' = "up"
    BY <1>2, <2>1 DEF Gets401
  <2> QED
    BY <1>0, <2>2, SigningOut
<1>3. CASE RefreshFails
  <2>1. out' # out
    OBVIOUS
  <2>2. rf' = NoRefresh /\ si' = si /\ launch' = "up"
    BY <1>3 DEF RefreshFails
  <2>3. SignsOut(FALSE)
    <3>1. CASE rf.by = "restore"
      BY <1>3, <2>1, <3>1 DEF RefreshFails
    <3>2. CASE rf.by = "request" /\ clearing = 0
      BY <1>3, <3>2 DEF RefreshFails
    <3>3. CASE rf.by = "request" /\ clearing # 0
      BY <1>3, <2>1, <3>3 DEF RefreshFails
    <3> QED
      BY <3>1, <3>2, <3>3 DEF SessNumbers, Refreshes
  <2> QED
    BY <1>0, <2>2, <2>3, SigningOut DEF NoRefresh
<1>4. CASE SignOut \/ RefreshFails \/ \E c \in Calls : Gets401(c)
  BY <1>1, <1>2, <1>3, <1>4
<1>5. CASE ~(SignOut \/ RefreshFails \/ \E c \in Calls : Gets401(c))
  <2>1. \/ out' = out \/ out' = FALSE
        \/ out' = (out /\ disk.tok = 0) \/ out' = (out /\ clearing \in {0, 1, 2})
    BY <1>5, Zenon
       DEF SessNext, RefreshStep, ServerSignsIn, ServerFinds, ServerRotates, ServerLogsOut,
           OtherDevice, SignIn, SignInAnswered, SignInSaves, SignInFails, Clears, RefreshAnswered,
           RefreshSaves, KillApp, Launch, Restore
  <2> QED
    BY <2>1, Zenon
<1> QED
  BY <1>4, <1>5

LEMMA NobodySignsIn ==
  ASSUME SessNumbers, SessFlags, OutInv, SessNext, out, out', ~crossed
  PROVE  SignedOut'
<1>1. SignedOut /\ (launch # "up" => clearing = 0)
  BY DEF OutInv
<1>2. rf \in Refreshes /\ si \in SignIns
  BY DEF SessNumbers
<1> USE DEF SignedOut, Erased
<1>3. CASE ServerSignsIn
  BY <1>1, <1>2, <1>3 DEF ServerSignsIn, SignIns
<1>4. CASE RefreshStep
  BY <1>1, <1>4
     DEF RefreshStep, ServerFinds, ServerRotates, RefreshAnswered, RefreshSaves, RefreshFails
<1>5. CASE ServerLogsOut \/ OtherDevice \/ Launch
  BY <1>1, <1>5 DEF ServerLogsOut, OtherDevice, Launch
<1>6. CASE SignIn
  BY <1>1, <1>2, <1>6 DEF SignIn, SignIns
<1>7. CASE SignInAnswered
  BY <1>7 DEF SignInAnswered
<1>8. CASE SignInSaves
  BY <1>1, <1>8 DEF SignInSaves
<1>9. CASE SignInFails
  BY <1>1, <1>9 DEF SignInFails, NoSignIn
<1>10. CASE SignOut
  BY <1>1, <1>10 DEF SignOut
<1>11. CASE Clears
  <2>1. /\ UNCHANGED <<mem, bearer, rf, si>> /\ clearing \in 1 .. 3
        /\ \/ disk' = [disk EXCEPT ![GoneKeys[4 - clearing]] = 0]
           \/ disk' = disk /\ out' = (out /\ disk.tok = 0)
    <3>1. clearing \in 1 .. 3
      BY <1>11 DEF Clears, SessNumbers
    <3>2. /\ UNCHANGED <<mem, bearer, rf, si>>
          /\ \/ disk' = [disk EXCEPT ![GoneKeys[4 - clearing]] = 0]
             \/ disk' = disk /\ out' = (out /\ disk.tok = 0)
      BY <1>11, Zenon DEF Clears
    <3> QED
      BY <3>1, <3>2, Zenon
  <2>2. disk'.tok = 0 \/ disk'.ses = 0
    <3>1. CASE disk' = [disk EXCEPT ![GoneKeys[4 - clearing]] = 0]
      <4>1. 4 - clearing \in 1 .. 3
        BY <2>1
      <4>2. GoneKeys[4 - clearing] \in {"tok", "ses", "ref"}
        BY <4>1, KeysOrdered
      <4>3. clearing = 3 => GoneKeys[4 - clearing] = "tok"
        BY KeysOrdered
      <4> QED
        BY <1>1, <3>1, <4>2, <4>3 DEF SessNumbers
    <3>2. CASE disk' = disk /\ out' = (out /\ disk.tok = 0)
      <4>1. disk.tok = 0
        BY <3>2, Zenon
      <4> QED
        BY <3>2, <4>1
    <3> QED
      BY <2>1, <3>1, <3>2
  <2> QED
    BY <1>1, <2>1, <2>2
<1>12. ASSUME NEW c \in Calls, Gets401(c) PROVE SignedOut'
  BY <1>1, <1>12 DEF Gets401
<1>13. CASE KillApp
  <2>1. mem' = 0 /\ bearer' = FALSE /\ rf' = NoRefresh /\ si' = NoSignIn /\ disk' = disk
    BY <1>13 DEF KillApp
  <2>2. clearing \in {0, 1, 2}
    <3>1. out' = (out /\ clearing \in {0, 1, 2})
      BY <1>13 DEF KillApp
    <3> QED
      BY <3>1, Zenon
  <2> QED
    BY <1>1, <2>1, <2>2 DEF NoRefresh, NoSignIn
<1>14. CASE Restore
  <2>1. clearing = 0 /\ (disk.tok = 0 \/ disk.ses = 0)
    BY <1>1, <1>14 DEF Restore
  <2> QED
    BY <1>1, <1>14, <2>1 DEF Restore
<1> QED
  BY <1>3, <1>4, <1>5, <1>6, <1>7, <1>8, <1>9, <1>10, <1>11, <1>12, <1>13, <1>14 DEF SessNext

LEMMA ClearingIsUp ==
  ASSUME SessNumbers, launch # "up" => clearing = 0, [SessNext]_sessVars
  PROVE  launch' # "up" => clearing' = 0
<1>1. CASE RefreshFails \/ SignOut \/ RefreshSaves
  BY <1>1 DEF RefreshFails, SignOut, RefreshSaves
<1>2. CASE Clears
  BY <1>2 DEF Clears
<1>3. CASE KillApp \/ Restore \/ Launch
  BY <1>3 DEF KillApp, Restore, Launch
<1>4. ASSUME NEW c \in Calls, Gets401(c) PROVE launch' # "up" => clearing' = 0
  BY <1>4 DEF Gets401
<1>5. ASSUME UNCHANGED <<launch, clearing>> PROVE launch' # "up" => clearing' = 0
  BY <1>5
<1> QED
  BY <1>1, <1>2, <1>3, <1>4, <1>5
     DEF SessNext, RefreshStep, sessVars, ServerSignsIn, ServerFinds, ServerRotates, ServerLogsOut,
         OtherDevice, SignIn, SignInAnswered, SignInSaves, SignInFails, RefreshAnswered

LEMMA OutInvStep == SessNumbers /\ SessFlags /\ OutInv /\ [SessNext]_sessVars => OutInv'
<1> SUFFICES ASSUME SessNumbers, SessFlags, OutInv, [SessNext]_sessVars PROVE OutInv'
  OBVIOUS
<1>1. launch' # "up" => clearing' = 0
  BY ClearingIsUp DEF OutInv
<1>2. ASSUME out', ~crossed' PROVE SignedOut'
  <2>1. ~crossed
    BY <1>2, CrossedStays
  <2>2. CASE UNCHANGED sessVars
    BY <1>2, <2>1, <2>2 DEF sessVars, OutInv, SignedOut, Erased
  <2>3. CASE SessNext
    BY <1>2, <2>1, <2>3, SomebodySignsOut, NobodySignsIn
  <2> QED
    BY <2>2, <2>3
<1> QED
  BY <1>1, <1>2 DEF OutInv

LEMMA OutInvInit == SessInit => OutInv
<1> SUFFICES ASSUME SessInit PROVE OutInv
  OBVIOUS
<1>1. clearing = 0 /\ ~out
  BY Zenon DEF SessInit
<1> QED
  BY <1>1 DEF OutInv

\* A user who signed out while nothing else was under way stays signed out until the next
\* sign-in, also after the app was killed (authStore.ts #135, #148).
THEOREM SignOutIsFinal == SessSpec => []SignedOutStays
<1>1. OutInv => SignedOutStays
  BY DEF OutInv, SignedOut, Erased, SignedOutStays
<1> QED
  BY <1>1, SessNumbersInit, SessNumbersStep, SessFlagsInit, SessFlagsStep, OutInvInit, OutInvStep,
     PTL DEF SessSpec

-----------------------------------------------------------------------------
(***************************************************************************)
(* That the app and the server hold the same token.  As long as nothing    *)
(* fails and a sign-out meets nothing under way: either the user is signed *)
(* in and at most a refresh is under way, or signed out and at most a      *)
(* sign-in is; what is minted is newer than any logout still on its way,   *)
(* which therefore clears nothing that counts; and the key read first by a *)
(* relaunch is written last.                                               *)
(***************************************************************************)
AppAgrees ==
  /\ launch # "dead" /\ (launch = "restoring" => mem = 0 /\ disk.tok = 0 /\ si.at = "none")
  /\ rf.by = "request" /\ rf.at # "refused"
  /\ rf.at # "none" => mem # 0 /\ rf.of = mem
  /\ si.at # "none" => mem = 0
  /\ mem # 0 \/ si.at = "saving" => clearing = 0

ServerAgrees ==
  /\ lo <= minted /\ hash <= minted
  /\ mem # 0 => lo < mem /\ mem <= minted
  /\ mem # 0 /\ rf.at \in {"none", "posted", "found"} => hash = mem
  /\ rf.at \in {"rotated", "saving"} => hash = rf.new /\ mem < rf.new
  /\ si.at \in {"answered", "saving"} => hash = si.new /\ lo < si.new

DiskAgrees ==
  /\ mem # 0 /\ rf.at = "none" => disk.ref = mem
  /\ rf.key = 4 => rf.at = "saving" /\ disk.ref = rf.new
  /\ si.key = 4 => si.at = "saving" /\ disk.ref = si.new

Agrees == AppAgrees /\ ServerAgrees /\ DiskAgrees

AgreeInv == sessFaults = 0 /\ ~crossed => Agrees

LEMMA AgreesStep ==
  ASSUME SessNumbers, SessFlags, Agrees, SessNext, sessFaults = 0, sessFaults' = 0,
         ~crossed, ~crossed'
  PROVE  Agrees'
<1>1. /\ rf \in Refreshes /\ si \in SignIns /\ disk \in [{"tok", "ses", "ref"} -> Tokens]
      /\ {hash, minted, mem, lo, rf.new, rf.of, si.new, disk.ref, disk.tok, disk.ses} \subseteq Nat
      /\ rf.key \in 1 .. 4 /\ si.key \in 1 .. 4
  BY SessBounds DEF SessNumbers, Refreshes, SignIns, Tokens
<1>2. ~SessFault
  BY <1>1 DEF SessFault
<1> USE <1>1, <1>2 DEF Agrees, AppAgrees, ServerAgrees, DiskAgrees
<1>3. CASE ServerSignsIn
  <2>1. /\ si' = [si EXCEPT !.at = "answered", !.new = minted + 1] /\ si.at = "posted"
        /\ minted' = minted + 1 /\ hash' = minted + 1
        /\ UNCHANGED <<mem, disk, launch, rf, clearing, lo>>
    BY <1>3 DEF ServerSignsIn
  <2>2. si'.at = "answered" /\ si'.new = minted + 1 /\ si'.key = si.key
    BY <2>1 DEF SignIns
  <2> QED
    BY <2>1, <2>2
<1>4. CASE ServerFinds
  <2>1. /\ rf.at = "posted" /\ rf' = [rf EXCEPT !.at = "found"]
        /\ UNCHANGED <<hash, minted, mem, disk, launch, si, clearing, lo>>
    BY <1>4 DEF ServerFinds
  <2>2. rf'.at = "found" /\ rf'.by = rf.by /\ rf'.of = rf.of /\ rf'.key = rf.key
    BY <2>1 DEF Refreshes
  <2> QED
    BY <2>1, <2>2
<1>5. CASE ServerRotates
  <2>1. /\ rf.at = "found" /\ rf' = [rf EXCEPT !.at = "rotated", !.new = minted + 1]
        /\ minted' = minted + 1 /\ hash' = minted + 1
        /\ UNCHANGED <<mem, disk, launch, si, clearing, lo>>
    BY <1>5 DEF ServerRotates
  <2>2. /\ rf'.at = "rotated" /\ rf'.by = rf.by /\ rf'.of = rf.of /\ rf'.key = rf.key
        /\ rf'.new = minted + 1
    BY <2>1 DEF Refreshes
  <2> QED
    BY <2>1, <2>2
<1>6. CASE ServerLogsOut
  <2>1. /\ lo' = 0 /\ (hash' = IF hash = lo THEN 0 ELSE hash)
        /\ UNCHANGED <<minted, mem, disk, launch, rf, si, clearing>>
    BY <1>6 DEF ServerLogsOut
  <2> QED
    BY <2>1
<1>7. CASE OtherDevice
  BY <1>7 DEF OtherDevice
<1>8. CASE SignIn
  <2>1. /\ si.at = "none" /\ si' = [si EXCEPT !.at = "posted"] /\ launch = "up" /\ mem = 0
        /\ UNCHANGED <<hash, minted, mem, disk, launch, rf, clearing, lo>>
    BY <1>8 DEF SignIn
  <2>2. si'.at = "posted" /\ si'.key = si.key
    BY <2>1 DEF SignIns
  <2> QED
    BY <2>1, <2>2
<1>9. CASE SignInAnswered
  <2>1. /\ si.at = "answered" /\ si' = [si EXCEPT !.at = "saving"]
        /\ UNCHANGED <<hash, minted, mem, disk, launch, rf, clearing, lo>>
    BY <1>9 DEF SignInAnswered
  <2>2. si'.at = "saving" /\ si'.key = si.key /\ si'.new = si.new
    BY <2>1 DEF SignIns
  <2>3. clearing = 0
    <3>1. crossed' = (crossed \/ clearing > 0 \/ rf.at # "none")
      BY <1>9 DEF SignInAnswered
    <3>2. ~(clearing > 0)
      BY <3>1, Zenon
    <3> QED
      BY <3>2 DEF SessNumbers
  <2> QED
    BY <2>1, <2>2, <2>3
<1>10. CASE SignInSaves
  <2>1. /\ si.at = "saving" /\ UNCHANGED <<hash, minted, launch, rf, clearing, lo>>
    BY <1>10 DEF SignInSaves
  <2>2. CASE si.key <= 3
    <3>1. /\ disk' = [disk EXCEPT ![Keys[si.key]] = si.new]
          /\ si' = [si EXCEPT !.key = si.key + 1] /\ mem' = mem
      BY <1>10, <2>2 DEF SignInSaves
    <3>2. si'.at = "saving" /\ si'.key = si.key + 1 /\ si'.new = si.new
      BY <2>1, <3>1 DEF SignIns
    <3>3. si.key = 3 => disk'.ref = si.new
      BY <3>1, KeysOrdered
    <3>4. rf.at = "none" /\ mem = 0
      BY <2>1
    <3> QED
      BY <2>1, <2>2, <3>1, <3>2, <3>3, <3>4
  <2>3. CASE si.key = 4
    <3>1. mem' = si.new /\ si' = NoSignIn /\ disk' = disk
      BY <1>10, <2>3 DEF SignInSaves
    <3> QED
      BY <2>1, <2>3, <3>1 DEF NoSignIn
  <2> QED
    BY <2>2, <2>3
<1>11. CASE SignInFails
  BY <1>11 DEF SignInFails
<1>12. ASSUME SignsOut(rf.at # "none") \/ (SignsOut(FALSE) /\ rf'.at = "none"),
              rf' = rf \/ rf' = NoRefresh, launch = "up", launch' = "up",
              UNCHANGED <<hash, minted, disk, si>>
       PROVE  Agrees'
  <2>1. /\ mem' = 0 /\ clearing' = 3 /\ rf'.at = "none" /\ si.at = "none"
        /\ (lo' = IF mem # 0 THEN mem ELSE lo)
    <3>1. NoRefresh.at = "none"
      BY DEF NoRefresh
    <3>2. rf' = rf \/ rf'.at = "none"
      BY <1>12, <3>1, Zenon
    <3>3. mem' = 0 /\ bearer' = FALSE /\ clearing' = 3 /\ rf'.at = "none" /\ si.at = "none"
          /\ (lo' = IF mem # 0 THEN mem ELSE lo)
      BY <1>12, <3>2, SigningOut, Zenon
    <3> QED
      BY <3>3
  <2>2. rf'.by = "request" /\ rf'.key # 4
    BY <1>12, <2>1 DEF NoRefresh
  <2> QED
    BY <1>12, <2>1, <2>2
<1>13. CASE SignOut
  BY <1>12, <1>13 DEF SignOut
<1>14. CASE Clears
  <2>1. /\ clearing > 0 /\ clearing' = clearing - 1
        /\ disk' = [disk EXCEPT ![GoneKeys[4 - clearing]] = 0]
        /\ UNCHANGED <<hash, minted, mem, launch, rf, si, lo>>
    BY <1>14 DEF Clears
  <2>2. mem = 0 /\ si.at # "saving" /\ rf.at = "none"
    BY <2>1
  <2>3. disk'.tok = disk.tok \/ disk'.tok = 0
    BY <2>1
  <2> QED
    BY <2>1, <2>2, <2>3
<1>15. ASSUME NEW c \in Calls, Gets401(c) PROVE Agrees'
  <2>1. launch = "up" /\ UNCHANGED <<hash, minted, disk, launch, si>>
    BY <1>15 DEF Gets401
  <2>2. CASE UNCHANGED <<mem, clearing, lo, rf>>
    BY <2>1, <2>2
  <2>3. CASE rf.at = "none" /\ mem # 0 /\ rf' = [rf EXCEPT !.at = "posted", !.of = mem]
             /\ UNCHANGED <<mem, clearing, lo>>
    <3>1. rf'.at = "posted" /\ rf'.of = mem /\ rf'.by = rf.by /\ rf'.key = rf.key
      BY <2>3 DEF Refreshes
    <3> QED
      BY <2>1, <2>3, <3>1
  <2>4. CASE rf.at = "none" /\ rf' = rf /\ SignsOut(FALSE)
    BY <1>12, <2>1, <2>4
  <2> QED
    BY <1>15, <2>2, <2>3, <2>4 DEF Gets401
<1>16. CASE RefreshAnswered
  <2>1. /\ rf.at = "rotated" /\ rf' = [rf EXCEPT !.at = "saving"]
        /\ UNCHANGED <<hash, minted, mem, disk, launch, si, clearing, lo>>
    BY <1>16 DEF RefreshAnswered
  <2>2. /\ rf'.at = "saving" /\ rf'.by = rf.by /\ rf'.of = rf.of /\ rf'.key = rf.key
        /\ rf'.new = rf.new
    BY <2>1 DEF Refreshes
  <2> QED
    BY <2>1, <2>2
<1>17. CASE RefreshSaves
  <2>1. /\ rf.at = "saving" /\ UNCHANGED <<hash, minted, si, clearing, lo>>
    BY <1>17 DEF RefreshSaves
  <2>a. si.at = "none" /\ mem # 0 /\ clearing = 0
    BY <2>1
  <2>2. CASE rf.key <= 3
    <3>1. /\ disk' = [disk EXCEPT ![Keys[rf.key]] = rf.new]
          /\ rf' = [rf EXCEPT !.key = rf.key + 1] /\ UNCHANGED <<mem, launch>>
      BY <1>17, <2>2 DEF RefreshSaves
    <3>2. /\ rf'.at = "saving" /\ rf'.key = rf.key + 1 /\ rf'.new = rf.new /\ rf'.of = rf.of
          /\ rf'.by = rf.by
      BY <2>1, <3>1 DEF Refreshes
    <3>3. rf.key = 3 => disk'.ref = rf.new
      BY <3>1, KeysOrdered
    <3>4. launch # "restoring"
      BY <2>a
    <3> QED
      BY <2>1, <2>2, <2>a, <3>1, <3>2, <3>3, <3>4
  <2>3. CASE rf.key = 4
    <3>1. mem' = rf.new /\ rf' = NoRefresh /\ disk' = disk /\ launch' = "up"
      BY <1>17, <2>3 DEF RefreshSaves
    <3> QED
      BY <2>1, <2>3, <2>a, <3>1 DEF NoRefresh
  <2> QED
    BY <2>2, <2>3
<1>18. CASE RefreshFails
  <2>1. /\ rf.at = "found" /\ rf' = NoRefresh /\ launch' = "up"
        /\ UNCHANGED <<hash, minted, disk, si>>
    BY <1>18 DEF RefreshFails
  <2>2. rf.by = "request" /\ clearing = 0 /\ launch = "up"
    BY <2>1 DEF SessNumbers
  <2>3. SignsOut(FALSE)
    BY <1>18, <2>2 DEF RefreshFails
  <2> QED
    BY <1>12, <2>1, <2>2, <2>3 DEF NoRefresh
<1>19. CASE KillApp
  BY <1>19 DEF KillApp
<1>20. CASE Launch
  BY <1>20 DEF Launch
<1>21. CASE Restore
  <2>1. launch = "restoring" /\ disk.tok = 0
    BY <1>21 DEF Restore
  <2>2. launch' = "up" /\ UNCHANGED <<hash, minted, mem, disk, rf, si, clearing, lo>>
    BY <1>21, <2>1 DEF Restore
  <2> QED
    BY <2>1, <2>2
<1> QED
  BY <1>3, <1>4, <1>5, <1>6, <1>7, <1>8, <1>9, <1>10, <1>11, <1>13, <1>14, <1>15, <1>16, <1>17,
     <1>18, <1>19, <1>20, <1>21 DEF SessNext, RefreshStep

LEMMA AgreeInvStep == SessNumbers /\ SessFlags /\ AgreeInv /\ [SessNext]_sessVars => AgreeInv'
<1> SUFFICES ASSUME SessNumbers, SessFlags, AgreeInv, [SessNext]_sessVars, sessFaults' = 0,
                    ~crossed'
             PROVE  Agrees'
  BY DEF AgreeInv
<1>1. CASE UNCHANGED sessVars
  BY <1>1 DEF sessVars, AgreeInv, Agrees, AppAgrees, ServerAgrees, DiskAgrees
<1>2. CASE SessNext
  <2>1. sessFaults = 0
    <3>1. SessFault \/ NoSessFault
      BY <1>2
         DEF SessNext, RefreshStep, ServerSignsIn, ServerFinds, ServerRotates, ServerLogsOut,
             OtherDevice, SignIn, SignInAnswered, SignInSaves, SignInFails, SignOut, Clears,
             Gets401, RefreshAnswered, RefreshSaves, RefreshFails, KillApp, Launch, Restore
    <3> QED
      BY <3>1, SessFaultsCounted
  <2>2. ~crossed
    BY CrossedStays
  <2> QED
    BY <1>2, <2>1, <2>2, AgreesStep DEF AgreeInv
<1> QED
  BY <1>1, <1>2

LEMMA AgreeInvInit == SessInit => AgreeInv
BY DEF SessInit, AgreeInv, Agrees, AppAgrees, ServerAgrees, DiskAgrees, NoRefresh, NoSignIn

\* Nothing failing, the token the app holds is the one the server accepts and the one a
\* relaunch would find, across refreshes, sign-outs whose logout is late, and new sign-ins
\* (auth/repository.go:116, "can't nuke a newer session").
THEOREM TokensAlwaysAgree == SessSpec => []TokensAgree
<1>1. SessNumbers /\ AgreeInv => TokensAgree
  BY DEF AgreeInv, Agrees, AppAgrees, ServerAgrees, DiskAgrees, TokensAgree
<1> QED
  BY <1>1, SessNumbersInit, SessNumbersStep, SessFlagsInit, SessFlagsStep, AgreeInvInit,
     AgreeInvStep, PTL DEF SessSpec

-----------------------------------------------------------------------------
(***************************************************************************)
(* The components of MCBackground together: a step of one leaves the       *)
(* others as they are, so a behaviour of the three is one of each.         *)
(***************************************************************************)
LEMMA OneMoves ==
  ASSUME [MCNext]_<<detectVars, itemVars, sessVars, part>>
  PROVE  [DetectNext]_detectVars /\ [ItemNext]_itemVars /\ [SessNext]_sessVars /\ part' = part
<1>1. CASE UNCHANGED <<detectVars, itemVars, sessVars, part>>
  BY <1>1
<1>2. CASE Detecting /\ DetectNext /\ UNCHANGED <<itemVars, sessVars, part>>
  BY <1>2
<1>3. CASE part = "items" /\ ItemNext /\ UNCHANGED <<detectVars, sessVars, part>>
  BY <1>3
<1>4. CASE part = "session" /\ SessNext /\ UNCHANGED <<detectVars, itemVars, part>>
  BY <1>4
<1> QED
  BY <1>1, <1>2, <1>3, <1>4 DEF MCNext

\* What is proved of a component holds of it in the composition that the runs check.
THEOREM EachAsAlone == MCSpec => DetectSpec /\ ItemSpec /\ SessSpec
<1>1. MCInit => DetectInit /\ ItemInit /\ SessInit
  BY DEF MCInit
<1> QED
  BY <1>1, OneMoves, PTL DEF MCSpec, DetectSpec, ItemSpec, SessSpec

\* So every variable of the app's detections, the worker's items and the app's session
\* keeps its type.
THEOREM BackgroundTypesCorrect == MCSpec => []BackgroundTypeOK
<1>1. MCInit => part \in Parts
  BY DEF MCInit
<1>2. part \in Parts /\ [MCNext]_<<detectVars, itemVars, sessVars, part>> => (part \in Parts)'
  BY OneMoves
<1>3. MCSpec => [](part \in Parts)
  BY <1>1, <1>2, PTL DEF MCSpec
<1>4. part \in Parts /\ DetectTypeOK /\ ItemTypeOK /\ SessTypeOK => BackgroundTypeOK
  BY DEF BackgroundTypeOK
<1> QED
  BY <1>3, <1>4, EachAsAlone, DetectTypesCorrect, ItemTypeCorrect, SessTypeCorrect, PTL
=============================================================================
