--------------------------- MODULE ErasureProofs ----------------------------
(***************************************************************************)
(* Theorems about Erasure, for every number of saves, days, purges, rows   *)
(* and failed calls.                                                       *)
(***************************************************************************)
EXTENDS Erasure, TLAPS

LEMMA ErasureTypeInit == ErasureInit => ErasureTypeOK
<1> SUFFICES ASSUME ErasureInit PROVE ErasureTypeOK
  OBVIOUS
<1>1. sv \in [Saves -> [at : {"idle", "rendered", "cleared", "done"}, date : Dates]]
  BY DEF ErasureInit
<1>2. pg \in [Purges -> [at : {"idle", "begun", "listed", "wiped", "rest", "budget", "done",
                              "failed"},
                        blobs : SUBSET Saves, before : SUBSET (Saves \cup Rows)]]
  BY DEF ErasureInit
<1>3. user \in BOOLEAN /\ budgetRow \in BOOLEAN
  BY DEF ErasureInit
<1>4. erasureFaults \in 0 .. MaxErasureFaults
  BY ErasureAssumption DEF ErasureInit
<1> QED
  BY <1>1, <1>2, <1>3, <1>4 DEF ErasureInit, ErasureTypeOK

PurgeRecord ==
  [at : {"idle", "begun", "listed", "wiped", "rest", "budget", "done", "failed"},
   blobs : SUBSET Saves, before : SUBSET (Saves \cup Rows)]

LEMMA PurgeRecordChanges ==
  ASSUME NEW r \in PurgeRecord, NEW blobs \in SUBSET Saves
  PROVE  /\ [r EXCEPT !.at = "listed", !.blobs = blobs] \in PurgeRecord
         /\ [r EXCEPT !.blobs = blobs] \in PurgeRecord
         /\ [r EXCEPT !.at = "wiped"] \in PurgeRecord
         /\ [r EXCEPT !.at = "rest"] \in PurgeRecord
BY DEF PurgeRecord

LEMMA ErasureTypeStep == ErasureTypeOK /\ [ErasureNext]_erasureVars => ErasureTypeOK'
<1> SUFFICES ASSUME ErasureTypeOK, [ErasureNext]_erasureVars PROVE ErasureTypeOK'
  OBVIOUS
<1> USE ErasureAssumption
    DEF ErasureTypeOK, ErasureFault, NoErasureFault, SvAt, SaveGoes, PgAt, PurgeGoes,
        Saved, Kept, AllBoards
<1>1. ASSUME NEW s \in Saves, Renders(s) PROVE ErasureTypeOK'
  BY <1>1 DEF Renders
<1>2. ASSUME NEW s \in Saves, ClearsDay(s) PROVE ErasureTypeOK'
  BY <1>2 DEF ClearsDay
<1>3. ASSUME NEW s \in Saves, InsertsBoard(s) PROVE ErasureTypeOK'
  <2>1. sv' \in [Saves -> [at : {"idle", "rendered", "cleared", "done"}, date : Dates]]
    <3>1. sv' = [sv EXCEPT ![s].at = "done"]
      BY <1>3 DEF InsertsBoard
    <3> QED
      BY <3>1
  <2>2. boards' \in [Dates -> SUBSET Saves]
    <3>1. boards[sv[s].date] \cup {s} \in SUBSET Saves
      OBVIOUS
    <3>2. boards' = boards \/ boards' = [boards EXCEPT ![sv[s].date] = boards[sv[s].date] \cup {s}]
      BY <1>3 DEF InsertsBoard
    <3> QED
      BY <3>1, <3>2
  <2>3. erasureFaults' \in 0 .. MaxErasureFaults
    BY <1>3 DEF InsertsBoard
  <2> QED
    BY <1>3, <2>1, <2>2, <2>3 DEF InsertsBoard
<1>4. ASSUME NEW r \in Rows, WritesRow(r) PROVE ErasureTypeOK'
  BY <1>4 DEF WritesRow
<1>5. ASSUME NEW p \in Purges, BeginsPurge(p) PROVE ErasureTypeOK'
  BY <1>5 DEF BeginsPurge
<1>6. ASSUME NEW p \in Purges, ListsBoards(p) PROVE ErasureTypeOK'
  <2>1. AllBoards \in SUBSET Saves
    BY DEF AllBoards
  <2>2. pg' = [pg EXCEPT ![p] = [pg[p] EXCEPT !.at = "listed", !.blobs = AllBoards]]
    BY <1>6, Zenon DEF ListsBoards
  <2> HIDE DEF AllBoards
  <2>3. pg' \in [Purges -> PurgeRecord]
    <3>1. [pg[p] EXCEPT !.at = "listed", !.blobs = AllBoards] \in PurgeRecord
      <4>1. pg[p] \in PurgeRecord
        BY DEF PurgeRecord
      <4> QED
        BY <2>1, <4>1, PurgeRecordChanges
    <3> QED
      BY <2>2, <3>1 DEF PurgeRecord
  <2> QED
    BY <1>6, <2>3 DEF ListsBoards, PurgeRecord
<1>7. ASSUME NEW p \in Purges, DeletesBlob(p) PROVE ErasureTypeOK'
  <2>1. PICK x \in pg[p].blobs :
          /\ pg' = [pg EXCEPT ![p].blobs = pg[p].blobs \ {x}]
          /\ images' \subseteq images
          /\ erasureFaults' = erasureFaults
               \/ (erasureFaults < MaxErasureFaults /\ erasureFaults' = erasureFaults + 1)
    BY <1>7 DEF DeletesBlob
  <2>2. pg' \in [Purges -> PurgeRecord]
    <3>1. pg[p].blobs \ {x} \in SUBSET Saves
      OBVIOUS
    <3>2. [pg[p] EXCEPT !.blobs = pg[p].blobs \ {x}] \in PurgeRecord
      <4>1. pg[p] \in PurgeRecord
        BY DEF PurgeRecord
      <4> QED
        BY <3>1, <4>1, PurgeRecordChanges
    <3>3. pg' = [pg EXCEPT ![p] = [pg[p] EXCEPT !.blobs = pg[p].blobs \ {x}]]
      BY <2>1, Zenon
    <3> QED
      BY <3>2, <3>3 DEF PurgeRecord
  <2> QED
    BY <1>7, <2>1, <2>2 DEF DeletesBlob, PurgeRecord
<1>8. ASSUME NEW p \in Purges, DeletesBoards(p) PROVE ErasureTypeOK'
  <2>1. boards' \in [Dates -> SUBSET Saves]
    BY <1>8 DEF DeletesBoards
  <2>2. pg' = [pg EXCEPT ![p] = [pg[p] EXCEPT !.at = "wiped"]]
    BY <1>8, Zenon DEF DeletesBoards
  <2>3. pg[p] \in PurgeRecord
    BY DEF PurgeRecord
  <2>4. [pg[p] EXCEPT !.at = "wiped"] \in PurgeRecord
    BY <2>3, PurgeRecordChanges
  <2>5. pg' \in [Purges -> PurgeRecord]
    BY <2>2, <2>4 DEF PurgeRecord
  <2> QED
    BY <1>8, <2>1, <2>5 DEF DeletesBoards, PurgeRecord
<1>9. ASSUME NEW p \in Purges, DeletesRows(p) PROVE ErasureTypeOK'
  <2>1. rows' \in [Rows -> {"unwritten", "kept", "deleted"}]
    BY <1>9 DEF DeletesRows
  <2>2. pg' = [pg EXCEPT ![p] = [pg[p] EXCEPT !.at = "rest"]]
    BY <1>9, Zenon DEF DeletesRows
  <2>3. pg[p] \in PurgeRecord
    BY DEF PurgeRecord
  <2>4. [pg[p] EXCEPT !.at = "rest"] \in PurgeRecord
    BY <2>3, PurgeRecordChanges
  <2>5. pg' \in [Purges -> PurgeRecord]
    BY <2>2, <2>4 DEF PurgeRecord
  <2> QED
    BY <1>9, <2>1, <2>5 DEF DeletesRows, PurgeRecord
<1>10. ASSUME NEW p \in Purges, DeletesBudget(p) PROVE ErasureTypeOK'
  BY <1>10 DEF DeletesBudget
<1>11. ASSUME NEW p \in Purges, DeletesUser(p) PROVE ErasureTypeOK'
  <2>1. user' \in BOOLEAN /\ erased' \subseteq Saves \cup Rows
    BY <1>11 DEF DeletesUser
  <2>2. pg' \in [Purges -> [at : {"idle", "begun", "listed", "wiped", "rest", "budget", "done",
                               "failed"},
                         blobs : SUBSET Saves, before : SUBSET (Saves \cup Rows)]]
    BY <1>11 DEF DeletesUser
  <2> QED
    BY <1>11, <2>1, <2>2 DEF DeletesUser
<1>12. ASSUME NEW p \in Purges, PurgeFails(p) PROVE ErasureTypeOK'
  BY <1>12 DEF PurgeFails
<1>13. CASE SetsBudget
  BY <1>13 DEF SetsBudget
<1>14. CASE UNCHANGED erasureVars
  BY <1>14 DEF erasureVars
<1> QED
  BY <1>1, <1>2, <1>3, <1>4, <1>5, <1>6, <1>7, <1>8, <1>9, <1>10, <1>11, <1>12, <1>13,
     <1>14 DEF ErasureNext

(***************************************************************************)
(* Saves, purges and what is stored keep their types.                      *)
(***************************************************************************)
THEOREM ErasureTypeCorrect == ErasureSpec => []ErasureTypeOK
  BY ErasureTypeInit, ErasureTypeStep, PTL DEF ErasureSpec

-----------------------------------------------------------------------------
(***************************************************************************)
(* What is settled stays so: a board in the database is of a save that has *)
(* ended, and so is all that a purge found when it began.                  *)
(***************************************************************************)
Done(x)    == x \in Saves => sv[x].at = "done"
Written(x) == x \in Rows => rows[x] # "unwritten"

SettledStays ==
  /\ \A d \in Dates, s \in Saves : s \in boards[d] => sv[s].at = "done"
  /\ \A p \in Purges : \A x \in pg[p].before : Done(x) /\ Written(x)
  /\ \A x \in erased : Done(x) /\ Written(x)

(***************************************************************************)
(* What a purge has deleted does not come back, which is why the user may  *)
(* go last.                                                                *)
(***************************************************************************)
DeletedStaysDeleted ==
  /\ \A p \in Purges, d \in Dates :
       pg[p].at \in {"wiped", "rest", "budget"} => boards[d] \cap pg[p].before = {}
  /\ \A p \in Purges, r \in Rows :
       pg[p].at \in {"rest", "budget"} /\ r \in pg[p].before => rows[r] # "kept"
  /\ ~user => /\ \A d \in Dates : boards[d] \cap erased = {}
              /\ \A r \in Rows : r \in erased => rows[r] # "kept"

(***************************************************************************)
(* While nothing fails, an image of a save that has ended belongs to a     *)
(* board, to one that was replaced, or to a save beside a purge; a purge   *)
(* that has listed the boards still knows those images it has to delete.   *)
(***************************************************************************)
Lost(s) == s \in replaced \/ s \in raced

OverlapsAreRaced ==
  \A p \in Purges, s \in Saves : Purging(p) /\ sv[s].at \in {"rendered", "cleared"} => s \in raced

ImagesAreKnown ==
  erasureFaults = 0 =>
    /\ \A s \in Saves : sv[s].at = "done" /\ s \in images /\ ~Lost(s) =>
         \E d \in Dates : s \in boards[d]
    /\ \A p \in Purges, s \in Saves, d \in Dates :
         pg[p].at = "listed" /\ s \in boards[d] /\ s \in images /\ ~Lost(s) => s \in pg[p].blobs
    /\ \A p \in Purges, s \in Saves :
         pg[p].at \in {"wiped", "rest", "budget"} /\ s \in pg[p].before /\ s \in images => Lost(s)
    /\ \A s \in Saves : ~user /\ s \in erased /\ s \in images => Lost(s)

ErasureIInv ==
  ErasureTypeOK /\ SettledStays /\ DeletedStaysDeleted /\ OverlapsAreRaced /\ ImagesAreKnown

LEMMA ErasureIInvInit == ErasureInit => ErasureIInv
<1> SUFFICES ASSUME ErasureInit PROVE ErasureIInv
  OBVIOUS
<1> QED
  BY ErasureTypeInit
     DEF ErasureInit, ErasureIInv, SettledStays, DeletedStaysDeleted, OverlapsAreRaced,
         ImagesAreKnown, Purging

LEMMA SettledStep == ErasureIInv /\ [ErasureNext]_erasureVars => SettledStays'
<1> SUFFICES ASSUME ErasureIInv, [ErasureNext]_erasureVars PROVE SettledStays'
  OBVIOUS
<1> USE ErasureAssumption
    DEF ErasureIInv, ErasureTypeOK, ErasureFault, NoErasureFault, SvAt, SaveGoes, PgAt, PurgeGoes,
        SettledStays, Done, Written, Saved, Kept
<1>1. ASSUME NEW s \in Saves, Renders(s) PROVE SettledStays'
  BY <1>1 DEF Renders
<1>2. ASSUME NEW s \in Saves, ClearsDay(s) PROVE SettledStays'
  <2>1. \A x \in Saves : sv[x].at = "done" => sv'[x].at = "done"
    <3>1. \/ sv' = [sv EXCEPT ![s].at = "cleared"] /\ sv[s].at = "rendered"
          \/ sv' = [sv EXCEPT ![s].at = "done"]
      BY <1>2 DEF ClearsDay
    <3> QED
      BY <3>1
  <2>2. \A d \in Dates : boards'[d] \subseteq boards[d]
    <3>1. boards' = boards \/ boards' = [boards EXCEPT ![sv[s].date] = {}]
      BY <1>2 DEF ClearsDay
    <3> QED
      BY <3>1
  <2>3. rows' = rows /\ pg' = pg /\ erased' = erased
    BY <1>2 DEF ClearsDay
  <2> QED
    BY <2>1, <2>2, <2>3
<1>3. ASSUME NEW s \in Saves, InsertsBoard(s) PROVE SettledStays'
  <2>0. sv' = [sv EXCEPT ![s].at = "done"]
    BY <1>3 DEF InsertsBoard
  <2>1. \A x \in Saves : sv[x].at = "done" => sv'[x].at = "done"
    BY <2>0
  <2>2. sv'[s].at = "done"
    BY <2>0
  <2>3. \A d \in Dates, x \in Saves : x \in boards'[d] => x \in boards[d] \/ x = s
    <3>1. boards' = boards
          \/ boards' = [boards EXCEPT ![sv[s].date] = boards[sv[s].date] \cup {s}]
      BY <1>3 DEF InsertsBoard
    <3> QED
      BY <3>1
  <2>4. UNCHANGED <<rows, pg, erased>>
    BY <1>3 DEF InsertsBoard
  <2> QED
    BY <2>1, <2>2, <2>3, <2>4
<1>4. ASSUME NEW r \in Rows, WritesRow(r) PROVE SettledStays'
  BY <1>4 DEF WritesRow
<1>5. ASSUME NEW p \in Purges, BeginsPurge(p) PROVE SettledStays'
  BY <1>5 DEF BeginsPurge
<1>6. ASSUME NEW p \in Purges, ListsBoards(p) PROVE SettledStays'
  BY <1>6 DEF ListsBoards
<1>7. ASSUME NEW p \in Purges, DeletesBlob(p) PROVE SettledStays'
  BY <1>7 DEF DeletesBlob
<1>8. ASSUME NEW p \in Purges, DeletesBoards(p) PROVE SettledStays'
  BY <1>8 DEF DeletesBoards
<1>9. ASSUME NEW p \in Purges, DeletesRows(p) PROVE SettledStays'
  BY <1>9 DEF DeletesRows
<1>10. ASSUME NEW p \in Purges, DeletesBudget(p) PROVE SettledStays'
  BY <1>10 DEF DeletesBudget
<1>11. ASSUME NEW p \in Purges, DeletesUser(p) PROVE SettledStays'
  BY <1>11 DEF DeletesUser
<1>12. ASSUME NEW p \in Purges, PurgeFails(p) PROVE SettledStays'
  BY <1>12 DEF PurgeFails
<1>13. CASE SetsBudget
  BY <1>13 DEF SetsBudget
<1>14. CASE UNCHANGED erasureVars
  BY <1>14 DEF erasureVars
<1> QED
  BY <1>1, <1>2, <1>3, <1>4, <1>5, <1>6, <1>7, <1>8, <1>9, <1>10, <1>11, <1>12, <1>13,
     <1>14 DEF ErasureNext

LEMMA DeletedStep == ErasureIInv /\ [ErasureNext]_erasureVars => DeletedStaysDeleted'
<1> SUFFICES ASSUME ErasureIInv, [ErasureNext]_erasureVars PROVE DeletedStaysDeleted'
  OBVIOUS
<1> USE ErasureAssumption
    DEF ErasureIInv, ErasureTypeOK, ErasureFault, NoErasureFault, SvAt, SaveGoes, PgAt, PurgeGoes,
        DeletedStaysDeleted, SettledStays, Done, Written, Saved, Kept
<1>1. ASSUME NEW s \in Saves, Renders(s) PROVE DeletedStaysDeleted'
  BY <1>1 DEF Renders
<1>2. ASSUME NEW s \in Saves, ClearsDay(s) PROVE DeletedStaysDeleted'
  BY <1>2 DEF ClearsDay
<1>3. ASSUME NEW s \in Saves, InsertsBoard(s) PROVE DeletedStaysDeleted'
  BY <1>3 DEF InsertsBoard
<1>4. ASSUME NEW r \in Rows, WritesRow(r) PROVE DeletedStaysDeleted'
  BY <1>4 DEF WritesRow
<1>5. ASSUME NEW p \in Purges, BeginsPurge(p) PROVE DeletedStaysDeleted'
  BY <1>5 DEF BeginsPurge
<1>6. ASSUME NEW p \in Purges, ListsBoards(p) PROVE DeletedStaysDeleted'
  BY <1>6 DEF ListsBoards
<1>7. ASSUME NEW p \in Purges, DeletesBlob(p) PROVE DeletedStaysDeleted'
  BY <1>7 DEF DeletesBlob
<1>8. ASSUME NEW p \in Purges, DeletesBoards(p) PROVE DeletedStaysDeleted'
  BY <1>8 DEF DeletesBoards
<1>9. ASSUME NEW p \in Purges, DeletesRows(p) PROVE DeletedStaysDeleted'
  BY <1>9 DEF DeletesRows
<1>10. ASSUME NEW p \in Purges, DeletesBudget(p) PROVE DeletedStaysDeleted'
  BY <1>10 DEF DeletesBudget
<1>11. ASSUME NEW p \in Purges, DeletesUser(p) PROVE DeletedStaysDeleted'
  BY <1>11 DEF DeletesUser
<1>12. ASSUME NEW p \in Purges, PurgeFails(p) PROVE DeletedStaysDeleted'
  BY <1>12 DEF PurgeFails
<1>13. CASE SetsBudget
  BY <1>13 DEF SetsBudget
<1>14. CASE UNCHANGED erasureVars
  BY <1>14 DEF erasureVars
<1> QED
  BY <1>1, <1>2, <1>3, <1>4, <1>5, <1>6, <1>7, <1>8, <1>9, <1>10, <1>11, <1>12, <1>13,
     <1>14 DEF ErasureNext

LEMMA OverlapsStep == ErasureIInv /\ [ErasureNext]_erasureVars => OverlapsAreRaced'
<1> SUFFICES ASSUME ErasureIInv, [ErasureNext]_erasureVars PROVE OverlapsAreRaced'
  OBVIOUS
<1> USE ErasureAssumption
    DEF ErasureIInv, ErasureTypeOK, ErasureFault, NoErasureFault, SvAt, SaveGoes, PgAt, PurgeGoes,
        OverlapsAreRaced, Purging
<1>1. ASSUME NEW s \in Saves, Renders(s) PROVE OverlapsAreRaced'
  BY <1>1 DEF Renders
<1>2. ASSUME NEW s \in Saves, ClearsDay(s) PROVE OverlapsAreRaced'
  BY <1>2 DEF ClearsDay
<1>3. ASSUME NEW s \in Saves, InsertsBoard(s) PROVE OverlapsAreRaced'
  BY <1>3 DEF InsertsBoard
<1>4. ASSUME NEW r \in Rows, WritesRow(r) PROVE OverlapsAreRaced'
  BY <1>4 DEF WritesRow
<1>5. ASSUME NEW p \in Purges, BeginsPurge(p) PROVE OverlapsAreRaced'
  <2>1. CASE user
    <3>1. sv' = sv /\ raced' = raced \cup {s \in Saves : ~SvAt(s, "idle") /\ ~SvAt(s, "done")}
      BY <1>5, <2>1 DEF BeginsPurge
    <3> QED
      BY <3>1
  <2>2. CASE ~user
    <3>1. sv' = sv /\ raced' = raced /\ pg' = [pg EXCEPT ![p].at = "done"]
      BY <1>5, <2>2 DEF BeginsPurge
    <3> QED
      BY <3>1
  <2> QED
    BY <2>1, <2>2
<1>6. ASSUME NEW p \in Purges, ListsBoards(p) PROVE OverlapsAreRaced'
  BY <1>6 DEF ListsBoards
<1>7. ASSUME NEW p \in Purges, DeletesBlob(p) PROVE OverlapsAreRaced'
  BY <1>7 DEF DeletesBlob
<1>8. ASSUME NEW p \in Purges, DeletesBoards(p) PROVE OverlapsAreRaced'
  BY <1>8 DEF DeletesBoards
<1>9. ASSUME NEW p \in Purges, DeletesRows(p) PROVE OverlapsAreRaced'
  BY <1>9 DEF DeletesRows
<1>10. ASSUME NEW p \in Purges, DeletesBudget(p) PROVE OverlapsAreRaced'
  BY <1>10 DEF DeletesBudget
<1>11. ASSUME NEW p \in Purges, DeletesUser(p) PROVE OverlapsAreRaced'
  BY <1>11 DEF DeletesUser
<1>12. ASSUME NEW p \in Purges, PurgeFails(p) PROVE OverlapsAreRaced'
  BY <1>12 DEF PurgeFails
<1>13. CASE SetsBudget
  BY <1>13 DEF SetsBudget
<1>14. CASE UNCHANGED erasureVars
  BY <1>14 DEF erasureVars
<1> QED
  BY <1>1, <1>2, <1>3, <1>4, <1>5, <1>6, <1>7, <1>8, <1>9, <1>10, <1>11, <1>12, <1>13,
     <1>14 DEF ErasureNext

LEMMA ImagesStep == ErasureIInv /\ [ErasureNext]_erasureVars => ImagesAreKnown'
<1> SUFFICES ASSUME ErasureIInv, [ErasureNext]_erasureVars PROVE ImagesAreKnown'
  OBVIOUS
<1> USE ErasureAssumption
    DEF ErasureIInv, ErasureTypeOK, ErasureFault, NoErasureFault, SvAt, SaveGoes, PgAt, PurgeGoes,
        ImagesAreKnown, SettledStays, OverlapsAreRaced, Done, Written, Lost, Purging, Saved, Kept,
        AllBoards
<1>1. ASSUME NEW s \in Saves, Renders(s) PROVE ImagesAreKnown'
  BY <1>1 DEF Renders
<1>2. ASSUME NEW s \in Saves, ClearsDay(s) PROVE ImagesAreKnown'
  <2> SUFFICES ASSUME erasureFaults' = 0 PROVE ImagesAreKnown'
    OBVIOUS
  <2>1. /\ erasureFaults = 0 /\ UNCHANGED <<user, pg, erased, images, raced>>
        /\ boards' = [boards EXCEPT ![sv[s].date] = {}]
        /\ replaced' = replaced \cup boards[sv[s].date]
    BY <1>2 DEF ClearsDay
  <2>2. \A x \in Saves : sv'[x].at = "done" => sv[x].at = "done"
    BY <1>2, <2>1 DEF ClearsDay
  <2>3. \A d \in Dates, x \in Saves : x \in boards[d] => x \in boards'[d] \/ x \in replaced'
    BY <2>1
  <2>4. \A d \in Dates, x \in Saves : x \in boards'[d] => x \in boards[d]
    BY <2>1
  <2>5. \A x \in Saves : x \in replaced => x \in replaced'
    BY <2>1
  <2> QED
    BY <2>1, <2>2, <2>3, <2>4, <2>5
<1>3. ASSUME NEW s \in Saves, InsertsBoard(s) PROVE ImagesAreKnown'
  <2> SUFFICES ASSUME erasureFaults' = 0 PROVE ImagesAreKnown'
    OBVIOUS
  <2>1. /\ erasureFaults = 0 /\ UNCHANGED <<user, pg, erased, images, raced, replaced>>
        /\ boards' = [boards EXCEPT ![sv[s].date] = @ \cup {s}] /\ sv[s].date \in Dates
    BY <1>3 DEF InsertsBoard
  <2>2. \A x \in Saves : sv'[x].at = "done" => sv[x].at = "done" \/ x = s
    BY <1>3 DEF InsertsBoard
  <2>3. s \in boards'[sv[s].date]
    BY <2>1
  <2>4. \A d \in Dates, x \in Saves : x \in boards[d] => x \in boards'[d]
    BY <2>1
  <2>5. \A d \in Dates, x \in Saves : x \in boards'[d] => x \in boards[d] \/ x = s
    BY <2>1
  <2>6. \A p \in Purges : pg[p].at = "listed" => s \in raced
    BY <1>3 DEF InsertsBoard
  <2> QED
    BY <2>1, <2>2, <2>3, <2>4, <2>5, <2>6
<1>4. ASSUME NEW r \in Rows, WritesRow(r) PROVE ImagesAreKnown'
  BY <1>4 DEF WritesRow
<1>5. ASSUME NEW p \in Purges, BeginsPurge(p) PROVE ImagesAreKnown'
  <2>1. UNCHANGED <<user, boards, images, sv, erased, replaced, erasureFaults>>
    BY <1>5 DEF BeginsPurge
  <2>2. \A x \in Saves : x \in raced => x \in raced'
    BY <1>5 DEF BeginsPurge
  <2>3. /\ pg'[p].at \in {"begun", "done"} /\ \A q \in Purges \ {p} : pg'[q] = pg[q]
    BY <1>5 DEF BeginsPurge
  <2> QED
    BY <2>1, <2>2, <2>3
<1>6. ASSUME NEW p \in Purges, ListsBoards(p) PROVE ImagesAreKnown'
  BY <1>6 DEF ListsBoards
<1>7. ASSUME NEW p \in Purges, DeletesBlob(p) PROVE ImagesAreKnown'
  BY <1>7 DEF DeletesBlob
<1>8. ASSUME NEW p \in Purges, DeletesBoards(p) PROVE ImagesAreKnown'
  BY <1>8 DEF DeletesBoards
<1>9. ASSUME NEW p \in Purges, DeletesRows(p) PROVE ImagesAreKnown'
  BY <1>9 DEF DeletesRows
<1>10. ASSUME NEW p \in Purges, DeletesBudget(p) PROVE ImagesAreKnown'
  BY <1>10 DEF DeletesBudget
<1>11. ASSUME NEW p \in Purges, DeletesUser(p) PROVE ImagesAreKnown'
  BY <1>11 DEF DeletesUser
<1>12. ASSUME NEW p \in Purges, PurgeFails(p) PROVE ImagesAreKnown'
  BY <1>12 DEF PurgeFails
<1>13. CASE SetsBudget
  BY <1>13 DEF SetsBudget
<1>14. CASE UNCHANGED erasureVars
  BY <1>14 DEF erasureVars
<1> QED
  BY <1>1, <1>2, <1>3, <1>4, <1>5, <1>6, <1>7, <1>8, <1>9, <1>10, <1>11, <1>12, <1>13,
     <1>14 DEF ErasureNext

(***************************************************************************)
(* Once the user is gone, what was settled when that purge began is gone   *)
(* for good, whatever failed, was retried or ran beside it.                *)
(***************************************************************************)
THEOREM ErasureIsFinal == ErasureSpec => []ErasedIsGone
<1>1. ErasureIInv /\ [ErasureNext]_erasureVars => ErasureIInv'
  BY ErasureTypeStep, SettledStep, DeletedStep, OverlapsStep, ImagesStep DEF ErasureIInv
<1>2. ErasureIInv => ErasedIsGone
  BY DEF ErasureIInv, ErasureTypeOK, DeletedStaysDeleted, ImagesAreKnown, Lost, ErasedIsGone,
         AllBoards, Kept
<1> QED
  BY <1>1, <1>2, ErasureIInvInit, PTL DEF ErasureSpec
=============================================================================
