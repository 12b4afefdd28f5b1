--------------------------- MODULE RecordsProofs ----------------------------
(***************************************************************************)
(* Theorems about FillerClaims, for every number of claims, rejections and *)
(* failed calls; about Listings, for every set of rows, size of pages and  *)
(* number of changes; about OutfitBatches, for every wardrobe, whatever    *)
(* models propose; and about the components of MCRecords together.         *)
(***************************************************************************)
EXTENDS MCRecords, AdminProofs, GenerationProofs, ErasureProofs, FiniteSetTheorems,
        SequenceTheorems, TLAPS

-----------------------------------------------------------------------------
(* FillerClaims. *)

LEMMA ClaimTypeInit == ClaimInit => ClaimTypeOK
<1> SUFFICES ASSUME ClaimInit PROVE ClaimTypeOK
  OBVIOUS
<1>1. rejected \in BOOLEAN /\ overlapped \in BOOLEAN
  BY DEF ClaimInit
<1>2. claimFaults \in 0 .. MaxClaimFaults
  BY ClaimAssumption DEF ClaimInit
<1>3. seeds \subseteq Claims /\ rejects \subseteq Rejecters /\ since \subseteq Claims
  BY DEF ClaimInit
<1>4. claim \in [Claims -> [at : {"none", "ok", "failed"} \cup InClaim,
                           id : Claims \cup {NoItem}]]
  BY DEF ClaimInit
<1>5. \A c \in Claims : claim[c].at \in {"reload", "unreject", "ok"} => claim[c].id # NoItem
  BY DEF ClaimInit
<1> QED
  BY <1>1, <1>2, <1>3, <1>4, <1>5 DEF ClaimTypeOK

LEMMA ClaimTypeStep == ClaimTypeOK /\ [ClaimNext]_claimVars => ClaimTypeOK'
<1> SUFFICES ASSUME ClaimTypeOK, [ClaimNext]_claimVars PROVE ClaimTypeOK'
  OBVIOUS
<1> USE ClaimAssumption
    DEF ClaimTypeOK, InClaim, Copying, ClaimFault, NoClaimFault, Goes
<1>1. ASSUME NEW c \in Claims, Lookup(c) PROVE ClaimTypeOK'
  <2>1. overlapped' \in BOOLEAN
    BY <1>1, Zenon DEF Lookup
  <2>2. seeds' = seeds /\ rejected' = rejected /\ rejects' = rejects
    BY <1>1 DEF Lookup
  <2>3. claimFaults' \in 0 .. MaxClaimFaults /\ since' \subseteq Claims
    BY <1>1 DEF Lookup
  <2>4. claim' \in [Claims -> [at : {"none", "ok", "failed"} \cup InClaim,
                              id : Claims \cup {NoItem}]]
    BY <1>1 DEF Lookup
  <2>5. \A d \in Claims :
          claim'[d].at \in {"reload", "unreject", "ok"} => claim'[d].id # NoItem
    BY <1>1 DEF Lookup
  <2> QED
    BY <2>1, <2>2, <2>3, <2>4, <2>5, Zenon
<1>2. ASSUME NEW c \in Claims, Copy(c) PROVE ClaimTypeOK'
  BY <1>2 DEF Copy
<1>3. ASSUME NEW c \in Claims, CountSeeded(c) PROVE ClaimTypeOK'
  BY <1>3 DEF CountSeeded
<1>4. ASSUME NEW c \in Claims, Reload(c) PROVE ClaimTypeOK'
  BY <1>4 DEF Reload
<1>5. ASSUME NEW c \in Claims, Unreject(c) PROVE ClaimTypeOK'
  <2>1. rejected' \in BOOLEAN
    BY <1>5, Zenon DEF Unreject
  <2>2. claimFaults' \in 0 .. MaxClaimFaults /\ UNCHANGED <<seeds, overlapped>>
    BY <1>5 DEF Unreject
  <2>3. rejects' \subseteq Rejecters /\ since' \subseteq Claims
    BY <1>5 DEF Unreject
  <2>4. claim' \in [Claims -> [at : {"none", "ok", "failed"} \cup InClaim,
                              id : Claims \cup {NoItem}]]
    BY <1>5 DEF Unreject
  <2>5. \A d \in Claims :
          claim'[d].at \in {"reload", "unreject", "ok"} => claim'[d].id # NoItem
    BY <1>5 DEF Unreject
  <2> QED
    BY <2>1, <2>2, <2>3, <2>4, <2>5, Zenon
<1>6. ASSUME NEW r \in Rejecters, Reject(r) PROVE ClaimTypeOK'
  <2>1. rejected' \in BOOLEAN
    BY <1>6, Zenon DEF Reject
  <2>2. claimFaults' \in 0 .. MaxClaimFaults /\ UNCHANGED <<seeds, overlapped>>
    <3>1. claimFaults' = claimFaults
            \/ (claimFaults < MaxClaimFaults /\ claimFaults' = claimFaults + 1)
      BY <1>6, Zenon DEF Reject
    <3> QED
      BY <1>6, <3>1 DEF Reject
  <2>3. rejects' \subseteq Rejecters /\ since' \subseteq Claims
    BY <1>6 DEF Reject
  <2>4. claim' \in [Claims -> [at : {"none", "ok", "failed"} \cup InClaim,
                              id : Claims \cup {NoItem}]]
    BY <1>6 DEF Reject
  <2>5. \A d \in Claims :
          claim'[d].at \in {"reload", "unreject", "ok"} => claim'[d].id # NoItem
    BY <1>6 DEF Reject
  <2> QED
    BY <2>1, <2>2, <2>3, <2>4, <2>5, Zenon
<1>7. ASSUME NEW i \in Claims, DeleteClaimed(i) PROVE ClaimTypeOK'
  BY <1>7 DEF DeleteClaimed
<1>8. CASE UNCHANGED claimVars
  BY <1>8 DEF claimVars
<1> QED
  BY <1>1, <1>2, <1>3, <1>4, <1>5, <1>6, <1>7, <1>8 DEF ClaimNext, ClaimStep

(***************************************************************************)
(* The claims, the copies, the rejections and the counted faults keep      *)
(* their types.                                                            *)
(***************************************************************************)
THEOREM ClaimTypeCorrect == ClaimSpec => []ClaimTypeOK
  BY ClaimTypeInit, ClaimTypeStep, PTL DEF ClaimSpec

-----------------------------------------------------------------------------
(***************************************************************************)
(* OneItemPerClaim is not inductive: a claim that is about to copy relies  *)
(* on what its lookup saw.  As long as no lookup missed beside another     *)
(* copy, one claim at most is copying, and there is nothing for it to      *)
(* duplicate until it has.                                                 *)
(***************************************************************************)
CopyingAlone ==
  ~overlapped =>
    /\ \A c, d \in Claims : claim[c].at \in Copying /\ claim[d].at \in Copying => c = d
    /\ \A c \in Claims : claim[c].at = "copy" => seeds = {}
    /\ \A i, j \in seeds : i = j

ClaimIInv == ClaimTypeOK /\ CopyingAlone /\ OwnedNotRejected

LEMMA ClaimIInvInit == ClaimInit => ClaimIInv
  BY ClaimTypeInit DEF ClaimInit, ClaimIInv, CopyingAlone, OwnedNotRejected, Copying

LEMMA CopyingAloneStep == ClaimIInv /\ [ClaimNext]_claimVars => CopyingAlone'
<1> SUFFICES ASSUME ClaimIInv, [ClaimNext]_claimVars PROVE CopyingAlone'
  OBVIOUS
<1> USE DEF ClaimIInv, ClaimTypeOK, CopyingAlone, Copying, InClaim, Goes
<1>1. ASSUME NEW c \in Claims, Lookup(c) PROVE CopyingAlone'
  <2>1. CASE claim'[c].at # "copy"
    BY <1>1, <2>1 DEF Lookup
  <2>2. CASE claim'[c].at = "copy"
    <3>1. overlapped' = (overlapped \/ \E d \in Claims : claim[d].at \in Copying)
      BY <1>1, <2>2 DEF Lookup
    <3>2. ~overlapped' => ~overlapped /\ \A d \in Claims : claim[d].at \notin Copying
      BY <3>1, Zenon
    <3>3. seeds = {} /\ seeds' = seeds /\ claim' = [claim EXCEPT ![c].at = "copy"]
      BY <1>1, <2>2 DEF Lookup
    <3> QED
      BY <3>2, <3>3
  <2> QED
    BY <2>1, <2>2
<1>2. ASSUME NEW c \in Claims, Copy(c) PROVE CopyingAlone'
  BY <1>2 DEF Copy
<1>3. ASSUME NEW c \in Claims, CountSeeded(c) PROVE CopyingAlone'
  BY <1>3 DEF CountSeeded
<1>4. ASSUME NEW c \in Claims, Reload(c) PROVE CopyingAlone'
  BY <1>4 DEF Reload
<1>5. ASSUME NEW c \in Claims, Unreject(c) PROVE CopyingAlone'
  BY <1>5 DEF Unreject
<1>6. ASSUME NEW r \in Rejecters, Reject(r) PROVE CopyingAlone'
  BY <1>6 DEF Reject
<1>7. ASSUME NEW i \in Claims, DeleteClaimed(i) PROVE CopyingAlone'
  BY <1>7 DEF DeleteClaimed
<1>8. CASE UNCHANGED claimVars
  BY <1>8 DEF claimVars
<1> QED
  BY <1>1, <1>2, <1>3, <1>4, <1>5, <1>6, <1>7, <1>8 DEF ClaimNext, ClaimStep

\* A claim only ends well by clearing the rejection, and only a rejection, after
\* which no claim is counted, brings one.
LEMMA OwnedNotRejectedStep == ClaimIInv /\ [ClaimNext]_claimVars => OwnedNotRejected'
<1> SUFFICES ASSUME ClaimIInv, [ClaimNext]_claimVars PROVE OwnedNotRejected'
  OBVIOUS
<1> USE ClaimAssumption
    DEF ClaimIInv, ClaimTypeOK, OwnedNotRejected, Copying, InClaim, Goes, ClaimFault,
        NoClaimFault
<1>1. ASSUME NEW c \in Claims, Lookup(c) PROVE OwnedNotRejected'
  BY <1>1 DEF Lookup
<1>2. ASSUME NEW c \in Claims, Copy(c) PROVE OwnedNotRejected'
  BY <1>2 DEF Copy
<1>3. ASSUME NEW c \in Claims, CountSeeded(c) PROVE OwnedNotRejected'
  BY <1>3 DEF CountSeeded
<1>4. ASSUME NEW c \in Claims, Reload(c) PROVE OwnedNotRejected'
  BY <1>4 DEF Reload
<1>5. ASSUME NEW c \in Claims, Unreject(c) PROVE OwnedNotRejected'
  BY <1>5 DEF Unreject
<1>6. ASSUME NEW r \in Rejecters, Reject(r) PROVE OwnedNotRejected'
  BY <1>6 DEF Reject
<1>7. ASSUME NEW i \in Claims, DeleteClaimed(i) PROVE OwnedNotRejected'
  BY <1>7 DEF DeleteClaimed
<1>8. CASE UNCHANGED claimVars
  BY <1>8 DEF claimVars
<1> QED
  BY <1>1, <1>2, <1>3, <1>4, <1>5, <1>6, <1>7, <1>8 DEF ClaimNext, ClaimStep

LEMMA AtMostOne ==
  ASSUME NEW S, IsFiniteSet(S), \A i, j \in S : i = j
  PROVE  Cardinality(S) <= 1
<1>1. CASE S = {}
  BY <1>1, FS_EmptySet
<1>2. CASE S # {}
  <2>1. PICK i \in S : TRUE
    BY <1>2
  <2>2. S = {i}
    BY <2>1
  <2> QED
    BY <2>2, FS_Singleton
<1> QED
  BY <1>1, <1>2

(***************************************************************************)
(* Claims of one default that do not overlap leave one copy of it, and a   *)
(* claim that succeeded leaves no older rejection, for any number of       *)
(* claims and however many calls failed.                                   *)
(***************************************************************************)
THEOREM ClaimsKeepAgreeing == ClaimSpec => []ClaimsAgree
<1>1. ClaimIInv /\ [ClaimNext]_claimVars => ClaimIInv'
  BY ClaimTypeStep, CopyingAloneStep, OwnedNotRejectedStep DEF ClaimIInv
<1>2. ClaimIInv => ClaimsAgree
  <2> SUFFICES ASSUME ClaimIInv, ~overlapped PROVE Cardinality(seeds) <= 1
    BY DEF ClaimIInv, ClaimsAgree, OneItemPerClaim
  <2>1. IsFiniteSet(seeds)
    BY ClaimAssumption, FS_Subset DEF ClaimIInv, ClaimTypeOK
  <2> QED
    BY <2>1, AtMostOne DEF ClaimIInv, CopyingAlone
<1> QED
  BY <1>1, <1>2, ClaimIInvInit, PTL DEF ClaimSpec

-----------------------------------------------------------------------------
(***************************************************************************)
(* Listings.  First, what a sorted page is: rows numbered by how many come *)
(* before them are in order, each once, because the order is total.  Then  *)
(* what a page adds to a walk, by a cursor and by an offset.  Last, that   *)
(* changes between two pages leave what was shown where it was.            *)
(***************************************************************************)
\* Numbers are well-founded, because the finite sets 0 .. t are.
LEMMA Least ==
  ASSUME NEW T, T \subseteq Nat, T # {}
  PROVE  Min(T) \in T /\ \A t \in T : Min(T) <= t
<1> DEFINE F == {0 .. t : t \in T}
<1>1. F \subseteq FiniteSubsetsOf(Nat)
  <2> SUFFICES ASSUME NEW t \in T PROVE 0 .. t \subseteq Nat /\ IsFiniteSet(0 .. t)
    BY DEF FiniteSubsetsOf
  <2>1. t \in Nat /\ t \in Int /\ 0 \in Int
    OBVIOUS
  <2> QED
    BY <2>1, FS_Interval
<1>2. F # {}
  OBVIOUS
<1>3. PICK least \in F : \A f \in F : <<f, least>> \notin StrictSubsetOrdering(Nat)
  <2> HIDE DEF F
  <2> QED
    BY <1>1, <1>2, FS_StrictSubsetOrderingWellFounded, WFMin
<1>4. PICK x \in T : least = 0 .. x
  BY <1>3
<1>5. ASSUME NEW y \in T PROVE x <= y
  <2> SUFFICES ASSUME y < x PROVE FALSE
    OBVIOUS
  <2>1. x \in Nat /\ y \in Nat
    OBVIOUS
  <2>2. 0 .. y \subseteq 0 .. x /\ x \in 0 .. x /\ x \notin 0 .. y
    BY <2>1
  <2>3. 0 .. y \in SUBSET Nat /\ 0 .. x \in SUBSET Nat
    BY <2>1
  <2>4. <<0 .. y, 0 .. x>> \in StrictSubsetOrdering(Nat)
    BY <2>2, <2>3 DEF StrictSubsetOrdering
  <2>5. 0 .. y \in F
    OBVIOUS
  <2> QED
    BY <2>4, <2>5, <1>3, <1>4
<1> QED
  BY <1>5 DEF Min

LEMMA Greatest ==
  ASSUME NEW n \in Nat, NEW T, T \subseteq 0 .. n, T # {}
  PROVE  Max(T) \in T /\ \A t \in T : t <= Max(T)
<1> DEFINE U == {n - t : t \in T}
<1>1. \A t \in T : n - t \in Nat
  OBVIOUS
<1>2. U \subseteq Nat /\ U # {}
  BY <1>1
<1>3. Min(U) \in U /\ \A u \in U : Min(U) <= u
  <2> HIDE DEF U
  <2> QED
    BY <1>2, Least
<1>4. PICK m \in T : Min(U) = n - m
  BY <1>3
<1>5. ASSUME NEW t \in T PROVE t <= m
  <2>1. n - t \in U
    OBVIOUS
  <2>2. n - m <= n - t
    BY <2>1, <1>3, <1>4
  <2>3. t \in Nat /\ m \in Nat /\ n \in Nat
    OBVIOUS
  <2> HIDE DEF U
  <2> QED
    BY <2>2, <2>3
<1>6. \A t \in T : m >= t
  <2>1. \A t \in T : t \in Nat /\ m \in Nat
    OBVIOUS
  <2> QED
    BY <1>5, <2>1
<1>7. Max(T) \in T /\ \A t \in T : Max(T) >= t
  BY <1>6 DEF Max
<1> QED
  <2>1. \A t \in T : t \in Nat
    OBVIOUS
  <2> QED
    BY <1>7, <2>1

OrderOf(R, S) ==
  /\ \A x \in S : <<x, x>> \notin R
  /\ \A x, y \in S : x = y \/ <<x, y>> \in R \/ <<y, x>> \in R
  /\ \A x, y, z \in S : <<x, y>> \in R /\ <<y, z>> \in R => <<x, z>> \in R

\* The i-th is one with i - 1 before it, if there is one.
RankedBy(q, R, S) ==
  /\ q = [i \in 1 .. Cardinality(S) |-> q[i]]
  /\ \A i \in 1 .. Cardinality(S), x \in S :
       Cardinality({y \in S : <<y, x>> \in R}) = i - 1
         => q[i] \in S /\ Cardinality({y \in S : <<y, q[i]>> \in R}) = i - 1

\* Elements that are numbered by how many come before them are in order, each once.
LEMMA Ranking ==
  ASSUME NEW S, NEW R, NEW q, IsFiniteSet(S), OrderOf(R, S), RankedBy(q, R, S)
  PROVE  /\ Cardinality(S) \in Nat /\ q \in [1 .. Cardinality(S) -> S]
         /\ \A i, j \in 1 .. Cardinality(S) : i < j => <<q[i], q[j]>> \in R
         /\ \A x \in S : \E i \in 1 .. Cardinality(S) : q[i] = x
<1> USE DEF OrderOf, RankedBy
<1> DEFINE n == Cardinality(S)
           Before(x) == {y \in S : <<y, x>> \in R}
           f == [x \in S |-> Cardinality(Before(x))]
<1>1. n \in Nat
  BY FS_CardinalityType
<1>2. ASSUME NEW x \in S
      PROVE  IsFiniteSet(Before(x)) /\ Cardinality(Before(x)) \in Nat /\ Cardinality(Before(x)) < n
  <2>1. Before(x) \subseteq S /\ x \notin Before(x)
    OBVIOUS
  <2> HIDE DEF Before
  <2>2. IsFiniteSet(Before(x)) /\ Cardinality(Before(x)) <= n /\ Cardinality(Before(x)) # n
    BY <2>1, FS_Subset
  <2> QED
    BY <2>2, <1>1, FS_CardinalityType
<1>3. ASSUME NEW x \in S, NEW y \in S, <<x, y>> \in R
      PROVE  Cardinality(Before(x)) < Cardinality(Before(y))
  <2>1. Before(x) \subseteq Before(y) /\ x \in Before(y) /\ x \notin Before(x)
    BY <1>3
  <2>2. IsFiniteSet(Before(x)) /\ IsFiniteSet(Before(y))
        /\ Cardinality(Before(x)) \in Nat /\ Cardinality(Before(y)) \in Nat
    BY <1>2
  <2> HIDE DEF Before
  <2>3. Cardinality(Before(x)) <= Cardinality(Before(y))
        /\ Cardinality(Before(x)) # Cardinality(Before(y))
    BY <2>1, <2>2, FS_Subset
  <2> QED
    BY <2>2, <2>3
<1>4. f \in Injection(S, 0 .. n - 1)
  <2>1. f \in [S -> 0 .. n - 1]
    <3> SUFFICES ASSUME NEW x \in S PROVE Cardinality(Before(x)) \in 0 .. n - 1
      OBVIOUS
    <3> HIDE DEF Before, n
    <3> QED
      BY <1>1, <1>2
  <2>2. ASSUME NEW x \in S, NEW y \in S, f[x] = f[y] PROVE x = y
    <3>1. Cardinality(Before(x)) = Cardinality(Before(y))
      BY <2>2
    <3>2. Cardinality(Before(x)) \in Nat
      BY <1>2
    <3> HIDE DEF Before
    <3>3. <<x, y>> \notin R /\ <<y, x>> \notin R
      BY <3>1, <3>2, <1>3
    <3> QED
      BY <3>3
  <2> HIDE DEF f
  <2> QED
    BY <2>1, <2>2 DEF Injection, IsInjective
<1>5. IsFiniteSet(0 .. n - 1) /\ Cardinality(0 .. n - 1) = n
  <2>1. PICK m \in Int : m = n - 1
    BY <1>1
  <2> HIDE DEF n
  <2>2. IsFiniteSet(0 .. m) /\ Cardinality(0 .. m) = IF 0 > m THEN 0 ELSE m - 0 + 1
    <3>1. 0 \in Int /\ m \in Int
      BY <2>1
    <3> QED
      BY <3>1, FS_Interval
  <2>3. (IF 0 > m THEN 0 ELSE m - 0 + 1) = n
    BY <1>1, <2>1
  <2> QED
    BY <2>1, <2>2, <2>3
<1>6. ASSUME NEW i \in 1 .. n PROVE \E x \in S : Cardinality(Before(x)) = i - 1
  <2>1. f \in Surjection(S, 0 .. n - 1)
    <3> HIDE DEF f
    <3> QED
      BY <1>4, <1>5, FS_Injection
  <2>2. \A k \in 0 .. n - 1 : \E x \in S : f[x] = k
    <3> HIDE DEF f, n
    <3> QED
      BY <2>1 DEF Surjection
  <2>3. i - 1 \in 0 .. n - 1
    BY <1>1
  <2> QED
    BY <2>2, <2>3
<1>7. ASSUME NEW i \in 1 .. n PROVE q[i] \in S /\ Cardinality(Before(q[i])) = i - 1
  BY <1>6, <1>7
<1>8. ASSUME NEW i \in 1 .. n, NEW j \in 1 .. n, i < j PROVE <<q[i], q[j]>> \in R
  <2>1. q[i] \in S /\ q[j] \in S /\ Cardinality(Before(q[i])) = i - 1 /\ Cardinality(Before(q[j])) = j - 1
    BY <1>7
  <2> HIDE DEF Before, n
  <2>2. Cardinality(Before(q[i])) # Cardinality(Before(q[j]))
        /\ ~(Cardinality(Before(q[j])) < Cardinality(Before(q[i])))
    BY <2>1, <1>1, <1>8
  <2>3. q[i] # q[j] /\ <<q[j], q[i]>> \notin R
    BY <2>1, <2>2, <1>3
  <2> QED
    BY <2>1, <2>3
<1>9. ASSUME NEW x \in S PROVE \E i \in 1 .. n : q[i] = x
  <2> DEFINE i == Cardinality(Before(x)) + 1
  <2>1. i \in 1 .. n /\ i - 1 = Cardinality(Before(x))
    <3> HIDE DEF Before, n
    <3> QED
      BY <1>1, <1>2
  <2>2. q[i] \in S /\ Cardinality(Before(q[i])) = Cardinality(Before(x))
    <3> HIDE DEF i, Before
    <3> QED
      BY <2>1, <1>7
  <2>3. <<x, q[i]>> \notin R /\ <<q[i], x>> \notin R
    <3>1. Cardinality(Before(x)) \in Nat
      BY <1>2
    <3>2. ASSUME <<x, q[i]>> \in R PROVE FALSE
      <4>1. Cardinality(Before(x)) < Cardinality(Before(q[i]))
        <5> HIDE DEF i, Before
        <5> QED
          BY <2>2, <1>3, <3>2
      <4> HIDE DEF i, Before
      <4> QED
        BY <2>2, <3>1, <4>1
    <3>3. ASSUME <<q[i], x>> \in R PROVE FALSE
      <4>1. Cardinality(Before(q[i])) < Cardinality(Before(x))
        <5> HIDE DEF i, Before
        <5> QED
          BY <2>2, <1>3, <3>3
      <4> HIDE DEF i, Before
      <4> QED
        BY <2>2, <3>1, <4>1
    <3> QED
      BY <3>2, <3>3
  <2> HIDE DEF i
  <2> QED
    BY <2>1, <2>2, <2>3
<1>10. q \in [1 .. n -> S]
  BY <1>7
<1> QED
  BY <1>1, <1>8, <1>9, <1>10

LEMMA ListBounds ==
  /\ PageSize \in Nat /\ PageSize >= 1 /\ PageCap \in Nat /\ PageCap >= 1
  /\ LastTime \in Nat /\ LastTime >= 1 /\ ScanCap \in Nat /\ MaxListChanges \in Nat
  /\ ListRows \subseteq Int /\ IsFiniteSet(ListRows) /\ Start.key = LastTime + 1 /\ Start.id = 0
BY ListAssumption DEF Start

LEMMA ListingKinds ==
  ASSUME NEW l \in Listings
  PROVE  \/ l.cursor = "compound" /\ l.sort \in {"created", "updated"}
         \/ l.cursor = "id" /\ l.sort \in {"created", "id"}
         \/ l.cursor = "last" /\ l.sort = "last"
         \/ l.cursor = "offset" /\ l.sort = "count"
BY DEF Listings, FindItems, FindMoodboards, ListTraces, UsersBySignup, UsersByActivity,
       UsersByCount, ListWardrobe, ListMoodboards, ListOutfitBatches, ListAudit, ListEvalRuns,
       ListTrials, ListSessions

Timed == times \in [ListRows -> SUBSET (1 .. LastTime)]
Cursors == [key : Int, id : ListRows \cup {0}]

LEMMA TimesOfRow ==
  ASSUME Timed, NEW r \in There
  PROVE  /\ r \in ListRows /\ r \in Int /\ times[r] \subseteq 1 .. LastTime /\ times[r] # {}
         /\ Min(times[r]) \in times[r] /\ Max(times[r]) \in times[r]
         /\ \A t \in times[r] : t \in Nat /\ Min(times[r]) <= t /\ t <= Max(times[r])
         /\ Cardinality(Recent(r)) \in 0 .. LastTime
<1>1. r \in ListRows /\ r \in Int /\ times[r] \subseteq 1 .. LastTime /\ times[r] # {}
  BY ListBounds DEF Timed, There
<1>2. times[r] \subseteq Nat /\ times[r] \subseteq 0 .. LastTime
  BY <1>1, ListBounds
<1>3. IsFiniteSet(1 .. LastTime) /\ Cardinality(1 .. LastTime) = LastTime
  <2>1. 1 \in Int /\ LastTime \in Int /\ LastTime >= 1
    BY ListBounds
  <2> QED
    BY <2>1, FS_Interval
<1>4. Cardinality(Recent(r)) \in Nat /\ Cardinality(Recent(r)) <= LastTime
  <2>1. Recent(r) \subseteq 1 .. LastTime
    BY <1>1 DEF Recent
  <2> QED
    BY <1>3, <2>1, FS_Subset, FS_CardinalityType
<1> QED
  BY <1>1, <1>2, <1>4, Least, Greatest, ListBounds

\* The times a session sorts by: those before the cursor.
LEMMA LastBefore ==
  ASSUME Timed, NEW r \in There, NEW c \in Cursors, \E t \in times[r] : t < c.key
  PROVE  LET m == Max({t \in times[r] : t < c.key})
         IN  m \in times[r] /\ m < c.key /\ \A t \in times[r] : t < c.key => t <= m
<1>1. {t \in times[r] : t < c.key} \subseteq 0 .. LastTime
  BY TimesOfRow, ListBounds
<1>2. {t \in times[r] : t < c.key} # {}
  OBVIOUS
<1> QED
  BY <1>1, <1>2, Greatest, ListBounds

LEMMA AfterLast ==
  ASSUME Timed, NEW l \in Listings, NEW c \in Cursors, NEW r \in There, l.cursor = "last",
         After(l, c, r)
  PROVE  \E t \in times[r] : t < c.key
<1>1. CASE c = Start
  BY <1>1, TimesOfRow, ListBounds
<1>2. CASE c # Start
  BY <1>2 DEF After
<1> QED
  BY <1>1, <1>2

LEMMA KeyIsNumber ==
  ASSUME Timed, NEW l \in Listings, NEW c \in Cursors, NEW r \in There,
         l.sort = "last" => After(l, c, r)
  PROVE  KeyOf(l, c, r) \in Int /\ (l.sort # "id" => KeyOf(l, c, r) <= LastTime)
<1>1. CASE l.sort = "created"
  BY <1>1, TimesOfRow DEF KeyOf
<1>2. CASE l.sort = "updated"
  BY <1>2, TimesOfRow DEF KeyOf
<1>3. CASE l.sort = "count"
  BY <1>3, TimesOfRow, ListBounds DEF KeyOf
<1>4. CASE l.sort = "id"
  BY <1>4, TimesOfRow DEF KeyOf
<1>5. CASE l.sort = "last"
  <2>1. l.cursor = "last"
    BY <1>5, ListingKinds
  <2>2. \E t \in times[r] : t < c.key
    BY <1>5, <2>1, AfterLast
  <2> QED
    BY <1>5, <2>2, LastBefore, TimesOfRow DEF KeyOf
<1> QED
  BY <1>1, <1>2, <1>3, <1>4, <1>5, ListingKinds

\* A page is cut from the rows in the order of the listing, each of them once.
LEMMA SortedIsSorted ==
  ASSUME Timed, NEW l \in Listings, NEW c \in Cursors, NEW up \in BOOLEAN,
         NEW these \in SUBSET There, \A r \in these : KeyOf(l, c, r) \in Int
  PROVE  LET q == Sorted(l, c, up, these)
         IN  /\ q \in Seq(these) /\ Len(q) = Cardinality(these) /\ Cardinality(these) \in Nat
             /\ \A i, j \in 1 .. Len(q) : i < j => Earlier(l, c, up, q[i], q[j])
             /\ \A r \in these : \E i \in 1 .. Len(q) : q[i] = r
             /\ IsInjective(q)
<1> DEFINE R == {p \in these \X these : Earlier(l, c, up, p[1], p[2])}
           q == Sorted(l, c, up, these)
<1>1. IsFiniteSet(these) /\ these \subseteq ListRows
  <2>1. these \subseteq ListRows
    BY DEF There
  <2> QED
    BY <2>1, ListBounds, FS_Subset
<1>2. \A r, s \in these : <<r, s>> \in R <=> Earlier(l, c, up, r, s)
  OBVIOUS
<1>3. RankedBy(q, R, these)
  <2> DEFINE B(r) == {s \in these : Earlier(l, c, up, s, r)}
  <2>1. q = [i \in 1 .. Cardinality(these) |-> CHOOSE r \in these : Cardinality(B(r)) = i - 1]
    BY DEF Sorted
  <2>2. \A r \in these : B(r) = {s \in these : <<s, r>> \in R}
    BY <1>2
  <2> HIDE DEF R, q, B
  <2>3. q = [i \in 1 .. Cardinality(these) |-> q[i]]
    BY <2>1
  <2>4. ASSUME NEW i \in 1 .. Cardinality(these), NEW r \in these, Cardinality(B(r)) = i - 1
        PROVE  q[i] \in these /\ Cardinality(B(q[i])) = i - 1
    BY <2>1, <2>4
  <2> QED
    BY <2>2, <2>3, <2>4 DEF RankedBy
<1>4. \A r \in these : r \in Int /\ KeyOf(l, c, r) \in Int /\ Min(times[r]) \in Int
  BY TimesOfRow
<1>5. \A r \in these : ~Earlier(l, c, up, r, r)
  BY <1>4 DEF Earlier, Newer
<1>6. \A r, s \in these : r = s \/ Earlier(l, c, up, r, s) \/ Earlier(l, c, up, s, r)
  BY <1>4 DEF Earlier, Newer
<1>7. \A r, s, t \in these : Earlier(l, c, up, r, s) /\ Earlier(l, c, up, s, t)
                              => Earlier(l, c, up, r, t)
  BY <1>4 DEF Earlier, Newer
<1> HIDE DEF R, q
<1>8. /\ Cardinality(these) \in Nat /\ q \in [1 .. Cardinality(these) -> these]
      /\ \A i, j \in 1 .. Cardinality(these) : i < j => <<q[i], q[j]>> \in R
      /\ \A r \in these : \E i \in 1 .. Cardinality(these) : q[i] = r
  <2>1. \A r \in these : <<r, r>> \notin R
    BY <1>2, <1>5
  <2>2. \A r, s \in these : r = s \/ <<r, s>> \in R \/ <<s, r>> \in R
    BY <1>2, <1>6
  <2>3. \A r, s, t \in these : <<r, s>> \in R /\ <<s, t>> \in R => <<r, t>> \in R
    BY <1>2, <1>7
  <2>4. OrderOf(R, these)
    BY <2>1, <2>2, <2>3 DEF OrderOf
  <2> QED
    BY <1>1, <1>3, <2>4, Ranking
<1>9. q \in Seq(these) /\ Len(q) = Cardinality(these)
  BY <1>8
<1>10. \A i, j \in 1 .. Len(q) : i < j => Earlier(l, c, up, q[i], q[j])
  BY <1>2, <1>8, <1>9
<1>11. IsInjective(q)
  <2> SUFFICES ASSUME NEW i \in 1 .. Len(q), NEW j \in 1 .. Len(q), q[i] = q[j] PROVE i = j
    BY <1>9 DEF IsInjective
  <2>1. q[i] \in these /\ Len(q) \in Nat
    BY <1>8, <1>9
  <2>2. ~(i < j) /\ ~(j < i)
    BY <1>5, <1>10, <2>1
  <2> QED
    BY <2>1, <2>2
<1> QED
  BY <1>8, <1>9, <1>10, <1>11 DEF q

LEMMA ConcatSet ==
  ASSUME NEW S, NEW s \in Seq(S), NEW t \in Seq(S)
  PROVE  s \o t \in Seq(S) /\ ToSet(s \o t) = ToSet(s) \cup ToSet(t)
<1>1. /\ s \o t \in Seq(S) /\ Len(s \o t) = Len(s) + Len(t)
      /\ \A i \in 1 .. Len(s) : (s \o t)[i] = s[i]
      /\ \A i \in 1 .. Len(t) : (s \o t)[Len(s) + i] = t[i]
  OBVIOUS
<1>2. ASSUME NEW i \in 1 .. Len(s) + Len(t) PROVE (s \o t)[i] \in ToSet(s) \cup ToSet(t)
  <2>1. CASE i \in 1 .. Len(s)
    BY <1>1, <2>1 DEF ToSet
  <2>2. CASE i \notin 1 .. Len(s)
    <3>1. i - Len(s) \in 1 .. Len(t) /\ Len(s) + (i - Len(s)) = i
      BY <2>2
    <3> QED
      BY <1>1, <3>1 DEF ToSet
  <2> QED
    BY <2>1, <2>2
<1>3. ASSUME NEW i \in 1 .. Len(s) PROVE s[i] \in ToSet(s \o t)
  BY <1>1 DEF ToSet
<1>4. ASSUME NEW i \in 1 .. Len(t) PROVE t[i] \in ToSet(s \o t)
  <2>1. Len(s) + i \in 1 .. Len(s \o t)
    BY <1>1
  <2> QED
    BY <1>1, <2>1 DEF ToSet
<1>5. ASSUME NEW x \in ToSet(s \o t) PROVE x \in ToSet(s) \cup ToSet(t)
  <2>1. PICK i \in DOMAIN (s \o t) : (s \o t)[i] = x
    BY DEF ToSet
  <2>2. i \in 1 .. Len(s) + Len(t)
    BY <1>1
  <2> QED
    BY <1>2, <2>1, <2>2
<1>6. ToSet(s) \subseteq ToSet(s \o t) /\ ToSet(t) \subseteq ToSet(s \o t)
  <2>1. ASSUME NEW x \in ToSet(s) PROVE x \in ToSet(s \o t)
    <3>1. PICK i \in 1 .. Len(s) : s[i] = x
      BY DEF ToSet
    <3> QED
      BY <1>3, <3>1
  <2>2. ASSUME NEW x \in ToSet(t) PROVE x \in ToSet(s \o t)
    <3>1. PICK i \in 1 .. Len(t) : t[i] = x
      BY DEF ToSet
    <3> QED
      BY <1>4, <3>1
  <2> QED
    BY <2>1, <2>2
<1> QED
  BY <1>1, <1>5, <1>6

\* Rows of P that are shown once, then those of a page.
OnceOf(s, P) == \A i, j \in DOMAIN s : s[i] = s[j] /\ s[i] \in P => i = j

LEMMA ConcatOnce ==
  ASSUME NEW S, NEW P, NEW s \in Seq(S), NEW t \in Seq(S), OnceOf(s, P), OnceOf(t, P),
         ToSet(s) \cap ToSet(t) \cap P = {}
  PROVE  OnceOf(s \o t, P)
<1>1. /\ Len(s \o t) = Len(s) + Len(t) /\ DOMAIN (s \o t) = 1 .. Len(s \o t)
      /\ \A i \in 1 .. Len(s \o t) : (s \o t)[i] = IF i <= Len(s) THEN s[i] ELSE t[i - Len(s)]
  OBVIOUS
<1>2. SUFFICES ASSUME NEW i \in 1 .. Len(s \o t), NEW j \in 1 .. Len(s \o t),
                      (s \o t)[i] = (s \o t)[j], (s \o t)[i] \in P, i <= j
               PROVE  i = j
  <2>1. SUFFICES ASSUME NEW i \in 1 .. Len(s \o t), NEW j \in 1 .. Len(s \o t),
                        (s \o t)[i] = (s \o t)[j], (s \o t)[i] \in P
                 PROVE  i = j
    BY <1>1 DEF OnceOf
  <2>2. i <= j \/ j <= i
    OBVIOUS
  <2> QED
    BY <2>1, <2>2
<1>3. \A k \in 1 .. Len(s) : s[k] \in ToSet(s)
  BY DEF ToSet
<1>4. \A k \in 1 .. Len(t) : t[k] \in ToSet(t)
  BY DEF ToSet
<1>5. CASE j <= Len(s)
  <2>1. i \in 1 .. Len(s) /\ j \in 1 .. Len(s) /\ s[i] = s[j] /\ s[i] \in P
    BY <1>1, <1>2, <1>5
  <2> QED
    BY <2>1 DEF OnceOf
<1>6. CASE i > Len(s)
  <2>1. i - Len(s) \in 1 .. Len(t) /\ j - Len(s) \in 1 .. Len(t) /\ t[i - Len(s)] = t[j - Len(s)]
        /\ t[i - Len(s)] \in P
    BY <1>1, <1>2, <1>6
  <2>2. i - Len(s) = j - Len(s)
    BY <2>1 DEF OnceOf
  <2> QED
    BY <2>2
<1>7. CASE i <= Len(s) /\ j > Len(s)
  <2>1. i \in 1 .. Len(s) /\ j - Len(s) \in 1 .. Len(t) /\ s[i] = t[j - Len(s)] /\ s[i] \in P
    BY <1>1, <1>2, <1>7
  <2> QED
    BY <2>1, <1>3, <1>4
<1> QED
  BY <1>5, <1>6, <1>7

-----------------------------------------------------------------------------
Walks ==
  [listing : Listings, at : {"on", "done", "cut"}, pages : 0 .. PageCap, cursor : Cursors,
   shown : Seq(ListRows), steady : SUBSET ListRows, home : Seq(ListRows),
   placed : SUBSET ListRows]

\* A page is the rows found, or the first of them; more of them is what the client goes on
\* with.
PageOf(l, kept, q, page) ==
  \/ Len(q) <= PageSize /\ page = q
     /\ walk' = [walk EXCEPT !.shown = @ \o page, !.placed = kept, !.at = "done"]
  \/ /\ Len(q) > PageSize /\ page = SubSeq(q, 1, PageSize)
     /\ walk' = [walk EXCEPT
          !.shown = @ \o page, !.placed = kept, !.pages = @ + 1,
          !.cursor = [key |-> KeyOf(l, @, q[PageSize]), id |-> q[PageSize]],
          !.at = IF walk.pages + 1 = PageCap THEN "cut" ELSE "on"]

LEMMA ReadsPageOf ==
  ASSUME ReadsPage, walk \in Walks
  PROVE  \E l \in AsRead, up \in Orders : Found(l, up) \in Seq(ListRows)
           => \E page : PageOf(l, StillPlaced(l, up), Found(l, up), page)
<1> DEFINE found(l, up) == Found(l, up)
           more(l, up) == Len(found(l, up)) > PageSize
           page(l, up) == IF more(l, up) THEN SubSeq(found(l, up), 1, PageSize) ELSE found(l, up)
<1>1. PICK l \in AsRead, up \in Orders :
        walk' = [walk EXCEPT
          !.shown  = @ \o page(l, up),
          !.placed = StillPlaced(l, up),
          !.pages  = IF more(l, up) THEN @ + 1 ELSE @,
          !.cursor = IF more(l, up) THEN [key |-> KeyOf(l, @, Last(page(l, up))),
                                          id |-> Last(page(l, up))] ELSE @,
          !.at     = IF ~more(l, up) THEN "done"
                     ELSE IF walk.pages + 1 = PageCap THEN "cut" ELSE "on"]
  BY DEF ReadsPage
<1> DEFINE kept == StillPlaced(l, up)
           q == found(l, up)
           cut == page(l, up)
<1>2. SUFFICES ASSUME q \in Seq(ListRows) PROVE \E p : PageOf(l, kept, q, p)
  OBVIOUS
<1> HIDE DEF found, kept
<1>3. CASE ~more(l, up)
  <2>1. walk' = [walk EXCEPT !.shown = @ \o q, !.placed = kept, !.at = "done"]
    BY <1>1, <1>3 DEF Walks, kept
  <2>2. Len(q) <= PageSize
    BY <1>2, <1>3, ListBounds
  <2> QED
    BY <2>1, <2>2 DEF PageOf
<1>4. CASE more(l, up)
  <2>1. cut = SubSeq(q, 1, PageSize) /\ Len(q) > PageSize
    BY <1>4
  <2>2. Last(cut) = q[PageSize]
    <3>1. Len(SubSeq(q, 1, PageSize)) = PageSize /\ SubSeq(q, 1, PageSize)[PageSize] = q[PageSize]
      BY <1>2, <2>1, ListBounds
    <3> QED
      BY <3>1, <2>1 DEF Last
  <2>3. walk' = [walk EXCEPT
          !.shown = @ \o cut, !.placed = kept, !.pages = @ + 1,
          !.cursor = [key |-> KeyOf(l, @, q[PageSize]), id |-> q[PageSize]],
          !.at = IF walk.pages + 1 = PageCap THEN "cut" ELSE "on"]
    BY <1>1, <1>4, <2>2 DEF kept
  <2> QED
    BY <2>1, <2>3 DEF PageOf
<1> QED
  BY <1>3, <1>4

LEMMA Skipped == \A m, n \in Nat : m * n \in Nat /\ (m + 1) * n = m * n + n
OBVIOUS

RowsFound == {r \in Scanned(walk.listing) : After(walk.listing, walk.cursor, r)}
Skip == IF walk.listing.cursor = "offset" THEN walk.pages * PageSize ELSE 0

\* A page is sorted as the listing is, or as the one by sign-up.
LEMMA ReadAs ==
  ASSUME walk.listing \in Listings, NEW l \in AsRead
  PROVE  /\ l \in Listings /\ (l.sort = "last" => l = walk.listing)
         /\ walk.listing.cursor # "offset" => l = walk.listing
BY ListingKinds DEF AsRead, UsersBySignup, Listings

LEMMA FoundInOrder ==
  ASSUME Timed, walk \in Walks, NEW l \in AsRead, NEW up \in BOOLEAN
  PROVE  LET q == Ordered(l, up)
         IN  /\ RowsFound \subseteq There /\ Cardinality(RowsFound) \in Nat
             /\ q \in Seq(RowsFound) /\ Len(q) = Cardinality(RowsFound)
             /\ \A i, j \in 1 .. Len(q) : i < j => Earlier(l, walk.cursor, up, q[i], q[j])
             /\ \A r \in RowsFound : \E i \in 1 .. Len(q) : q[i] = r
             /\ Skip \in Nat /\ Found(l, up) = SubSeq(q, Skip + 1, Len(q))
             /\ Found(l, up) \in Seq(RowsFound)
<1> DEFINE q == Ordered(l, up)
<1>1. /\ walk.listing \in Listings /\ walk.cursor \in Cursors /\ walk.pages \in Nat
      /\ l \in Listings /\ (l.sort = "last" => l = walk.listing)
  BY ReadAs, ListBounds DEF Walks
<1>2. RowsFound \subseteq There
  BY DEF RowsFound, Scanned
<1>3. \A r \in RowsFound : KeyOf(l, walk.cursor, r) \in Int
  BY <1>1, <1>2, KeyIsNumber DEF RowsFound
<1>4. /\ q \in Seq(RowsFound) /\ Len(q) = Cardinality(RowsFound) /\ Cardinality(RowsFound) \in Nat
      /\ \A i, j \in 1 .. Len(q) : i < j => Earlier(l, walk.cursor, up, q[i], q[j])
      /\ \A r \in RowsFound : \E i \in 1 .. Len(q) : q[i] = r
  <2>1. RowsFound \in SUBSET There
    BY <1>2
  <2>2. q = Sorted(l, walk.cursor, up, RowsFound)
    BY DEF Ordered, RowsFound
  <2> QED
    BY <1>1, <1>3, <2>1, <2>2, SortedIsSorted
<1>5. Skip \in Nat
  BY <1>1, Skipped, ListBounds DEF Skip
<1>6. Found(l, up) = SubSeq(q, Skip + 1, Len(q))
  BY DEF Found, Skip
<1>7. SubSeq(q, Skip + 1, Len(q)) \in Seq(RowsFound)
  <2> HIDE DEF q
  <2>1. \A i \in Skip + 1 .. Len(q) : q[i] \in RowsFound
    BY <1>4, <1>5
  <2>2. Skip + 1 \in Int /\ Len(q) \in Int
    BY <1>4, <1>5
  <2> QED
    BY <2>1, <2>2, SubSeqProperties
<1> HIDE DEF q
<1> QED
  BY <1>2, <1>4, <1>5, <1>6, <1>7 DEF q

\* In a listing without offsets: all rows after the cursor.
LEMMA FoundByCursor ==
  ASSUME Timed, walk \in Walks, NEW up \in BOOLEAN, walk.listing.cursor # "offset"
  PROVE  LET q == Found(walk.listing, up)
         IN  /\ RowsFound = {r \in There : After(walk.listing, walk.cursor, r)}
             /\ q \in Seq(RowsFound)
             /\ \A i, j \in 1 .. Len(q) : i < j => Earlier(walk.listing, walk.cursor, up, q[i], q[j])
             /\ \A r \in RowsFound : \E i \in 1 .. Len(q) : q[i] = r
<1> DEFINE q == Ordered(walk.listing, up)
<1>1. Scanned(walk.listing) = There /\ walk.listing \in AsRead
  BY DEF Scanned, AsRead
<1>2. Found(walk.listing, up) = SubSeq(q, 1, Len(q)) /\ q \in Seq(RowsFound)
  BY <1>1, FoundInOrder DEF Skip
<1>3. Found(walk.listing, up) = q
  <2> HIDE DEF q
  <2> QED
    BY <1>2, SubSeqFull
<1>4. RowsFound = {r \in There : After(walk.listing, walk.cursor, r)}
  BY <1>1 DEF RowsFound
<1>5. /\ \A i, j \in 1 .. Len(q) : i < j => Earlier(walk.listing, walk.cursor, up, q[i], q[j])
      /\ \A r \in RowsFound : \E i \in 1 .. Len(q) : q[i] = r
  BY <1>1, FoundInOrder
<1> HIDE DEF q
<1> QED
  BY <1>2, <1>3, <1>4, <1>5

-----------------------------------------------------------------------------
\* What a page does to the types of a walk.
LEMMA PageTypes ==
  ASSUME Timed, walk \in Walks, walk.at = "on", walk.pages < PageCap, NEW these \in SUBSET There,
         NEW l, \A r \in these : KeyOf(l, walk.cursor, r) \in Int, NEW kept \in SUBSET ListRows,
         NEW q \in Seq(these), NEW page, PageOf(l, kept, q, page)
  PROVE  /\ walk' \in Walks /\ page \in Seq(these) /\ walk'.shown = walk.shown \o page
         /\ walk'.at = "on" => walk'.pages < PageCap
<1>1. walk.shown \in Seq(ListRows) /\ walk.pages \in Nat /\ these \subseteq ListRows
  BY ListBounds DEF Walks, There
<1>2. CASE /\ Len(q) <= PageSize /\ page = q
           /\ walk' = [walk EXCEPT !.shown = @ \o page, !.placed = kept, !.at = "done"]
  <2>1. page \in Seq(ListRows)
    BY <1>1, <1>2
  <2>2. walk.shown \o page \in Seq(ListRows)
    BY <1>1, <2>1
  <2> QED
    BY <1>2, <2>2 DEF Walks
<1>3. CASE /\ Len(q) > PageSize /\ page = SubSeq(q, 1, PageSize)
           /\ walk' = [walk EXCEPT
                !.shown = @ \o page, !.placed = kept, !.pages = @ + 1,
                !.cursor = [key |-> KeyOf(l, @, q[PageSize]), id |-> q[PageSize]],
                !.at = IF walk.pages + 1 = PageCap THEN "cut" ELSE "on"]
  <2>1. page \in Seq(these)
    <3>1. \A i \in 1 .. PageSize : q[i] \in these
      BY <1>3, ListBounds
    <3>2. 1 \in Int /\ PageSize \in Int
      BY ListBounds
    <3> QED
      BY <1>3, <3>1, <3>2, SubSeqProperties
  <2>2. walk.shown \o page \in Seq(ListRows)
    <3>1. page \in Seq(ListRows)
      BY <1>1, <2>1
    <3> QED
      BY <1>1, <3>1
  <2>3. q[PageSize] \in these
    BY <1>3, ListBounds
  <2>4. [key |-> KeyOf(l, walk.cursor, q[PageSize]), id |-> q[PageSize]] \in Cursors
    BY <1>1, <2>3 DEF Cursors
  <2>5. walk.pages + 1 \in 0 .. PageCap
    BY <1>1, ListBounds
  <2>6. walk' \in Walks
    BY <1>3, <2>2, <2>4, <2>5 DEF Walks
  <2>7. walk'.at = "on" => walk'.pages < PageCap
    BY <1>1, <1>3, <2>5, ListBounds DEF Walks
  <2> QED
    BY <1>3, <2>1, <2>6, <2>7 DEF Walks
<1> QED
  BY <1>2, <1>3 DEF PageOf

\* The cursor of row x.
Past(l, c, x) == [key |-> KeyOf(l, c, x), id |-> x]

LEMMA CursorNumbers ==
  ASSUME NEW c \in Cursors PROVE c.key \in Int /\ c.id \in Int
<1>1. c.key \in Int /\ c.id \in ListRows \cup {0}
  BY DEF Cursors
<1>2. CASE c.id \in ListRows
  BY <1>1, <1>2, ListBounds
<1>3. CASE c.id = 0
  BY <1>1, <1>3
<1> QED
  BY <1>1, <1>2, <1>3

LEMMA PastIsCursor ==
  ASSUME Timed, NEW l \in Listings, NEW c \in Cursors, NEW x \in There,
         l.sort = "last" => After(l, c, x)
  PROVE  Past(l, c, x) \in Cursors /\ Past(l, c, x) # Start
<1>1. KeyOf(l, c, x) \in Int /\ x \in ListRows /\ x \in Int
      /\ (l.sort # "id" => KeyOf(l, c, x) <= LastTime)
  BY KeyIsNumber, TimesOfRow
<1>2. Past(l, c, x) \in Cursors
  BY <1>1 DEF Past, Cursors
<1>3. l.sort = "id" => KeyOf(l, c, x) = x
  BY DEF KeyOf
<1>4. Past(l, c, x).key = KeyOf(l, c, x) /\ Past(l, c, x).id = x
  BY DEF Past
<1>5. Past(l, c, x).key # Start.key \/ Past(l, c, x).id # Start.id
  BY <1>1, <1>3, <1>4, ListBounds
<1> QED
  BY <1>2, <1>5

\* A row is after the cursor of x if it comes after x in the listing, when the cursor has
\* what the listing sorts by, or the id of the row goes with that.
LEMMA AfterPast ==
  ASSUME Timed, NEW l \in Listings, NEW c \in Cursors, l.cursor \in {"compound", "id"},
         NEW x \in There, After(l, c, x), NEW r \in There, r \in Placeable(l, times)
  PROVE  /\ Earlier(l, c, FALSE, x, r) => After(l, Past(l, c, x), r)
         /\ r = x \/ Earlier(l, c, FALSE, r, x) => ~After(l, Past(l, c, x), r)
         /\ After(l, Past(l, c, x), r) => After(l, c, r)
<1> DEFINE d == Past(l, c, x)
<1>1. d # Start /\ d.id = x
  BY PastIsCursor DEF Past
<1>2. x \in Int /\ r \in Int /\ Min(times[x]) \in Int /\ Min(times[r]) \in Int
      /\ Max(times[x]) \in Int /\ Max(times[r]) \in Int
  BY TimesOfRow
<1>3. c.key \in Int /\ c.id \in Int
  BY CursorNumbers
<1>4. x \in ListRows /\ r \in ListRows /\ times[x] # {} /\ times[r] # {}
  BY DEF There
<1>5. d.key = KeyOf(l, c, x)
  BY DEF Past
<1> HIDE DEF d
<1>6. ASSUME l.cursor = "compound"
      PROVE  /\ Earlier(l, c, FALSE, x, r) => After(l, d, r)
             /\ r = x \/ Earlier(l, c, FALSE, r, x) => ~After(l, d, r)
             /\ After(l, d, r) => After(l, c, r)
  <2>1. l.sort \in {"created", "updated"}
    BY <1>6, ListingKinds
  <2> DEFINE k(s) == IF l.sort = "created" THEN Min(times[s]) ELSE Max(times[s])
  <2>2. /\ KeyOf(l, c, x) = k(x) /\ KeyOf(l, c, r) = k(r) /\ KeyOf(l, d, r) = k(r)
        /\ k(x) \in Int /\ k(r) \in Int
    BY <2>1, <1>2 DEF KeyOf
  <2> HIDE DEF k
  <2>3. After(l, d, r) <=> k(r) < k(x) \/ (k(r) = k(x) /\ r < x)
    BY <1>1, <1>5, <1>6, <2>2 DEF After
  <2>4. Earlier(l, c, FALSE, x, r) <=> k(x) > k(r) \/ (k(x) = k(r) /\ x > r)
    BY <2>1, <2>2 DEF Earlier
  <2>5. Earlier(l, c, FALSE, r, x) <=> k(r) > k(x) \/ (k(x) = k(r) /\ r > x)
    BY <2>1, <2>2 DEF Earlier
  <2>6. After(l, c, x) <=> c = Start \/ k(x) < c.key \/ (k(x) = c.key /\ x < c.id)
    BY <1>6, <2>2 DEF After
  <2>7. After(l, c, r) <=> c = Start \/ k(r) < c.key \/ (k(r) = c.key /\ r < c.id)
    BY <1>6, <2>2 DEF After
  <2> QED
    <3>1. Earlier(l, c, FALSE, x, r) => After(l, d, r)
      BY <1>2, <2>2, <2>3, <2>4
    <3>2. ASSUME After(l, d, r) PROVE r # x /\ ~Earlier(l, c, FALSE, r, x)
      <4>1. k(r) < k(x) \/ (k(r) = k(x) /\ r < x)
        BY <2>3, <3>2
      <4>2. r = x => k(r) = k(x)
        BY Zenon
      <4>3. r # x
        BY <1>2, <2>2, <4>1, <4>2
      <4>4. ASSUME Earlier(l, c, FALSE, r, x) PROVE FALSE
        <5>1. k(r) > k(x) \/ (k(x) = k(r) /\ r > x)
          BY <2>5, <4>4
        <5> QED
          BY <1>2, <2>2, <4>1, <5>1
      <4> QED
        BY <4>3, <4>4
    <3>3. After(l, d, r) => After(l, c, r)
      BY <1>2, <1>3, <2>2, <2>3, <2>6, <2>7
    <3> QED
      BY <3>1, <3>2, <3>3
<1>7. ASSUME l.cursor = "id"
      PROVE  /\ Earlier(l, c, FALSE, x, r) => After(l, d, r)
             /\ r = x \/ Earlier(l, c, FALSE, r, x) => ~After(l, d, r)
             /\ After(l, d, r) => After(l, c, r)
  <2>1. l.sort \in {"created", "id"}
    BY <1>7, ListingKinds
  <2>2. (After(l, d, r) <=> r < x) /\ (After(l, c, r) <=> c = Start \/ r < c.id)
        /\ (After(l, c, x) <=> c = Start \/ x < c.id)
    BY <1>1, <1>7 DEF After
  <2>3. CASE l.sort = "id"
    <3>1. (Earlier(l, c, FALSE, x, r) <=> x > r) /\ (Earlier(l, c, FALSE, r, x) <=> r > x)
      BY <1>2, <2>3 DEF Earlier, KeyOf
    <3>3. After(l, d, r) => After(l, c, r)
      BY <1>2, <1>3, <2>2
    <3>4. (x > r <=> r < x) /\ (r > x => ~(r < x)) /\ (r = x => ~(r < x))
      BY <1>2
    <3> QED
      BY <2>2, <3>1, <3>3, <3>4
  <2>4. CASE l.sort = "created"
    <3>1. KeyOf(l, c, x) = Min(times[x]) /\ KeyOf(l, c, r) = Min(times[r])
      BY <2>4 DEF KeyOf
    <3>2. /\ Min(times[x]) < Min(times[r]) => x < r
          /\ Min(times[r]) < Min(times[x]) => r < x
      BY <1>4, <1>7, <2>4 DEF Placeable, InOrder
    <3>3. Earlier(l, c, FALSE, x, r) => x > r
      BY <1>2, <2>4, <3>1, <3>2 DEF Earlier
    <3>4. Earlier(l, c, FALSE, r, x) => r > x
      BY <1>2, <2>4, <3>1, <3>2 DEF Earlier
    <3>5. After(l, d, r) => After(l, c, r)
      BY <1>2, <1>3, <2>2
    <3>6. (x > r <=> r < x) /\ (r > x => ~(r < x)) /\ (r = x => ~(r < x))
      BY <1>2
    <3> QED
      BY <2>2, <3>3, <3>4, <3>5, <3>6
  <2> QED
    BY <2>1, <2>3, <2>4
<1> QED
  BY <1>6, <1>7 DEF d

\* A session without a time of another's that comes after one is after its cursor.
LEMMA AfterPastLast ==
  ASSUME Timed, NEW l \in Listings, NEW c \in Cursors, l.cursor = "last",
         NEW x \in There, After(l, c, x), NEW r \in There, After(l, c, r), r # x,
         r \in Placeable(l, times),
         NEW up \in BOOLEAN, Earlier(l, c, up, x, r)
  PROVE  After(l, Past(l, c, x), r)
<1>1. l.sort = "last"
  BY ListingKinds
<1>2. (\E t \in times[x] : t < c.key) /\ (\E t \in times[r] : t < c.key)
  BY AfterLast
<1>3. KeyOf(l, c, x) \in times[x] /\ KeyOf(l, c, r) \in times[r]
  BY <1>1, <1>2, LastBefore DEF KeyOf
<1>4. times[x] \cap times[r] = {}
  <2>1. x \in ListRows /\ r \in ListRows /\ times[x] # {} /\ times[r] # {}
    BY DEF There
  <2> QED
    BY <2>1 DEF Placeable
<1>5. KeyOf(l, c, x) \in Int /\ KeyOf(l, c, r) \in Int
  BY KeyIsNumber
<1>6. KeyOf(l, c, r) < KeyOf(l, c, x)
  BY <1>3, <1>4, <1>5 DEF Earlier
<1> QED
  BY <1>3, <1>6 DEF After, Past

PageInOrder(l, c, up, q, these) ==
  /\ q \in Seq(these)
  /\ \A i, j \in 1 .. Len(q) : i < j => Earlier(l, c, up, q[i], q[j])
  /\ \A r \in these : ~Earlier(l, c, up, r, r)
  /\ \A r \in these : \E i \in 1 .. Len(q) : q[i] = r

CutFrom(q) == IF Len(q) > PageSize THEN SubSeq(q, 1, PageSize) ELSE q

\* What is on a page and what is left for the next ones.
LEMMA PageCut ==
  ASSUME NEW l, NEW c, NEW up, NEW these, NEW q, NEW page,
         PageInOrder(l, c, up, q, these), page = CutFrom(q)
  PROVE  /\ page \in Seq(these) /\ IsInjective(page) /\ ToSet(page) \subseteq these
         /\ Len(q) <= PageSize => ToSet(page) = these
         /\ Len(q) > PageSize =>
              /\ q[PageSize] \in ToSet(page)
              /\ \A r \in ToSet(page) : r = q[PageSize] \/ Earlier(l, c, up, r, q[PageSize])
              /\ \A r \in these : r \in ToSet(page) \/ Earlier(l, c, up, q[PageSize], r)
<1> USE DEF PageInOrder, CutFrom
<1> DEFINE n == IF Len(q) > PageSize THEN PageSize ELSE Len(q)
<1>1. PageSize \in Nat /\ PageSize >= 1 /\ Len(q) \in Nat /\ n \in Nat /\ n <= Len(q)
  BY ListBounds
<1>2. page \in Seq(these) /\ Len(page) = n /\ \A i \in 1 .. n : page[i] = q[i]
  <2>1. CASE Len(q) > PageSize
    <3>1. \A i \in 1 .. PageSize : q[i] \in these
      BY <2>1, <1>1
    <3>2. 1 \in Int /\ PageSize \in Int
      BY <1>1
    <3> QED
      BY <2>1, <3>1, <3>2, <1>1, SubSeqProperties
  <2>2. CASE ~(Len(q) > PageSize)
    BY <2>2
  <2> QED
    BY <2>1, <2>2
<1> HIDE DEF n
<1>3. DOMAIN page = 1 .. n
  BY <1>2
<1>4. \A i \in 1 .. n : q[i] \in these
  BY <1>1
<1>5. IsInjective(page)
  <2>1. SUFFICES ASSUME NEW i \in 1 .. n, NEW j \in 1 .. n, page[i] = page[j] PROVE i = j
    BY <1>3 DEF IsInjective
  <2>2. q[i] = q[j] /\ q[i] \in these /\ i \in 1 .. Len(q) /\ j \in 1 .. Len(q)
    <3>1. i \in 1 .. Len(q) /\ j \in 1 .. Len(q)
      BY <1>1
    <3>2. page[i] = q[i] /\ page[j] = q[j]
      BY <1>2
    <3> QED
      BY <2>1, <3>1, <3>2, <1>4
  <2>3. ~(i < j) /\ ~(j < i)
    BY <2>2
  <2> QED
    BY <2>2, <2>3
<1>6. ToSet(page) \subseteq these /\ \A i \in 1 .. n : q[i] \in ToSet(page)
  <2>1. ToSet(page) = {page[i] : i \in 1 .. n}
    BY <1>3 DEF ToSet
  <2>2. ASSUME NEW i \in 1 .. n PROVE page[i] = q[i] /\ page[i] \in these /\ q[i] \in ToSet(page)
    <3>1. page[i] = q[i]
      BY <1>2
    <3>2. page[i] \in ToSet(page)
      BY <2>1
    <3> QED
      BY <3>1, <3>2, <1>4
  <2>3. \A i \in 1 .. n : page[i] \in these
    BY <2>2
  <2>4. ToSet(page) \subseteq these
    <3> SUFFICES ASSUME NEW r \in ToSet(page) PROVE r \in these
      OBVIOUS
    <3>1. PICK i \in 1 .. n : r = page[i]
      BY <2>1
    <3> QED
      BY <2>3, <3>1
  <2> QED
    BY <2>2, <2>4
<1>7. ASSUME Len(q) <= PageSize PROVE ToSet(page) = these
  <2>1. n = Len(q)
    BY <1>1, <1>7 DEF n
  <2>2. \A r \in these : r \in ToSet(page)
    BY <1>6, <2>1
  <2> QED
    BY <1>6, <2>2
<1>8. ASSUME Len(q) > PageSize
      PROVE  /\ q[PageSize] \in ToSet(page)
             /\ \A r \in ToSet(page) : r = q[PageSize] \/ Earlier(l, c, up, r, q[PageSize])
             /\ \A r \in these : r \in ToSet(page) \/ Earlier(l, c, up, q[PageSize], r)
  <2>1. n = PageSize /\ PageSize \in 1 .. n /\ PageSize \in 1 .. Len(q)
    BY <1>1, <1>8 DEF n
  <2>2. ASSUME NEW r \in ToSet(page) PROVE r = q[PageSize] \/ Earlier(l, c, up, r, q[PageSize])
    <3>1. PICK i \in 1 .. n : q[i] = r
      <4>1. PICK i \in DOMAIN page : page[i] = r
        BY DEF ToSet
      <4>2. i \in 1 .. n
        BY <1>3
      <4>3. page[i] = q[i]
        BY <1>2, <4>2
      <4> QED
        BY <4>1, <4>2, <4>3
    <3>2. i \in 1 .. Len(q) /\ (i = PageSize \/ i < PageSize)
      BY <2>1, <1>1
    <3> QED
      BY <2>1, <3>1, <3>2
  <2>3. ASSUME NEW r \in these PROVE r \in ToSet(page) \/ Earlier(l, c, up, q[PageSize], r)
    <3>1. PICK i \in 1 .. Len(q) : q[i] = r
      OBVIOUS
    <3>2. i \in 1 .. n \/ PageSize < i
      BY <2>1, <1>1
    <3> QED
      BY <2>1, <3>1, <3>2, <1>6
  <2> QED
    BY <2>1, <2>2, <2>3, <1>6
<1> QED
  BY <1>2, <1>5, <1>6, <1>7, <1>8

-----------------------------------------------------------------------------
\* Times are in the past, and rows that were shown or did not change were there.
Dated ==
  /\ \A r \in ListRows : \A t \in times[r] : t <= now
  /\ walk.steady \subseteq There /\ ToSet(walk.shown) \subseteq There \cup past
  /\ walk.placed \subseteq Placeable(walk.listing, times)

UnderWay ==
  walk.at = "on" => walk.pages < PageCap /\ (walk.cursor = Start => walk.shown = <<>>)

\* By a cursor: of the rows it can place, those still to come are after it and those that
\* were shown are not.
Reached ==
  walk.at = "on" /\ walk.listing.cursor # "offset" =>
    /\ \A r \in walk.steady \cap walk.placed :
         After(walk.listing, walk.cursor, r) \/ r \in ToSet(walk.shown)
    /\ walk.listing.cursor \in {"compound", "id"} =>
         \A r \in ToSet(walk.shown) \cap There \cap walk.placed :
           ~After(walk.listing, walk.cursor, r)

\* By an offset: row r is where it was at first or still to come.
AtFirst(r, i) == i \in DOMAIN walk.home /\ walk.home[i] = r
Homed ==
  walk.listing.cursor = "offset" =>
    /\ IsInjective(walk.home) /\ walk.placed \subseteq ToSet(walk.home)
    /\ walk.at = "on" => Len(walk.shown) = walk.pages * PageSize
    /\ \A r \in walk.placed : \A i \in 1 .. Len(walk.shown) : walk.shown[i] = r <=> AtFirst(r, i)

ListInv == ListTypeOK /\ Dated /\ UnderWay /\ Reached /\ Homed /\ WalkIsExact

-----------------------------------------------------------------------------
LEMMA PageMoves ==
  ASSUME walk \in Walks, NEW l, NEW kept, NEW q, Len(q) \in Nat, NEW page, PageOf(l, kept, q, page)
  PROVE  /\ page = CutFrom(q) /\ walk'.shown = walk.shown \o page /\ walk'.home = walk.home
         /\ walk'.listing = walk.listing /\ walk'.steady = walk.steady /\ walk'.placed = kept
         /\ Len(q) <= PageSize => walk'.at = "done" /\ walk'.pages = walk.pages
         /\ Len(q) > PageSize => /\ walk'.at # "done" /\ walk'.pages = walk.pages + 1
                                 /\ walk'.cursor = Past(l, walk.cursor, q[PageSize])
<1>1. PageSize \in Nat
  BY ListBounds
<1>2. CASE Len(q) <= PageSize
  <2>1. page = q /\ walk' = [walk EXCEPT !.shown = @ \o page, !.placed = kept, !.at = "done"]
    BY <1>1, <1>2 DEF PageOf
  <2> QED
    BY <1>1, <1>2, <2>1 DEF Walks, CutFrom
<1>3. CASE Len(q) > PageSize
  <2>1. /\ page = SubSeq(q, 1, PageSize)
        /\ walk' = [walk EXCEPT
             !.shown = @ \o page, !.placed = kept, !.pages = @ + 1,
             !.cursor = [key |-> KeyOf(l, @, q[PageSize]), id |-> q[PageSize]],
             !.at = IF walk.pages + 1 = PageCap THEN "cut" ELSE "on"]
    BY <1>1, <1>3 DEF PageOf
  <2> QED
    BY <1>1, <1>3, <2>1 DEF Walks, CutFrom, Past
<1> QED
  BY <1>1, <1>2, <1>3

LEMMA KeyedPage ==
  ASSUME ListInv, ReadsPage, walk.listing.cursor # "offset",
         NEW up \in Orders, NEW kept, NEW page,
         PageOf(walk.listing, kept, Found(walk.listing, up), page)
  PROVE  /\ walk'.at = "on" =>
              /\ \A r \in walk.steady \cap walk.placed :
                   After(walk.listing, walk'.cursor, r) \/ r \in ToSet(walk.shown) \cup ToSet(page)
              /\ walk.listing.cursor \in {"compound", "id"} =>
                   \A r \in (ToSet(walk.shown) \cup ToSet(page)) \cap There \cap walk.placed :
                     ~After(walk.listing, walk'.cursor, r)
         /\ walk'.at = "done" =>
              walk.steady \cap walk.placed \subseteq ToSet(walk.shown) \cup ToSet(page)
         /\ IsInjective(page) /\ ToSet(page) \subseteq There
         /\ walk.listing.cursor # "last" =>
              ToSet(walk.shown) \cap ToSet(page) \cap walk.placed = {}
<1> DEFINE l == walk.listing
           c == walk.cursor
           q == Found(l, up)
           x == q[PageSize]
<1>1. /\ Timed /\ walk \in Walks /\ walk.at = "on" /\ walk.listing \in Listings /\ walk.cursor \in Cursors
      /\ walk.placed \subseteq Placeable(l, times) /\ up \in BOOLEAN /\ (l.sort # "last" => up = FALSE)
      /\ walk.steady \subseteq There
  BY DEF ListInv, ListTypeOK, Timed, Walks, Cursors, ReadsPage, Dated, Orders
<1>2. /\ RowsFound = {r \in There : After(l, c, r)} /\ q \in Seq(RowsFound)
      /\ \A i, j \in 1 .. Len(q) : i < j => Earlier(l, c, up, q[i], q[j])
      /\ \A r \in RowsFound : \E i \in 1 .. Len(q) : q[i] = r
  BY <1>1, FoundByCursor
<1>3. \A r \in RowsFound : r \in There /\ After(l, c, r)
  BY <1>2
<1>4. \A r \in RowsFound : ~Earlier(l, c, up, r, r)
  <2> SUFFICES ASSUME NEW r \in RowsFound PROVE ~Earlier(l, c, up, r, r)
    OBVIOUS
  <2>1. KeyOf(l, c, r) \in Int /\ r \in Int /\ Min(times[r]) \in Int
    BY <1>1, <1>3, KeyIsNumber, TimesOfRow
  <2> HIDE DEF l, c
  <2> QED
    BY <2>1 DEF Earlier, Newer
<1>5. /\ page = CutFrom(q)
      /\ Len(q) <= PageSize => walk'.at = "done"
      /\ Len(q) > PageSize => walk'.at # "done" /\ walk'.cursor = Past(l, c, x)
  <2>1. Len(q) \in Nat /\ PageOf(l, kept, q, page)
    BY <1>2
  <2> HIDE DEF q
  <2> QED
    BY <1>1, <2>1, PageMoves
<1>6. /\ page \in Seq(RowsFound) /\ IsInjective(page) /\ ToSet(page) \subseteq RowsFound
      /\ Len(q) <= PageSize => ToSet(page) = RowsFound
      /\ Len(q) > PageSize =>
           /\ x \in ToSet(page)
           /\ \A r \in ToSet(page) : r = x \/ Earlier(l, c, up, r, x)
           /\ \A r \in RowsFound : r \in ToSet(page) \/ Earlier(l, c, up, x, r)
  <2>1. PageInOrder(l, c, up, q, RowsFound)
    BY <1>2, <1>4 DEF PageInOrder
  <2> HIDE DEF l, c, q
  <2> QED
    BY <1>5, <2>1, PageCut
<1>7. ASSUME Len(q) <= PageSize
      PROVE  /\ walk'.at = "done"
             /\ walk.steady \cap walk.placed \subseteq ToSet(walk.shown) \cup ToSet(page)
  <2>1. walk'.at = "done"
    BY <1>5, <1>7
  <2>2. \A r \in walk.steady \cap walk.placed : After(l, c, r) \/ r \in ToSet(walk.shown)
    BY <1>1 DEF ListInv, Reached
  <2> QED
    BY <1>1, <1>2, <1>6, <1>7, <2>1, <2>2
<1>8. ASSUME Len(q) > PageSize
      PROVE  /\ walk'.at # "done" /\ walk'.cursor = Past(l, c, x)
             /\ x \in There /\ After(l, c, x)
  <2>1. walk'.at # "done" /\ walk'.cursor = Past(l, c, x)
    BY <1>5, <1>8
  <2> QED
    BY <1>3, <1>6, <1>8, <2>1
<1>9. ASSUME Len(q) > PageSize, NEW r \in walk.steady \cap walk.placed
      PROVE  After(l, walk'.cursor, r) \/ r \in ToSet(walk.shown) \cup ToSet(page)
  <2>1. CASE ~After(l, c, r)
    BY <1>1, <2>1 DEF ListInv, Reached
  <2>2. CASE After(l, c, r) /\ r \notin ToSet(page)
    <3>1. r \in There /\ r \in RowsFound /\ Earlier(l, c, up, x, r) /\ r \in Placeable(l, times)
      BY <1>1, <1>2, <1>6, <1>9, <2>2
    <3>2. r # x
      BY <1>6, <1>9, <2>2
    <3>3. CASE l.cursor = "last"
      <4> HIDE DEF l, c, x
      <4> QED
        BY <1>1, <1>8, <1>9, <2>2, <3>1, <3>2, <3>3, AfterPastLast DEF l, c
    <3>4. CASE l.cursor # "last"
      <4>1. l.cursor \in {"compound", "id"} /\ l.sort # "last"
        BY <1>1, <3>4, ListingKinds
      <4>2. Earlier(l, c, FALSE, x, r)
        BY <1>1, <3>1, <4>1
      <4>3. After(l, Past(l, c, x), r)
        <5> HIDE DEF l, c, x
        <5>1. l \in Listings /\ c \in Cursors
          BY <1>1 DEF l, c
        <5> QED
          BY <1>1, <1>8, <1>9, <5>1, <3>1, <4>1, <4>2, AfterPast
      <4> QED
        BY <1>8, <1>9, <4>3
    <3> QED
      BY <3>3, <3>4
  <2> QED
    BY <2>1, <2>2
<1>10. ASSUME l.cursor \in {"compound", "id"}
       PROVE  ToSet(walk.shown) \cap ToSet(page) \cap walk.placed = {}
  <2>1. \A r \in ToSet(walk.shown) \cap There \cap walk.placed : ~After(l, c, r)
    BY <1>1, <1>10 DEF ListInv, Reached
  <2> QED
    BY <2>1, <1>3, <1>6
<1>11. ASSUME Len(q) > PageSize, l.cursor \in {"compound", "id"},
              NEW r \in (ToSet(walk.shown) \cup ToSet(page)) \cap There \cap walk.placed
       PROVE  ~After(l, walk'.cursor, r)
  <2>0. l.sort # "last" /\ r \in There /\ r \in Placeable(l, times)
    BY <1>1, <1>11, ListingKinds
  <2>1. ~After(l, c, r) \/ r = x \/ Earlier(l, c, FALSE, r, x)
    <3>1. CASE r \in ToSet(walk.shown)
      BY <1>1, <1>11, <3>1 DEF ListInv, Reached
    <3>2. CASE r \in ToSet(page)
      BY <1>1, <1>6, <1>11, <2>0, <3>2
    <3> QED
      BY <1>11, <3>1, <3>2
  <2>2. ~After(l, Past(l, c, x), r)
    <3> HIDE DEF l, c, x
    <3>1. l \in Listings /\ c \in Cursors
      BY <1>1 DEF l, c
    <3> QED
      BY <1>1, <1>8, <1>11, <2>0, <2>1, <3>1, AfterPast
  <2> QED
    BY <1>8, <1>11, <2>2
<1>12. Len(q) <= PageSize \/ Len(q) > PageSize
  BY <1>2, ListBounds
<1>13. l.cursor # "last" => l.cursor \in {"compound", "id"}
  BY <1>1, ListingKinds
<1> HIDE DEF q, x
<1> QED
  BY <1>3, <1>6, <1>7, <1>8, <1>9, <1>10, <1>11, <1>12, <1>13

-----------------------------------------------------------------------------
\* The elements after the k-th.
LEMMA CutAfter ==
  ASSUME NEW S, NEW q \in Seq(S), NEW k \in Nat
  PROVE  LET f == SubSeq(q, k + 1, Len(q))
         IN  /\ f \in Seq(S) /\ (k <= Len(q) => Len(f) = Len(q) - k)
             /\ (k > Len(q) => Len(f) = 0)
             /\ \A i \in 1 .. Len(f) : k + i \in 1 .. Len(q) /\ f[i] = q[k + i]
<1> DEFINE n == Len(q)
           f == SubSeq(q, k + 1, n)
<1>1. n \in Nat /\ k + 1 \in Nat /\ n - (k + 1) + 1 = n - k
  OBVIOUS
<1>2. f = [i \in 1 .. n - k |-> q[k + i]]
  OBVIOUS
<1>3. \A i \in 1 .. n - k : k + i \in 1 .. n /\ q[k + i] \in S
  <2> SUFFICES ASSUME NEW i \in 1 .. n - k PROVE k + i \in 1 .. n /\ q[k + i] \in S
    OBVIOUS
  <2>1. k + i \in 1 .. n
    OBVIOUS
  <2> QED
    BY <2>1
<1> HIDE DEF n, f
<1>4. /\ f \in Seq(S) /\ (k <= n => Len(f) = n - k) /\ (k > n => Len(f) = 0)
      /\ \A i \in 1 .. Len(f) : k + i \in 1 .. n /\ f[i] = q[k + i]
  <2>1. CASE k <= n
    <3>1. n - k \in Nat
      BY <1>1, <2>1
    <3>2. f \in Seq(S) /\ Len(f) = n - k /\ \A i \in 1 .. n - k : f[i] = q[k + i]
      BY <1>2, <1>3, <3>1
    <3> QED
      BY <1>1, <1>3, <2>1, <3>2
  <2>2. CASE k > n
    <3>1. 1 .. n - k = {}
      BY <1>1, <2>2
    <3>2. f = <<>>
      BY <1>2, <3>1
    <3> QED
      BY <1>1, <2>2, <3>2
  <2> QED
    BY <1>1, <2>1, <2>2
<1> QED
  BY <1>4 DEF n, f

\* A page by an offset shows a row that is where it was at first where it was at first.
LEMMA HomedPage ==
  ASSUME ListInv, ReadsPage, walk.listing.cursor = "offset",
         NEW l \in AsRead, NEW up \in BOOLEAN, NEW page,
         PageOf(l, StillPlaced(l, up), Found(l, up), page), walk' \in Walks
  PROVE  Homed' /\ WalkIsExact'
<1> DEFINE q == Ordered(l, up)
           k == walk.pages * PageSize
           f == Found(l, up)
           m == Len(page)
           kept == walk.placed \cap AtHome(q)
<1>1. /\ Timed /\ walk \in Walks /\ walk.at = "on" /\ walk.pages \in Nat
      /\ walk.shown \in Seq(ListRows) /\ walk.home \in Seq(ListRows)
  BY ListBounds DEF ListInv, ListTypeOK, Timed, Walks, Cursors, ReadsPage
<1>2. /\ RowsFound \subseteq ListRows /\ q \in Seq(RowsFound) /\ Skip = k /\ k \in Nat
      /\ f = SubSeq(q, k + 1, Len(q))
  BY <1>1, FoundInOrder DEF Skip, There
<1>3. /\ PageSize \in Nat /\ PageSize >= 1 /\ (walk.pages + 1) * PageSize = k + PageSize
  BY <1>1, Skipped, ListBounds
<1>4. /\ IsInjective(walk.home) /\ walk.placed \subseteq ToSet(walk.home)
      /\ Len(walk.shown) = k
      /\ \A r \in walk.placed : \A i \in 1 .. k : walk.shown[i] = r <=> AtFirst(r, i)
  BY <1>1 DEF ListInv, Homed
<1>5. /\ f \in Seq(RowsFound) /\ (k <= Len(q) => Len(f) = Len(q) - k) /\ (k > Len(q) => Len(f) = 0)
      /\ \A i \in 1 .. Len(f) : k + i \in 1 .. Len(q) /\ f[i] = q[k + i]
  <2> HIDE DEF q, k, f
  <2> QED
    BY <1>2, CutAfter
<1>6. DOMAIN q = 1 .. Len(q) /\ Len(q) \in Nat
  <2> HIDE DEF q
  <2> QED
    BY <1>2
<1>7. /\ page = CutFrom(f) /\ walk'.shown = walk.shown \o page /\ walk'.home = walk.home
      /\ walk'.listing = walk.listing /\ walk'.steady = walk.steady /\ walk'.placed = kept
      /\ Len(f) <= PageSize => walk'.at = "done" /\ walk'.pages = walk.pages
      /\ Len(f) > PageSize => walk'.at # "done" /\ walk'.pages = walk.pages + 1
  <2>1. StillPlaced(l, up) = kept /\ Len(f) \in Nat
    BY <1>5 DEF StillPlaced
  <2> HIDE DEF f, kept
  <2> QED
    BY <1>1, <2>1, PageMoves DEF f
<1> HIDE DEF q, k, f
<1>8. /\ page \in Seq(ListRows) /\ m \in Nat /\ m <= Len(f)
      /\ (Len(f) > PageSize => m = PageSize) /\ (Len(f) <= PageSize => m = Len(f))
      /\ \A i \in 1 .. m : page[i] = f[i]
  <2>0. Len(f) \in Nat /\ f \in Seq(ListRows)
    BY <1>2, <1>5
  <2>1. CASE Len(f) > PageSize
    <3>1. page = SubSeq(f, 1, PageSize)
      BY <1>7, <2>1 DEF CutFrom
    <3>2. \A i \in 1 .. PageSize : f[i] \in ListRows
      BY <1>3, <2>0, <2>1
    <3>3. 1 \in Int /\ PageSize \in Int
      BY <1>3
    <3> QED
      BY <1>3, <2>0, <2>1, <3>1, <3>2, <3>3, SubSeqProperties
  <2>2. CASE ~(Len(f) > PageSize)
    <3>1. page = f
      BY <1>7, <2>2 DEF CutFrom
    <3> QED
      BY <1>3, <2>0, <2>2, <3>1
  <2> QED
    BY <2>1, <2>2
<1>9. /\ Len(walk'.shown) = k + m /\ walk'.shown \in Seq(ListRows)
      /\ \A i \in 1 .. k : walk'.shown[i] = walk.shown[i]
      /\ \A i \in 1 .. m : walk'.shown[k + i] = page[i]
  <2>1. PICK s, t : s = walk.shown /\ t = page
    OBVIOUS
  <2>2. s \in Seq(ListRows) /\ t \in Seq(ListRows) /\ Len(s) = k /\ Len(t) = m
    BY <1>1, <1>4, <1>8, <2>1
  <2>3. /\ s \o t \in Seq(ListRows) /\ Len(s \o t) = k + m
        /\ \A i \in 1 .. k : (s \o t)[i] = s[i]
        /\ \A i \in 1 .. m : (s \o t)[k + i] = t[i]
    <3>1. /\ s \o t \in Seq(ListRows) /\ Len(s \o t) = Len(s) + Len(t)
          /\ \A i \in 1 .. Len(s) : (s \o t)[i] = s[i]
          /\ \A i \in 1 .. Len(t) : (s \o t)[Len(s) + i] = t[i]
      BY <2>2
    <3> HIDE DEF m
    <3> QED
      BY <2>2, <3>1
  <2> QED
    BY <1>7, <2>1, <2>3
<1>10. ASSUME NEW i \in 1 .. k + m, i > k PROVE walk'.shown[i] = q[i] /\ i \in DOMAIN q
  <2>1. i - k \in 1 .. m /\ i - k \in 1 .. Len(f) /\ k + (i - k) = i
    BY <1>2, <1>5, <1>8, <1>10
  <2>2. walk'.shown[i] = page[i - k] /\ page[i - k] = f[i - k] /\ f[i - k] = q[i] /\ i \in 1 .. Len(q)
    BY <1>5, <1>8, <1>9, <2>1
  <2> QED
    BY <1>6, <2>2
<1>11. ASSUME NEW r \in kept, NEW i \in 1 .. k + m
       PROVE  walk'.shown[i] = r <=> AtFirst(r, i)
  <2>1. CASE i <= k
    <3>1. i \in 1 .. k /\ r \in walk.placed
      BY <1>2, <2>1
    <3> QED
      BY <1>4, <1>9, <3>1
  <2>2. CASE i > k
    <3>1. walk'.shown[i] = q[i] /\ i \in DOMAIN q
      BY <1>10, <2>2
    <3>2. (i \in DOMAIN q /\ q[i] = r) <=> (i \in DOMAIN walk.home /\ walk.home[i] = r)
      BY <3>1 DEF AtHome
    <3> QED
      BY <3>1, <3>2 DEF AtFirst
  <2> QED
    BY <1>2, <2>1, <2>2
<1>12. \A r, i : AtFirst(r, i)' <=> AtFirst(r, i)
  BY <1>7 DEF AtFirst
<1>13. walk'.at = "on" => Len(walk'.shown) = walk'.pages * PageSize
  BY <1>3, <1>5, <1>7, <1>8, <1>9 DEF k
<1>14. Homed'
  <2>1. walk'.placed \subseteq ToSet(walk'.home) /\ IsInjective(walk'.home)
    BY <1>4, <1>7 DEF kept
  <2>2. \A r \in walk'.placed : \A i \in 1 .. Len(walk'.shown) : walk'.shown[i] = r <=> AtFirst(r, i)'
    BY <1>7, <1>9, <1>11, <1>12
  <2> QED
    BY <1>13, <2>1, <2>2 DEF Homed
<1>15. ASSUME walk'.at = "done", NEW r \in kept PROVE r \in ToSet(walk'.shown)
  <2>1. Len(f) <= PageSize /\ m = Len(f)
    BY <1>3, <1>5, <1>7, <1>8, <1>15
  <2>2. PICK p \in DOMAIN walk.home : walk.home[p] = r
    BY <1>4 DEF ToSet, kept
  <2>3. p \in DOMAIN q /\ q[p] = r
    BY <2>2 DEF kept, AtHome
  <2>4. p \in 1 .. Len(q) /\ Len(q) \in Nat
    BY <1>6, <2>3
  <2>5. p \in 1 .. k + m
    BY <1>2, <1>5, <2>1, <2>4
  <2>6. walk'.shown[p] = r
    BY <1>11, <2>2, <2>5 DEF AtFirst
  <2> QED
    BY <1>9, <2>5, <2>6 DEF ToSet
<1>16. ASSUME NEW i \in DOMAIN walk'.shown, NEW j \in DOMAIN walk'.shown,
              walk'.shown[i] = walk'.shown[j], walk'.shown[i] \in walk'.placed
       PROVE  i = j
  <2>1. i \in 1 .. k + m /\ j \in 1 .. k + m
    BY <1>9
  <2>2. AtFirst(walk'.shown[i], i) /\ AtFirst(walk'.shown[i], j)
    BY <1>7, <1>11, <1>16, <2>1
  <2> QED
    BY <1>4, <2>2 DEF AtFirst, IsInjective
<1>17. WalkIsExact'
  BY <1>7, <1>15, <1>16 DEF WalkIsExact
<1> QED
  BY <1>14, <1>17

-----------------------------------------------------------------------------
\* What is after a cursor depends on the times of a row alone.
LEMMA AfterAlike ==
  ASSUME walk.listing \in Listings, walk'.listing = walk.listing, NEW r, times'[r] = times[r]
  PROVE  After(walk.listing, walk.cursor, r)' = After(walk.listing, walk'.cursor, r)
<1>1. CASE walk.listing.cursor = "offset"
  BY <1>1 DEF After, Start
<1>2. CASE walk.listing.cursor = "last"
  BY <1>2 DEF After, Start
<1>3. CASE walk.listing.cursor = "id"
  BY <1>3 DEF After, Start
<1>4. CASE walk.listing.cursor = "compound" /\ walk.listing.sort = "created"
  BY <1>4 DEF After, Start, KeyOf
<1>5. CASE walk.listing.cursor = "compound" /\ walk.listing.sort = "updated"
  BY <1>5 DEF After, Start, KeyOf
<1> QED
  BY <1>1, <1>2, <1>3, <1>4, <1>5, ListingKinds

LEMMA PlaceableAlike ==
  ASSUME times' = times, walk'.listing = walk.listing
  PROVE  Placeable(walk.listing, times)' = Placeable(walk.listing, times)
BY DEF Placeable, InOrder

LEMMA PageKeeps == ASSUME ListInv, ReadsPage PROVE ListInv'
<1> DEFINE c == walk.cursor
<1>1. /\ Timed /\ walk \in Walks /\ walk.at = "on" /\ walk.listing \in Listings /\ c \in Cursors
      /\ walk.pages \in Nat /\ walk.pages < PageCap /\ walk.shown \in Seq(ListRows)
      /\ walk.placed \subseteq ListRows
      /\ UNCHANGED <<times, past, now, changes>> /\ There' = There
  BY ListBounds DEF ListInv, ListTypeOK, Timed, Walks, Cursors, UnderWay, ReadsPage, There
<1>2. PICK l \in AsRead, up \in Orders :
        Found(l, up) \in Seq(ListRows)
          => \E page : PageOf(l, StillPlaced(l, up), Found(l, up), page)
  BY <1>1, ReadsPageOf
<1> DEFINE f == Found(l, up)
           kept == StillPlaced(l, up)
<1>3. /\ up \in BOOLEAN /\ RowsFound \subseteq There /\ f \in Seq(RowsFound)
      /\ l \in Listings /\ (l.sort = "last" => l = walk.listing)
      /\ walk.listing.cursor # "offset" => l = walk.listing
  BY <1>1, FoundInOrder, ReadAs DEF Orders
<1>4. PICK page : PageOf(l, kept, f, page)
  <2>1. RowsFound \subseteq ListRows
    BY <1>3 DEF There
  <2>2. f \in Seq(ListRows)
    <3> HIDE DEF f
    <3> QED
      BY <1>3, <2>1
  <2> QED
    BY <1>2, <2>2
<1>5. kept \subseteq walk.placed /\ (walk.listing.cursor # "offset" => kept = walk.placed)
  BY DEF StillPlaced
<1> HIDE DEF f, kept
<1>6. Len(f) \in Nat /\ PageSize \in Nat /\ (Len(f) <= PageSize \/ Len(f) > PageSize)
  BY <1>3, ListBounds
<1>7. /\ page = CutFrom(f) /\ walk'.shown = walk.shown \o page
      /\ walk'.listing = walk.listing /\ walk'.steady = walk.steady /\ walk'.placed = kept
      /\ Len(f) <= PageSize => walk'.at = "done" /\ walk'.pages = walk.pages
      /\ Len(f) > PageSize => /\ walk'.at # "done" /\ walk'.pages = walk.pages + 1
                              /\ walk'.cursor = Past(l, c, f[PageSize])
  BY <1>1, <1>4, <1>6, PageMoves
<1>8. \A r \in RowsFound : r \in There /\ (l.sort = "last" => After(l, c, r))
  BY <1>3 DEF RowsFound
<1>9. walk' \in Walks /\ page \in Seq(RowsFound) /\ (walk'.at = "on" => walk'.pages < PageCap)
  <2>1. \A r \in RowsFound : KeyOf(l, c, r) \in Int
    BY <1>1, <1>3, <1>8, KeyIsNumber
  <2>2. kept \in SUBSET ListRows
    BY <1>1, <1>5
  <2> QED
    BY <1>1, <1>3, <1>4, <2>1, <2>2, PageTypes
<1>10. page \in Seq(ListRows) /\ ToSet(page) \subseteq There
       /\ ToSet(walk'.shown) = ToSet(walk.shown) \cup ToSet(page)
  <2>1. page \in Seq(There) /\ page \in Seq(ListRows)
    <3>1. RowsFound \subseteq ListRows
      BY <1>3 DEF There
    <3> QED
      BY <1>3, <1>9, <3>1
  <2>2. ToSet(page) \subseteq There
    BY <2>1 DEF ToSet
  <2> QED
    BY <1>1, <1>7, <2>1, <2>2, ConcatSet
<1>11. ListTypeOK'
  BY <1>1, <1>9 DEF ListInv, ListTypeOK, Walks, Cursors
<1>12. Dated'
  <2>1. Placeable(walk.listing, times)' = Placeable(walk.listing, times)
    BY <1>1, <1>7, PlaceableAlike
  <2>2. walk.placed \subseteq Placeable(walk.listing, times)
    BY DEF ListInv, Dated
  <2>3. walk'.placed \subseteq Placeable(walk.listing, times)'
    BY <1>5, <1>7, <2>1, <2>2
  <2> QED
    BY <1>1, <1>7, <1>10, <2>3 DEF ListInv, Dated
<1>13. UnderWay'
  <2>1. ASSUME walk'.at = "on" PROVE walk'.cursor # Start
    <3>1. Len(f) > PageSize /\ walk'.cursor = Past(l, c, f[PageSize])
      BY <1>6, <1>7, <2>1
    <3>2. f[PageSize] \in RowsFound
      BY <1>3, <1>6, <3>1, ListBounds
    <3> QED
      BY <1>1, <1>3, <1>8, <3>1, <3>2, PastIsCursor
  <2> QED
    BY <1>9, <2>1 DEF UnderWay, Start
<1>14. CASE walk.listing.cursor # "offset"
  <2>1. /\ walk'.at = "on" =>
             /\ \A r \in walk.steady \cap walk.placed :
                  After(walk.listing, walk'.cursor, r) \/ r \in ToSet(walk.shown) \cup ToSet(page)
             /\ walk.listing.cursor \in {"compound", "id"} =>
                  \A r \in (ToSet(walk.shown) \cup ToSet(page)) \cap There \cap walk.placed :
                    ~After(walk.listing, walk'.cursor, r)
        /\ walk'.at = "done" =>
             walk.steady \cap walk.placed \subseteq ToSet(walk.shown) \cup ToSet(page)
        /\ IsInjective(page) /\ ToSet(page) \subseteq There
        /\ walk.listing.cursor # "last" =>
             ToSet(walk.shown) \cap ToSet(page) \cap walk.placed = {}
    BY <1>3, <1>4, <1>14, KeyedPage DEF f
  <2>2. /\ \A r : After(walk.listing, walk.cursor, r)' = After(walk.listing, walk'.cursor, r)
        /\ walk'.placed = walk.placed
    BY <1>1, <1>5, <1>7, <1>14, AfterAlike
  <2>3. Reached'
    BY <1>1, <1>7, <1>10, <1>14, <2>1, <2>2 DEF Reached
  <2>4. walk.listing.cursor # "last" => OnceOf(walk'.shown, walk.placed)
    <3> SUFFICES ASSUME walk.listing.cursor # "last" PROVE OnceOf(walk'.shown, walk.placed)
      OBVIOUS
    <3>1. OnceOf(walk.shown, walk.placed)
      BY DEF ListInv, WalkIsExact, OnceOf
    <3>2. OnceOf(page, walk.placed)
      BY <2>1 DEF OnceOf, IsInjective
    <3> QED
      BY <1>1, <1>7, <1>10, <2>1, <3>1, <3>2, ConcatOnce
  <2>5. WalkIsExact'
    BY <1>7, <1>10, <2>1, <2>2, <2>4 DEF WalkIsExact, OnceOf
  <2>6. Homed'
    BY <1>7, <1>14 DEF Homed
  <2> QED
    BY <1>11, <1>12, <1>13, <2>3, <2>5, <2>6 DEF ListInv
<1>15. CASE walk.listing.cursor = "offset"
  <2>1. Homed' /\ WalkIsExact'
    BY <1>3, <1>4, <1>9, <1>15, HomedPage DEF f, kept
  <2>2. Reached'
    BY <1>7, <1>15 DEF Reached
  <2> QED
    BY <1>11, <1>12, <1>13, <2>1, <2>2 DEF ListInv
<1> QED
  BY <1>14, <1>15

\* A row that was shown keeps its place before the cursor, or moves away from it.
Keeps(r, T) ==
  r \in ToSet(walk.shown) /\ T # {} =>
    r \in There /\ Min(T) = Min(times[r]) /\ Max(T) \in Int /\ Max(T) >= Max(times[r])

LEMMA ChangeKeeps ==
  ASSUME ListInv, ListChanging, NEW r \in ListRows, NEW T \in SUBSET (1 .. LastTime),
         times' = [times EXCEPT ![r] = T], Disturbed(r), now' = now,
         \A t \in T : t <= now, Keeps(r, T),
         \/ T # {} /\ r \notin past /\ past' = past
         \/ T = {} /\ past' = past \cup {r}
  PROVE  ListInv'
<1> DEFINE l == walk.listing
           c == walk.cursor
           kept == walk.placed \cap Placeable(l, times')
<1>1. /\ Timed /\ walk \in Walks /\ walk.at = "on" /\ l \in Listings /\ c \in Cursors
      /\ past \subseteq ListRows /\ past \cap There = {} /\ now \in 1 .. LastTime
      /\ changes \in 0 .. MaxListChanges /\ walk.pages < PageCap
      /\ walk.steady \subseteq There /\ ToSet(walk.shown) \subseteq There \cup past
      /\ c = Start => walk.shown = <<>>
  BY DEF ListInv, ListTypeOK, Dated, UnderWay, Timed, Walks, Cursors, ListChanging
<1>2. There' = IF T = {} THEN There \ {r} ELSE There \cup {r}
  BY <1>1 DEF There, Timed
<1>3. /\ \A s \in ListRows \ {r} : times'[s] = times[s]
      /\ times'[r] = T
  BY <1>1 DEF Timed
<1>5. walk' = [walk EXCEPT !.steady = walk.steady \ {r}, !.placed = kept]
  BY DEF Disturbed
<1> HIDE DEF kept
<1>6. /\ walk'.listing = l /\ walk'.at = "on" /\ walk'.pages = walk.pages /\ walk'.cursor = c
      /\ walk'.shown = walk.shown /\ walk'.steady = walk.steady \ {r} /\ walk'.home = walk.home
      /\ walk'.placed = kept
  BY <1>1, <1>5, Zenon DEF Walks
<1>7. walk' \in Walks
  <2>1. kept \in SUBSET ListRows /\ walk.steady \ {r} \in SUBSET ListRows
    BY <1>1 DEF Walks, kept
  <2> QED
    BY <1>1, <1>5, <2>1 DEF Walks
<1>8. ListTypeOK'
  <2>1. Timed'
    BY <1>1 DEF Timed
  <2>2. past' \subseteq ListRows /\ past' \cap There' = {}
    BY <1>1, <1>2
  <2>3. changes' \in 0 .. MaxListChanges
    BY <1>1, ListBounds DEF ListChanging
  <2> QED
    BY <1>1, <1>7, <2>1, <2>2, <2>3 DEF ListTypeOK, Timed, Walks, Cursors
<1>9. Dated'
  <2>1. \A s \in ListRows : \A t \in times'[s] : t <= now'
    BY <1>3 DEF ListInv, Dated
  <2>2. walk'.steady \subseteq There' /\ ToSet(walk'.shown) \subseteq There' \cup past'
    BY <1>1, <1>2, <1>6
  <2>3. walk'.placed \subseteq Placeable(walk'.listing, times')
    BY <1>6 DEF kept
  <2> QED
    BY <2>1, <2>2, <2>3 DEF Dated
<1>10. UnderWay'
  BY <1>1, <1>6 DEF UnderWay, Start
<1>11. ASSUME NEW s \in There, s # r
       PROVE  After(walk.listing, walk.cursor, s)' = After(l, c, s)
  <2>1. times'[s] = times[s]
    BY <1>3, <1>11 DEF There
  <2> QED
    BY <1>1, <1>6, <2>1, AfterAlike
<1>12. ASSUME l.cursor # "offset" PROVE Reached'
  <2>1. kept \subseteq walk.placed
    BY DEF kept
  <2>2. ASSUME NEW s \in walk'.steady \cap walk'.placed
        PROVE  After(walk.listing, walk.cursor, s)' \/ s \in ToSet(walk'.shown)
    <3>1. s \in There /\ s # r /\ s \in walk.steady \cap walk.placed
      BY <1>1, <1>6, <2>1, <2>2
    <3>2. After(l, c, s) \/ s \in ToSet(walk.shown)
      BY <1>1, <1>12, <3>1 DEF ListInv, Reached
    <3> QED
      BY <1>6, <1>11, <3>1, <3>2
  <2>3. ASSUME l.cursor \in {"compound", "id"},
               NEW s \in ToSet(walk'.shown) \cap There' \cap walk'.placed
        PROVE  ~After(walk.listing, walk.cursor, s)'
    <3>1. CASE s # r
      <4>1. s \in There /\ ~After(l, c, s)
        BY <1>1, <1>2, <1>6, <1>12, <2>1, <2>3, <3>1 DEF ListInv, Reached
      <4> QED
        BY <1>11, <3>1, <4>1
    <3>2. CASE s = r
      <4>1. T # {} /\ r \in ToSet(walk.shown) /\ r \in walk.placed
        BY <1>2, <1>6, <2>1, <2>3, <3>2
      <4>2. r \in There /\ Min(T) = Min(times[r]) /\ Max(T) \in Int /\ Max(T) >= Max(times[r])
        BY <4>1 DEF Keeps
      <4>3. ~After(l, c, r)
        BY <1>1, <1>12, <2>3, <4>1, <4>2 DEF ListInv, Reached
      <4>4. Min(times[r]) \in Int /\ Max(times[r]) \in Int /\ c.key \in Int
        BY <1>1, <4>2, TimesOfRow, CursorNumbers
      <4>5. CASE l.cursor = "id"
        BY <1>6, <3>2, <4>3, <4>5 DEF After, Start
      <4>6. CASE l.cursor = "compound" /\ l.sort = "created"
        BY <1>3, <1>6, <3>2, <4>2, <4>3, <4>6 DEF After, Start, KeyOf
      <4>7. CASE l.cursor = "compound" /\ l.sort = "updated"
        <5>1. c # Start /\ ~(Max(times[r]) < c.key) /\ ~(Max(times[r]) = c.key /\ r < c.id)
          BY <4>3, <4>7 DEF After, KeyOf
        <5>2. ~(Max(T) < c.key) /\ ~(Max(T) = c.key /\ r < c.id)
          BY <4>2, <4>4, <5>1
        <5> QED
          BY <1>3, <1>6, <3>2, <4>7, <5>1, <5>2 DEF After, Start, KeyOf
      <4> QED
        BY <1>1, <2>3, <4>5, <4>6, <4>7, ListingKinds
    <3> QED
      BY <3>1, <3>2
  <2> QED
    BY <1>6, <2>2, <2>3 DEF Reached
<1>13. Homed' /\ WalkIsExact'
  <2>1. kept \subseteq walk.placed
    BY DEF kept
  <2>2. \A s, i : AtFirst(s, i)' <=> AtFirst(s, i)
    BY <1>6 DEF AtFirst
  <2>3. Homed'
    BY <1>1, <1>6, <2>1, <2>2 DEF ListInv, Homed
  <2>4. WalkIsExact'
    BY <1>6, <2>1 DEF ListInv, WalkIsExact
  <2> QED
    BY <2>3, <2>4
<1>14. l.cursor = "offset" => Reached'
  BY <1>6 DEF Reached
<1> QED
  BY <1>8, <1>9, <1>10, <1>12, <1>13, <1>14 DEF ListInv

LEMMA InsertKeeps == ASSUME ListInv, NEW r \in ListRows, Inserted(r) PROVE ListInv'
<1>1. now \in 1 .. LastTime
  BY DEF ListInv, ListTypeOK
<1>2. {now} \in SUBSET (1 .. LastTime) /\ \A t \in {now} : t <= now
  BY <1>1, ListBounds
<1>3. Keeps(r, {now})
  BY DEF Inserted, ListInv, Dated, Keeps
<1> QED
  BY <1>2, <1>3, ChangeKeeps DEF Inserted

LEMMA UpdateKeeps == ASSUME ListInv, NEW r \in ListRows, Updated(r) PROVE ListInv'
<1> DEFINE T == times[r] \cup {now}
<1>1. now \in 1 .. LastTime /\ Timed /\ r \in There /\ r \notin past
      /\ times[r] \subseteq 1 .. LastTime /\ \A t \in times[r] : t <= now
  BY DEF ListInv, ListTypeOK, Updated, Timed, Dated
<1>2. T \in SUBSET (1 .. LastTime) /\ T # {} /\ (\A t \in T : t <= now) /\ now \in Nat
  BY <1>1, ListBounds
<1>3. /\ Min(times[r]) \in times[r] /\ Max(times[r]) \in times[r]
      /\ \A t \in times[r] : t \in Nat /\ Min(times[r]) <= t /\ t <= Max(times[r])
  BY <1>1, TimesOfRow
<1>4. /\ Min(T) \in T /\ \A t \in T : Min(T) <= t
      /\ Max(T) \in T /\ \A t \in T : t <= Max(T)
  <2>1. T \subseteq Nat /\ T \subseteq 0 .. LastTime
    BY <1>2, ListBounds
  <2> HIDE DEF T
  <2> QED
    BY <1>2, <2>1, Least, Greatest, ListBounds
<1>5. Min(T) = Min(times[r]) /\ Max(T) \in Int /\ Max(T) >= Max(times[r])
  <2>1. Min(times[r]) \in T /\ Max(times[r]) \in T /\ Min(times[r]) <= now
    BY <1>1, <1>3
  <2>2. \A t \in T : t \in Nat /\ Min(times[r]) <= t
    BY <1>2, <1>3, <2>1
  <2> HIDE DEF T
  <2> QED
    BY <1>3, <1>4, <2>1, <2>2
<1>6. Keeps(r, T)
  <2> HIDE DEF T
  <2> QED
    BY <1>1, <1>5 DEF Keeps
<1> QED
  BY <1>1, <1>2, <1>6, ChangeKeeps DEF Updated

LEMMA DeleteKeeps == ASSUME ListInv, NEW r \in ListRows, Deleted(r) PROVE ListInv'
<1>1. Keeps(r, {}) /\ {} \in SUBSET (1 .. LastTime) /\ \A t \in {} : t <= now
  BY DEF Keeps
<1> QED
  BY <1>1, ChangeKeeps DEF Deleted

LEMMA TimeKeeps == ASSUME ListInv, TimePasses PROVE ListInv'
<1>1. times' = times /\ past' = past /\ walk' = walk /\ changes' = changes /\ now' = now + 1
      /\ now < LastTime /\ now \in 1 .. LastTime /\ There' = There
  BY DEF TimePasses, ListInv, ListTypeOK, There
<1>2. ListTypeOK'
  BY <1>1, ListBounds DEF ListInv, ListTypeOK
<1>3. Dated'
  <2>1. \A r \in ListRows : \A t \in times[r] : t <= now /\ t \in Int
    BY DEF ListInv, Dated, ListTypeOK
  <2>2. \A r \in ListRows : \A t \in times'[r] : t <= now'
    BY <1>1, <2>1
  <2>3. Placeable(walk.listing, times)' = Placeable(walk.listing, times)
    BY <1>1, PlaceableAlike
  <2> QED
    BY <1>1, <2>2, <2>3 DEF ListInv, Dated
<1>4. \A r : After(walk.listing, walk.cursor, r)' = After(walk.listing, walk.cursor, r)
  BY <1>1, AfterAlike DEF ListInv, ListTypeOK
<1>5. Reached'
  BY <1>1, <1>4 DEF ListInv, Reached
<1>6. Homed'
  BY <1>1 DEF ListInv, Homed, AtFirst
<1> QED
  BY <1>1, <1>2, <1>3, <1>5, <1>6 DEF ListInv, UnderWay, WalkIsExact, Start

LEMMA ListStep == ListInv /\ [ListNext]_listVars => ListInv'
<1> SUFFICES ASSUME ListInv, [ListNext]_listVars PROVE ListInv'
  OBVIOUS
<1>1. CASE ReadsPage
  BY <1>1, PageKeeps
<1>2. CASE TimePasses
  BY <1>2, TimeKeeps
<1>3. CASE \E r \in ListRows : Inserted(r) \/ Updated(r) \/ Deleted(r)
  BY <1>3, InsertKeeps, UpdateKeeps, DeleteKeeps
<1>4. CASE UNCHANGED listVars
  <2>1. times' = times /\ past' = past /\ walk' = walk /\ changes' = changes /\ now' = now
        /\ There' = There
    BY <1>4 DEF listVars, There
  <2>2. /\ \A r : After(walk.listing, walk.cursor, r)' = After(walk.listing, walk.cursor, r)
        /\ Placeable(walk.listing, times)' = Placeable(walk.listing, times)
    BY <2>1, AfterAlike, PlaceableAlike DEF ListInv, ListTypeOK
  <2>3. Reached' /\ Dated' /\ Homed'
    BY <2>1, <2>2 DEF ListInv, Reached, Dated, Homed, AtFirst
  <2> QED
    BY <2>1, <2>3 DEF ListInv, ListTypeOK, UnderWay, WalkIsExact, Start
<1> QED
  BY <1>1, <1>2, <1>3, <1>4 DEF ListNext

LEMMA ListStart == ListInit => ListInv
<1> SUFFICES ASSUME ListInit PROVE ListInv
  OBVIOUS
<1>1. Timed /\ past = {} /\ changes = 0
  BY DEF ListInit, Timed
<1> DEFINE D == {1} \cup UNION {times[r] : r \in ListRows}
<1>2. D \subseteq 1 .. LastTime /\ D # {}
  BY <1>1, ListBounds DEF Timed
<1>3. now \in 1 .. LastTime /\ \A t \in D : t <= now
  <2>1. D \subseteq 0 .. LastTime
    BY <1>2, ListBounds
  <2>2. now = Max(D)
    BY DEF ListInit
  <2> HIDE DEF D
  <2> QED
    BY <1>2, <2>1, <2>2, Greatest, ListBounds
<1> DEFINE Home(l) == IF l.cursor = "offset" THEN Sorted(l, Start, FALSE, Scanned(l)) ELSE <<>>
<1>0. PICK l \in Listings :
        walk = [listing |-> l, at |-> "on", pages |-> 0, cursor |-> Start, shown |-> <<>>,
                steady |-> There, home |-> Home(l),
                placed |-> IF l.cursor = "offset" THEN ToSet(Home(l)) ELSE Placeable(l, times)]
  BY DEF ListInit
<1> DEFINE home == Home(l)
<1>4. /\ home = IF l.cursor = "offset" THEN Sorted(l, Start, FALSE, Scanned(l)) ELSE <<>>
      /\ walk = [listing |-> l, at |-> "on", pages |-> 0, cursor |-> Start, shown |-> <<>>,
                 steady |-> There, home |-> home,
                 placed |-> IF l.cursor = "offset" THEN ToSet(home) ELSE Placeable(l, times)]
  BY <1>0
<1> HIDE DEF Home, home
<1>5. Start \in Cursors /\ There \in SUBSET ListRows
  BY ListBounds DEF Start, Cursors, There
<1>6. Placeable(l, times) \in SUBSET ListRows /\ (l.cursor = "offset" => Placeable(l, times) = ListRows)
  <2>1. CASE l.cursor = "id" /\ l.sort = "created"
    BY <2>1 DEF Placeable
  <2>2. CASE l.cursor = "last"
    BY <2>2 DEF Placeable
  <2>3. CASE l.cursor = "offset"
    BY <2>3 DEF Placeable
  <2>4. CASE l.cursor = "compound" \/ (l.cursor = "id" /\ l.sort = "id")
    BY <2>4 DEF Placeable
  <2> QED
    BY <2>1, <2>2, <2>3, <2>4, ListingKinds
<1>7. home \in Seq(ListRows) /\ (l.cursor = "offset" => IsInjective(home))
  <2>1. CASE l.cursor = "offset"
    <3>1. Scanned(l) \in SUBSET There
      BY DEF Scanned
    <3>2. l.sort # "last"
      BY <2>1, ListingKinds
    <3>3. \A r \in Scanned(l) : KeyOf(l, Start, r) \in Int
      BY <1>1, <1>5, <3>1, <3>2, KeyIsNumber
    <3>4. home \in Seq(Scanned(l)) /\ IsInjective(home)
      BY <1>1, <1>4, <1>5, <2>1, <3>1, <3>3, SortedIsSorted
    <3>5. Scanned(l) \subseteq ListRows
      BY <1>5, <3>1
    <3> QED
      BY <3>4, <3>5
  <2>2. CASE l.cursor # "offset"
    BY <1>4, <2>2
  <2> QED
    BY <2>1, <2>2
<1>8. walk.placed \in SUBSET ListRows /\ walk.placed \subseteq Placeable(l, times)
  <2>1. ToSet(home) \subseteq ListRows
    BY <1>7 DEF ToSet
  <2> QED
    BY <1>4, <1>6, <2>1
<1>9. walk \in Walks
  <2>1. 0 \in 0 .. PageCap /\ <<>> \in Seq(ListRows)
    BY ListBounds
  <2> QED
    BY <1>4, <1>5, <1>7, <1>8, <2>1 DEF Walks
<1>10. ListTypeOK
  BY <1>1, <1>3, <1>9, ListBounds DEF ListTypeOK, Timed, Walks, Cursors, There
<1>11. Dated
  <2>1. \A r \in ListRows : \A t \in times[r] : t <= now
    BY <1>3
  <2>2. ToSet(walk.shown) = {} /\ walk.steady = There /\ walk.listing = l
    BY <1>4 DEF ToSet
  <2> QED
    BY <1>8, <2>1, <2>2 DEF Dated
<1>12. UnderWay
  BY <1>4, ListBounds DEF UnderWay
<1>13. Reached
  <2>1. \A r : After(walk.listing, walk.cursor, r)
    BY <1>4 DEF After
  <2>2. ToSet(walk.shown) = {}
    BY <1>4 DEF ToSet
  <2> QED
    BY <2>1, <2>2 DEF Reached
<1>14. Homed
  <2>1. 0 * PageSize = 0
    <3>1. \A n \in Nat : 0 * n = 0
      OBVIOUS
    <3> QED
      BY <3>1, ListBounds
  <2>2. walk.shown = <<>> /\ walk.pages = 0 /\ walk.home = home /\ walk.listing = l
    BY <1>4
  <2>3. l.cursor = "offset" => walk.placed = ToSet(home)
    BY <1>4
  <2> QED
    BY <1>7, <2>1, <2>2, <2>3 DEF Homed
<1>15. WalkIsExact
  BY <1>4 DEF WalkIsExact
<1> QED
  BY <1>10, <1>11, <1>12, <1>13, <1>14, <1>15 DEF ListInv

LEMMA ListInvariant == ListSpec => []ListInv
  BY ListStart, ListStep, PTL DEF ListSpec

\* The variables of a walk keep their types; in particular every page is of rows of the
\* collection, whatever was inserted and deleted since the page before.
THEOREM ListTypesCorrect == ListSpec => []ListTypeOK
<1>1. ListInv => ListTypeOK
  BY DEF ListInv
<1> QED
  BY <1>1, ListInvariant, PTL

\* For every collection, page size, window, cap and number of changes, and whichever pages
\* could not read their counts, a walk by the cursors the repositories build shows each row
\* whose place its cursor can tell, if nothing changed it, and none of them twice.
THEOREM WalksAreExact == ListSpec => []WalkIsExact
<1>1. ListInv => WalkIsExact
  BY DEF ListInv
<1> QED
  BY <1>1, ListInvariant, PTL

-----------------------------------------------------------------------------
(***************************************************************************)
(* OutfitBatches.  First the types; then, operator by operator, what       *)
(* cleaning, validation, the fallback and padding leave of the outfits     *)
(* they are given; last, that a batch in the cache is one its owner may be *)
(* shown, and so is the one in the request.                                *)
(***************************************************************************)
\* The fields of the request that a step leaves alone keep their types.
ReqTypes ==
  /\ req.at \in {"idle", "read", "missed", "built", "judged", "served"}
  /\ req.own \subseteq Own /\ req.fillers \subseteq Fillers /\ req.setting \in Settings \cup {{}}
  /\ DOMAIN req = {"at", "own", "fillers", "setting", "batch", "degraded", "hit"}
  /\ req = [f \in DOMAIN req |-> req[f]]
  /\ req.at \notin {"idle", "served"} => req.setting \in Settings

BatchTypes == BatchTypeOK /\ ReqTypes

LEMMA BatchStart == BatchInit => BatchTypes
BY BatchAssumption DEF BatchInit, BatchTypes, BatchTypeOK, ReqTypes, Idle

LEMMA BatchStep == BatchTypes /\ [BatchNext]_batchVars => BatchTypes'
<1> SUFFICES ASSUME BatchTypes, [BatchNext]_batchVars PROVE BatchTypes'
  OBVIOUS
<1> USE DEF BatchTypes, BatchTypeOK
<1>1. CASE ReadsPool
  <2>1. PICK s \in Settings, excluded \in {rejections, {}} :
          \E sample \in kSubset(Min({FillerCap, Cardinality(Fillers \ excluded)}),
                                Fillers \ excluded) \cup {{}} :
            req' = [Idle EXCEPT !.own = owned, !.setting = s,
                      !.at = IF owned = {} THEN "served" ELSE "read",
                      !.fillers = IF owned = {} THEN {} ELSE sample]
    BY <1>1 DEF ReadsPool
  <2>2. PICK sample \in SUBSET Fillers :
          req' = [Idle EXCEPT !.own = owned, !.setting = s,
                    !.at = IF owned = {} THEN "served" ELSE "read",
                    !.fillers = IF owned = {} THEN {} ELSE sample]
    BY <2>1 DEF kSubset
  <2>3. ReqTypes'
    BY <2>2 DEF ReqTypes, Idle
  <2>4. runsBegun' \in 0 .. MaxRuns
    BY <1>1, BatchAssumption DEF ReadsPool
  <2> QED
    BY <1>1, <2>3, <2>4 DEF ReadsPool, ReqTypes
<1>2. CASE LooksUpBatch
  <2>1. ReqTypes'
    BY <1>2 DEF LooksUpBatch, ReqTypes
  <2> QED
    BY <1>2, <2>1 DEF LooksUpBatch, ReqTypes
<1>3. CASE BuildsOutfits
  <2>1. PICK b, d : req' = [req EXCEPT !.at = "built", !.batch = b, !.degraded = d]
    BY <1>3 DEF BuildsOutfits
  <2>2. req.at = "missed"
    BY <1>3 DEF BuildsOutfits
  <2>3. ReqTypes'
    BY <2>1, <2>2 DEF ReqTypes
  <2> QED
    BY <1>3, <2>3 DEF BuildsOutfits, ReqTypes
<1>4. CASE Criticised
  <2>1. PICK b : req' = [req EXCEPT !.at = "judged", !.batch = b]
    <3>1. CASE req' = [req EXCEPT !.at = "judged"]
      <4>1. req' = [req EXCEPT !.at = "judged", !.batch = req.batch]
        BY <3>1 DEF ReqTypes
      <4> QED
        BY <4>1
    <3>2. CASE ~(req' = [req EXCEPT !.at = "judged"])
      BY <1>4, <3>2 DEF Criticised
    <3> QED
      BY <3>1, <3>2
  <2>2. req.at = "built"
    BY <1>4 DEF Criticised
  <2>3. ReqTypes'
    BY <2>1, <2>2 DEF ReqTypes
  <2> QED
    BY <1>4, <2>3 DEF Criticised, ReqTypes
<1>5. CASE ServesBatch
  <2>1. ReqTypes'
    BY <1>5 DEF ServesBatch, ReqTypes
  <2>2. Key \in (SUBSET Own) \X Settings
    BY <1>5 DEF ServesBatch, Key, ReqTypes
  <2>3. DOMAIN outfitCache' \subseteq (SUBSET Own) \X Settings
    BY <1>5, <2>2 DEF ServesBatch
  <2> QED
    BY <1>5, <2>1, <2>3 DEF ServesBatch, ReqTypes
<1>6. CASE ChangesPool
  BY <1>6, BatchAssumption DEF ChangesPool, ReqTypes
<1>7. CASE EntryExpires
  <2>1. DOMAIN outfitCache' \subseteq DOMAIN outfitCache
    BY <1>7 DEF EntryExpires, Restrict
  <2> QED
    BY <1>7, <2>1 DEF EntryExpires, ReqTypes
<1>8. CASE UNCHANGED batchVars
  BY <1>8 DEF batchVars, ReqTypes
<1> QED
  BY <1>1, <1>2, <1>3, <1>4, <1>5, <1>6, <1>7, <1>8 DEF BatchNext

\* The variables of a request for outfits keep their types: what it read is of the user and
\* of the defaults, and a cached batch is under the wardrobe and setting of a request.
THEOREM BatchTypesCorrect == BatchSpec => []BatchTypeOK
<1>1. BatchTypes => BatchTypeOK
  BY DEF BatchTypes
<1> QED
  BY <1>1, BatchStart, BatchStep, PTL DEF BatchSpec

\* The positions that the elements of Taken(s, kept) come from, in order, each once.
Places(f, s, kept) ==
  /\ f \in [1 .. Cardinality(kept) -> kept]
  /\ \A i \in 1 .. Cardinality(kept) : Taken(s, kept)[i] = s[f[i]]
  /\ \A i, j \in 1 .. Cardinality(kept) : i < j => f[i] < f[j]
  /\ \A k \in kept : \E i \in 1 .. Cardinality(kept) : f[i] = k

\* A sequence at some of its positions: as many elements, each from its position, in order.
LEMMA TakenElements ==
  ASSUME NEW s, NEW kept, IsFiniteSet(kept), kept \subseteq Int
  PROVE  /\ Cardinality(kept) \in Nat /\ DOMAIN Taken(s, kept) = 1 .. Cardinality(kept)
         /\ \E f : Places(f, s, kept)
<1> DEFINE R == {p \in kept \X kept : p[1] < p[2]}
           n == Cardinality(kept)
           Before(i) == {j \in kept : j < i}
           At(i) == CHOOSE k \in kept : Cardinality(Before(k)) = i - 1
           f == [i \in 1 .. n |-> At(i)]
<1>1. \A i, j \in kept : <<i, j>> \in R <=> i < j
  OBVIOUS
<1>2. OrderOf(R, kept)
  <2>1. \A x \in kept : <<x, x>> \notin R
    BY <1>1
  <2>2. ASSUME NEW x \in kept, NEW y \in kept
        PROVE  x = y \/ <<x, y>> \in R \/ <<y, x>> \in R
    <3>1. x \in Int /\ y \in Int
      OBVIOUS
    <3>2. x = y \/ x < y \/ y < x
      BY <3>1
    <3> HIDE DEF R
    <3> QED
      BY <1>1, <3>2
  <2>3. \A x, y, z \in kept : <<x, y>> \in R /\ <<y, z>> \in R => <<x, z>> \in R
    BY <1>1
  <2> QED
    BY <2>1, <2>2, <2>3 DEF OrderOf
<1>3. RankedBy(f, R, kept)
  <2>1. \A x \in kept : Before(x) = {j \in kept : <<j, x>> \in R}
    BY <1>1
  <2>2. f = [i \in 1 .. n |-> f[i]]
    <3> HIDE DEF At
    <3> QED
      OBVIOUS
  <2>3. ASSUME NEW i \in 1 .. n, NEW x \in kept, Cardinality(Before(x)) = i - 1
        PROVE  f[i] \in kept /\ Cardinality(Before(f[i])) = i - 1
    BY <2>3
  <2> HIDE DEF R, f, Before
  <2> QED
    BY <2>1, <2>2, <2>3 DEF RankedBy
<1>4. /\ n \in Nat /\ f \in [1 .. n -> kept]
      /\ \A i, j \in 1 .. n : i < j => <<f[i], f[j]>> \in R
      /\ \A k \in kept : \E i \in 1 .. n : f[i] = k
  <2> HIDE DEF R, f
  <2> QED
    BY <1>2, <1>3, Ranking
<1>5. \A i, j \in 1 .. n : i < j => f[i] < f[j]
  BY <1>4, <1>1
<1>6. DOMAIN Taken(s, kept) = 1 .. n /\ \A i \in 1 .. n : Taken(s, kept)[i] = s[f[i]]
  BY DEF Taken
<1>7. Places(f, s, kept)
  <2> HIDE DEF f
  <2> QED
    BY <1>4, <1>5, <1>6 DEF Places
<1> QED
  BY <1>4, <1>6, <1>7

LEMMA SetOfElements == \A s : ToSet(s) = {s[i] : i \in DOMAIN s}
BY DEF ToSet

LEMMA IsSeqParts ==
  ASSUME NEW s, IsSeq(s)
  PROVE  /\ Len(s) \in Nat /\ DOMAIN s = 1 .. Len(s)
         /\ IsFiniteSet(DOMAIN s) /\ DOMAIN s \subseteq Int
<1>1. Len(s) \in Nat /\ DOMAIN s = 1 .. Len(s)
  BY DEF IsSeq
<1> QED
  BY <1>1, FS_Interval

\* What is taken from a sequence is one, of elements of it.
LEMMA TakenIsSeq ==
  ASSUME NEW s, NEW kept, IsFiniteSet(kept), kept \subseteq Int, NEW S,
         \A i \in kept : s[i] \in S
  PROVE  /\ Taken(s, kept) \in Seq(S) /\ Len(Taken(s, kept)) = Cardinality(kept)
         /\ Cardinality(kept) \in Nat
         /\ ToSet(Taken(s, kept)) = {s[i] : i \in kept}
<1> DEFINE t == Taken(s, kept)
           n == Cardinality(kept)
<1>1. n \in Nat /\ DOMAIN t = 1 .. n
  BY TakenElements
<1>2. PICK f : Places(f, s, kept)
  BY TakenElements
<1>3. t = [i \in 1 .. n |-> t[i]]
  BY <1>1 DEF Taken
<1> HIDE DEF t
<1>4. /\ \A i \in 1 .. n : f[i] \in kept /\ t[i] = s[f[i]] /\ t[i] \in S
      /\ \A k \in kept : \E i \in 1 .. n : f[i] = k
  BY <1>2 DEF Places, t
<1>5. t \in Seq(S) /\ Len(t) = n
  BY <1>1, <1>3, <1>4
<1>6. ToSet(t) = {s[i] : i \in kept}
  <2>1. ToSet(t) = {t[i] : i \in 1 .. n}
    BY <1>1 DEF ToSet
  <2>2. \A i \in 1 .. n : t[i] \in {s[k] : k \in kept}
    BY <1>4
  <2>3. \A k \in kept : s[k] \in {t[i] : i \in 1 .. n}
    BY <1>4
  <2> QED
    BY <2>1, <2>2, <2>3
<1> QED
  BY <1>1, <1>5, <1>6 DEF t

LEMMA IsSeqOfSet == \A S : \A s \in Seq(S) : IsSeq(s) /\ ToSet(s) \subseteq S
<1> SUFFICES ASSUME NEW S, NEW s \in Seq(S) PROVE IsSeq(s) /\ ToSet(s) \subseteq S
  OBVIOUS
<1>1. Len(s) \in Nat /\ DOMAIN s = 1 .. Len(s) /\ \A i \in 1 .. Len(s) : s[i] \in S
  OBVIOUS
<1>2. s = [i \in 1 .. Len(s) |-> s[i]]
  OBVIOUS
<1>3. \A i \in 1 .. Len(s) : s[i] \in ToSet(s)
  BY <1>1 DEF ToSet
<1>4. s \in Seq(ToSet(s))
  BY <1>1, <1>2, <1>3
<1> QED
  BY <1>1, <1>4 DEF IsSeq, ToSet

\* Outfits as a generator or the fallback proposes them.
Outfits(raw) == IsSeq(raw) /\ \A i \in DOMAIN raw : IsSeq(raw[i])

\* Outfits as they may be shown, of the items of a pool.
Alike(batch) == \E i, j \in DOMAIN batch : i # j /\ SameItems(batch[i], batch[j])
Fine(batch, pool) ==
  /\ Outfits(batch) /\ ~Alike(batch)
  /\ \A i \in DOMAIN batch : Wearable(batch[i]) /\ ToSet(batch[i]) \subseteq pool

LEMMA SameBothWays == \A o, p : SameItems(o, p) => SameItems(p, o)
BY DEF SameItems

\* Cleaning drops the ids that are not in the pool, and only those.
LEMMA CleanedOutfit ==
  ASSUME NEW o, IsSeq(o), NEW pool
  PROVE  /\ IsSeq(Cleaned(o, pool)) /\ ToSet(Cleaned(o, pool)) \subseteq pool
         /\ ToSet(o) \subseteq pool /\ Wearable(o) => Wearable(Cleaned(o, pool))
<1> DEFINE kept == {i \in DOMAIN o : o[i] \in pool}
           c == Taken(o, kept)
<1>1. /\ Len(o) \in Nat /\ DOMAIN o = 1 .. Len(o)
      /\ IsFiniteSet(DOMAIN o) /\ DOMAIN o \subseteq Int
  BY IsSeqParts
<1>2. IsFiniteSet(kept) /\ kept \subseteq Int /\ \A i \in kept : o[i] \in pool
  <2>1. kept \subseteq DOMAIN o
    OBVIOUS
  <2> QED
    BY <1>1, <2>1, FS_Subset
<1>3. c \in Seq(pool) /\ Len(c) = Cardinality(kept) /\ ToSet(c) = {o[i] : i \in kept}
  <2> HIDE DEF kept
  <2> QED
    BY <1>2, TakenIsSeq
<1>4. IsSeq(c) /\ ToSet(c) \subseteq pool
  <2> HIDE DEF c
  <2> QED
    BY <1>3, IsSeqOfSet
<1>5. ASSUME ToSet(o) \subseteq pool, Wearable(o) PROVE Wearable(c)
  <2>1. kept = DOMAIN o
    BY <1>5 DEF ToSet
  <2>2. Cardinality(DOMAIN o) = Len(o)
    <3>1. Len(o) \in Int /\ 1 \in Int
      BY <1>1
    <3>2. Cardinality(1 .. Len(o)) = IF 1 > Len(o) THEN 0 ELSE Len(o) - 1 + 1
      BY <3>1, FS_Interval
    <3> QED
      BY <1>1, <3>2
  <2>3. Len(c) = Len(o)
    BY <1>3, <2>1, <2>2
  <2>4. ToSet(c) = ToSet(o)
    BY <1>3, <2>1 DEF ToSet
  <2> HIDE DEF c
  <2> QED
    BY <1>5, <2>3, <2>4 DEF Wearable
<1> QED
  BY <1>4, <1>5 DEF Cleaned

\* What is taken of outfits that are all different: wearable, and none like another.
LEMMA TakenOutfits ==
  ASSUME NEW s, NEW kept, IsFiniteSet(kept), kept \subseteq Int, NEW pool,
         \A i \in kept : IsSeq(s[i]) /\ Wearable(s[i]) /\ ToSet(s[i]) \subseteq pool,
         \A i, j \in kept : j < i => ~SameItems(s[i], s[j])
  PROVE  Fine(Taken(s, kept), pool)
<1> DEFINE n == Cardinality(kept)
           t == Taken(s, kept)
<1>1. n \in Nat /\ DOMAIN t = 1 .. n
  BY TakenElements
<1>2. PICK f : Places(f, s, kept)
  BY TakenElements
<1>3. /\ \A i \in 1 .. n : f[i] \in kept /\ t[i] = s[f[i]]
      /\ \A i, j \in 1 .. n : i < j => f[i] < f[j]
  BY <1>2 DEF Places
<1> HIDE DEF t, n
<1>4. IsSeq(t)
  <2> DEFINE S == {s[i] : i \in kept}
  <2>1. \A i \in kept : s[i] \in S
    OBVIOUS
  <2> HIDE DEF S
  <2>2. t \in Seq(S)
    BY <2>1, TakenIsSeq DEF t
  <2> QED
    BY <2>2, IsSeqOfSet
<1>5. \A i \in DOMAIN t : IsSeq(t[i]) /\ Wearable(t[i]) /\ ToSet(t[i]) \subseteq pool
  BY <1>1, <1>3
<1>6. ASSUME NEW i \in DOMAIN t, NEW j \in DOMAIN t, i # j PROVE ~SameItems(t[i], t[j])
  <2>1. i \in 1 .. n /\ j \in 1 .. n
    BY <1>1
  <2>2. i < j \/ j < i
    BY <1>1, <1>6, <2>1
  <2>3. CASE j < i
    BY <1>3, <2>1, <2>3
  <2>4. CASE i < j
    <3>1. f[i] < f[j] /\ f[i] \in kept /\ f[j] \in kept
      BY <1>3, <2>1, <2>4
    <3>2. ~SameItems(s[f[j]], s[f[i]])
      BY <3>1
    <3> QED
      BY <1>3, <2>1, <3>2, SameBothWays
  <2> QED
    BY <2>2, <2>3, <2>4
<1> QED
  BY <1>4, <1>5, <1>6 DEF Fine, Alike, Outfits, t

\* Validation: what is left may be shown, and something is left if an outfit can be worn.
LEMMA ValidatedOutfits ==
  ASSUME NEW raw, Outfits(raw), NEW pool
  PROVE  /\ Fine(Validated(raw, pool), pool)
         /\ (\E i \in DOMAIN raw : Wearable(Cleaned(raw[i], pool)))
              => Len(Validated(raw, pool)) > 0
<1> DEFINE cleaned == [i \in DOMAIN raw |-> Cleaned(raw[i], pool)]
           fit     == {i \in DOMAIN raw : Wearable(cleaned[i])}
           kept    == {i \in fit : \A j \in fit : j < i => ~SameItems(cleaned[i], cleaned[j])}
<1>1. /\ Len(raw) \in Nat /\ DOMAIN raw = 1 .. Len(raw) /\ IsFiniteSet(DOMAIN raw)
      /\ DOMAIN raw \subseteq Int
  BY IsSeqParts DEF Outfits
<1>2. Validated(raw, pool) = Taken(cleaned, kept)
  BY DEF Validated
<1>3. \A i \in DOMAIN raw : IsSeq(cleaned[i]) /\ ToSet(cleaned[i]) \subseteq pool
  BY CleanedOutfit DEF Outfits
<1>4. /\ kept \subseteq fit /\ fit \subseteq DOMAIN raw /\ \A i \in fit : Wearable(cleaned[i])
      /\ \A i \in fit : cleaned[i] = Cleaned(raw[i], pool)
      /\ \A i, j \in kept : j < i => ~SameItems(cleaned[i], cleaned[j])
      /\ \A i \in fit : (\A j \in fit : ~(j < i)) => i \in kept
      /\ \A i \in DOMAIN raw : Wearable(Cleaned(raw[i], pool)) => i \in fit
  OBVIOUS
<1> HIDE DEF cleaned, fit, kept
<1>5. IsFiniteSet(kept) /\ kept \subseteq Int
  BY <1>1, <1>4, FS_Subset
<1>6. Fine(Taken(cleaned, kept), pool)
  <2>1. \A i \in kept : /\ IsSeq(cleaned[i]) /\ Wearable(cleaned[i])
                        /\ ToSet(cleaned[i]) \subseteq pool
    BY <1>3, <1>4
  <2> QED
    BY <1>4, <1>5, <2>1, TakenOutfits
<1>7. ASSUME fit # {} PROVE Len(Taken(cleaned, kept)) > 0
  <2>1. fit \subseteq Nat
    BY <1>1, <1>4
  <2>2. PICK m \in fit : \A t \in fit : m <= t
    BY <1>7, <2>1, Least
  <2>3. \A j \in fit : ~(j < m)
    BY <2>1, <2>2
  <2>4. kept # {}
    BY <1>4, <2>2, <2>3
  <2>5. Cardinality(kept) # 0 /\ Cardinality(kept) \in Nat
    BY <1>5, <2>4, FS_EmptySet, FS_CardinalityType
  <2>6. Len(Taken(cleaned, kept)) = Cardinality(kept)
    <3> DEFINE S == {cleaned[i] : i \in kept}
    <3>1. \A i \in kept : cleaned[i] \in S
      OBVIOUS
    <3> HIDE DEF S
    <3> QED
      BY <1>5, <3>1, TakenIsSeq
  <2> QED
    BY <2>5, <2>6
<1> QED
  BY <1>2, <1>4, <1>6, <1>7

OfRole(pool, role) == {id \in pool : RoleOf[id] = role}

\* The items of each role, those of the pool and no others.
Bucketed(bucket, pool) ==
  \A role \in Roles : bucket[role] \in Seq(OfRole(pool, role))
                      /\ ToSet(bucket[role]) = OfRole(pool, role)

\* A ranking has every item of the pool in the bucket of its role.
LEMMA RankedItems ==
  ASSUME NEW pool, pool \subseteq DOMAIN RoleOf, NEW ranking \in Rankings
  PROVE  Bucketed(Ranked(pool, ranking), pool)
<1> SUFFICES ASSUME NEW role \in Roles
             PROVE  /\ Ranked(pool, ranking)[role] \in Seq(OfRole(pool, role))
                    /\ ToSet(Ranked(pool, ranking)[role]) = OfRole(pool, role)
  BY DEF Bucketed
<1> DEFINE kept == {n \in DOMAIN ranking : ranking[n] \in pool /\ RoleOf[ranking[n]] = role}
<1>1. ranking \in Seq(DOMAIN RoleOf) /\ ToSet(ranking) = DOMAIN RoleOf
  BY BatchAssumption
<1>2. IsFiniteSet(DOMAIN ranking) /\ DOMAIN ranking \subseteq Int
  BY <1>1, IsSeqOfSet, IsSeqParts
<1>3. IsFiniteSet(kept) /\ kept \subseteq Int
  <2>1. kept \subseteq DOMAIN ranking
    OBVIOUS
  <2> QED
    BY <1>2, <2>1, FS_Subset
<1>4. Ranked(pool, ranking)[role] = Taken(ranking, kept)
  BY DEF Ranked
<1>5. \A i \in kept : ranking[i] \in OfRole(pool, role)
  BY DEF OfRole
<1>6. {ranking[i] : i \in kept} = OfRole(pool, role)
  <2>1. ASSUME NEW id \in OfRole(pool, role) PROVE \E i \in kept : ranking[i] = id
    <3>1. id \in ToSet(ranking) /\ id \in pool /\ RoleOf[id] = role
      BY <1>1 DEF OfRole
    <3>2. PICK i \in DOMAIN ranking : ranking[i] = id
      BY <3>1 DEF ToSet
    <3> QED
      BY <3>1, <3>2
  <2> HIDE DEF kept
  <2> QED
    BY <1>5, <2>1
<1> HIDE DEF kept
<1>7. /\ Taken(ranking, kept) \in Seq(OfRole(pool, role))
      /\ ToSet(Taken(ranking, kept)) = {ranking[i] : i \in kept}
  BY <1>3, <1>5, TakenIsSeq
<1> QED
  BY <1>4, <1>6, <1>7

LEMMA NoElements == \A S : \A s \in Seq(S) : /\ s = <<>> <=> ToSet(s) = {}
                                            /\ s = <<>> <=> Len(s) = 0
<1> SUFFICES ASSUME NEW S, NEW s \in Seq(S)
             PROVE  (s = <<>> <=> ToSet(s) = {}) /\ (s = <<>> <=> Len(s) = 0)
  OBVIOUS
<1>1. s = <<>> <=> Len(s) = 0
  OBVIOUS
<1>2. Len(s) \in Nat /\ ToSet(s) = {s[i] : i \in 1 .. Len(s)}
  BY DEF ToSet
<1>3. Len(s) = 0 <=> ToSet(s) = {}
  <2>1. Len(s) # 0 => s[1] \in ToSet(s)
    BY <1>2
  <2> QED
    BY <1>2, <2>1
<1> QED
  BY <1>1, <1>3

\* The item of a role that an outfit of the fallback gets, if there is one.
PickedOf(bucket, i, role) ==
  IF bucket[role] = <<>> THEN <<>> ELSE <<bucket[role][(i % Len(bucket[role])) + 1]>>
Basics(bucket, i) ==
  PickedOf(bucket, i, "TOPS") \o PickedOf(bucket, i, "BOTTOMS")
    \o PickedOf(bucket, i, "FOOTWEAR") \o PickedOf(bucket, i, "OUTERWEAR")
    \o PickedOf(bucket, i, "ACCESSORIES")
Spare(bucket, i) ==
  LET both == bucket["TOPS"] \o bucket["BOTTOMS"]
  IN  Taken(both, {n \in DOMAIN both : both[n] \notin ToSet(Basics(bucket, i))})

LEMMA LookIs ==
  \A bucket, i : Look(bucket, i) =
    IF Len(Basics(bucket, i)) < Floor /\ Spare(bucket, i) # <<>>
    THEN Append(Basics(bucket, i), Spare(bucket, i)[1]) ELSE Basics(bucket, i)
BY DEF Look, Basics, Spare, PickedOf

LEMMA PickedItems ==
  ASSUME NEW bucket, NEW pool, Bucketed(bucket, pool), NEW i \in Nat, NEW role \in Roles
  PROVE  LET p == PickedOf(bucket, i, role)
         IN  /\ p \in Seq(OfRole(pool, role))
             /\ OfRole(pool, role) = {} => Len(p) = 0 /\ ToSet(p) = {}
             /\ OfRole(pool, role) # {} =>
                  Len(p) = 1 /\ ToSet(p) = {p[1]} /\ p[1] \in OfRole(pool, role)
<1> DEFINE b == bucket[role]
           p == PickedOf(bucket, i, role)
<1>1. b \in Seq(OfRole(pool, role)) /\ ToSet(b) = OfRole(pool, role)
  BY DEF Bucketed
<1>2. CASE OfRole(pool, role) = {}
  <2>1. b = <<>>
    BY <1>1, <1>2, NoElements
  <2>2. p = <<>>
    BY <2>1 DEF PickedOf
  <2>3. ToSet(<<>>) = {}
    BY DEF ToSet
  <2> HIDE DEF p
  <2> QED
    BY <1>2, <2>2, <2>3 DEF p
<1>3. CASE OfRole(pool, role) # {}
  <2>1. b # <<>> /\ Len(b) # 0 /\ Len(b) \in Nat
    BY <1>1, <1>3, NoElements
  <2> DEFINE k == (i % Len(b)) + 1
  <2>2. k \in 1 .. Len(b)
    <3> HIDE DEF b
    <3>1. i % Len(b) \in 0 .. Len(b) - 1
      BY <2>1
    <3> QED
      BY <2>1, <3>1
  <2>3. b[k] \in OfRole(pool, role)
    <3> HIDE DEF b, k
    <3> QED
      BY <1>1, <2>2
  <2>4. p = <<b[k]>>
    BY <2>1 DEF PickedOf
  <2> HIDE DEF b, k, p
  <2>5. p \in Seq(OfRole(pool, role)) /\ Len(p) = 1 /\ p[1] = b[k] /\ DOMAIN p = {1}
    BY <2>3, <2>4
  <2>6. ToSet(p) = {p[1]}
    BY <2>5 DEF ToSet
  <2> QED
    BY <1>3, <2>3, <2>5, <2>6 DEF p
<1> QED
  BY <1>2, <1>3

LEMMA SeqSub == \A S, T : S \subseteq T => Seq(S) \subseteq Seq(T)
<1> SUFFICES ASSUME NEW S, NEW T, S \subseteq T, NEW s \in Seq(S) PROVE s \in Seq(T)
  OBVIOUS
<1>1. /\ Len(s) \in Nat /\ s = [i \in 1 .. Len(s) |-> s[i]]
      /\ \A i \in 1 .. Len(s) : s[i] \in S
  OBVIOUS
<1> QED
  BY <1>1

Joins(r, s, t) == r = s \o t

LEMMA ConcatParts ==
  ASSUME NEW S, NEW s \in Seq(S), NEW t \in Seq(S), NEW r, Joins(r, s, t)
  PROVE  r \in Seq(S) /\ Len(r) = Len(s) + Len(t) /\ ToSet(r) = ToSet(s) \cup ToSet(t)
<1>1. s \o t \in Seq(S) /\ Len(s \o t) = Len(s) + Len(t)
  OBVIOUS
<1>2. ToSet(s \o t) = ToSet(s) \cup ToSet(t)
  BY ConcatSet
<1> QED
  BY <1>1, <1>2 DEF Joins

FiveJoin(o, a, b, c, d, e) == o = a \o b \o c \o d \o e

LEMMA FiveParts ==
  ASSUME NEW S, NEW a \in Seq(S), NEW b \in Seq(S), NEW c \in Seq(S), NEW d \in Seq(S),
         NEW e \in Seq(S), NEW o, FiveJoin(o, a, b, c, d, e)
  PROVE  /\ o \in Seq(S) /\ Len(o) = Len(a) + Len(b) + Len(c) + Len(d) + Len(e)
         /\ ToSet(o) = ToSet(a) \cup ToSet(b) \cup ToSet(c) \cup ToSet(d) \cup ToSet(e)
<1> DEFINE p == a \o b
           q == p \o c
           r == q \o d
<1>1. Joins(p, a, b) /\ Joins(q, p, c) /\ Joins(r, q, d) /\ Joins(o, r, e)
  BY DEF Joins, FiveJoin
<1> HIDE DEF p, q, r
<1>2. p \in Seq(S) /\ Len(p) = Len(a) + Len(b) /\ ToSet(p) = ToSet(a) \cup ToSet(b)
  BY <1>1, ConcatParts
<1>3. q \in Seq(S) /\ Len(q) = Len(p) + Len(c) /\ ToSet(q) = ToSet(p) \cup ToSet(c)
  BY <1>1, <1>2, ConcatParts
<1>4. r \in Seq(S) /\ Len(r) = Len(q) + Len(d) /\ ToSet(r) = ToSet(q) \cup ToSet(d)
  BY <1>1, <1>3, ConcatParts
<1>5. o \in Seq(S) /\ Len(o) = Len(r) + Len(e) /\ ToSet(o) = ToSet(r) \cup ToSet(e)
  BY <1>1, <1>4, ConcatParts
<1> QED
  BY <1>2, <1>3, <1>4, <1>5

\* Of a role, an outfit has at most one item.
OneAtMost(o, role) == \E picked : \A id \in ToSet(o) : RoleOf[id] = role => id = picked

\* The outfit of the fallback before it is filled up: of each role that the pool has, one.
LEMMA BasicItems ==
  ASSUME NEW bucket, NEW pool, Bucketed(bucket, pool), NEW i \in Nat,
         \A role \in Required : OfRole(pool, role) # {}
  PROVE  LET o == Basics(bucket, i)
         IN  /\ o \in Seq(pool) /\ Len(o) >= 3
             /\ Required \subseteq RolesIn(ToSet(o))
             /\ (\E role \in Roles \ Required : OfRole(pool, role) # {}) => Len(o) >= Floor
             /\ OneAtMost(o, "TOPS") /\ OneAtMost(o, "BOTTOMS")
<1> DEFINE P(role) == PickedOf(bucket, i, role)
           o == Basics(bucket, i)
<1>1. \A role \in Roles :
        /\ P(role) \in Seq(OfRole(pool, role))
        /\ OfRole(pool, role) = {} => Len(P(role)) = 0 /\ ToSet(P(role)) = {}
        /\ OfRole(pool, role) # {} =>
             Len(P(role)) = 1 /\ ToSet(P(role)) = {P(role)[1]} /\ P(role)[1] \in OfRole(pool, role)
  BY PickedItems
<1>2. \A role \in Roles : P(role) \in Seq(pool) /\ Len(P(role)) \in Nat
  <2>1. \A role \in Roles : OfRole(pool, role) \subseteq pool
    BY DEF OfRole
  <2> QED
    BY <1>1, <2>1, SeqSub
<1>3. o = P("TOPS") \o P("BOTTOMS") \o P("FOOTWEAR") \o P("OUTERWEAR") \o P("ACCESSORIES")
  BY DEF Basics
<1>4. Roles = {"TOPS", "BOTTOMS", "FOOTWEAR", "OUTERWEAR", "ACCESSORIES"}
  BY DEF Roles, Required
<1> HIDE DEF P, o
<1>5. /\ o \in Seq(pool)
      /\ Len(o) = Len(P("TOPS")) + Len(P("BOTTOMS")) + Len(P("FOOTWEAR"))
                    + Len(P("OUTERWEAR")) + Len(P("ACCESSORIES"))
      /\ ToSet(o) = ToSet(P("TOPS")) \cup ToSet(P("BOTTOMS")) \cup ToSet(P("FOOTWEAR"))
                      \cup ToSet(P("OUTERWEAR")) \cup ToSet(P("ACCESSORIES"))
  <2> DEFINE a == P("TOPS")
             b == P("BOTTOMS")
             c == P("FOOTWEAR")
             d == P("OUTERWEAR")
             e == P("ACCESSORIES")
  <2>1. /\ a \in Seq(pool) /\ b \in Seq(pool) /\ c \in Seq(pool) /\ d \in Seq(pool)
        /\ e \in Seq(pool)
    BY <1>2, <1>4
  <2>2. FiveJoin(o, a, b, c, d, e)
    BY <1>3 DEF FiveJoin
  <2> HIDE DEF a, b, c, d, e
  <2>3. /\ o \in Seq(pool) /\ Len(o) = Len(a) + Len(b) + Len(c) + Len(d) + Len(e)
        /\ ToSet(o) = ToSet(a) \cup ToSet(b) \cup ToSet(c) \cup ToSet(d) \cup ToSet(e)
    BY <2>1, <2>2, FiveParts
  <2> QED
    BY <2>3 DEF a, b, c, d, e
<1>6. \A role \in Roles : \A id \in ToSet(P(role)) : id \in pool /\ RoleOf[id] = role
  <2> SUFFICES ASSUME NEW role \in Roles, NEW id \in ToSet(P(role))
               PROVE  id \in pool /\ RoleOf[id] = role
    OBVIOUS
  <2>1. id \in OfRole(pool, role)
    BY <1>1
  <2> QED
    BY <2>1 DEF OfRole
<1>7. Len(o) >= 3 /\ ((\E role \in Roles \ Required : OfRole(pool, role) # {}) => Len(o) >= Floor)
  <2>1. Len(P("TOPS")) = 1 /\ Len(P("BOTTOMS")) = 1 /\ Len(P("FOOTWEAR")) = 1
    BY <1>1, <1>4 DEF Required
  <2>2. Len(P("OUTERWEAR")) \in {0, 1} /\ Len(P("ACCESSORIES")) \in {0, 1}
    BY <1>1, <1>4
  <2>3. ASSUME NEW role \in Roles \ Required, OfRole(pool, role) # {}
        PROVE  Len(P("OUTERWEAR")) = 1 \/ Len(P("ACCESSORIES")) = 1
    BY <1>1, <1>4, <2>3 DEF Required
  <2>4. Len(o) = 3 + Len(P("OUTERWEAR")) + Len(P("ACCESSORIES"))
    <3>1. Len(o) = Len(P("TOPS")) + Len(P("BOTTOMS")) + Len(P("FOOTWEAR"))
                    + Len(P("OUTERWEAR")) + Len(P("ACCESSORIES"))
      BY <1>5
    <3>2. PICK m \in {0, 1}, n \in {0, 1} :
            m = Len(P("OUTERWEAR")) /\ n = Len(P("ACCESSORIES"))
      BY <2>2
    <3>3. Len(o) = 1 + 1 + 1 + m + n
      BY <2>1, <3>1, <3>2, Zenon
    <3>4. 1 + 1 + 1 + m + n = 3 + m + n
      OBVIOUS
    <3> QED
      BY <3>2, <3>3, <3>4, Zenon
  <2>5. Len(o) >= 3
    BY <2>2, <2>4
  <2>6. Len(P("OUTERWEAR")) = 1 \/ Len(P("ACCESSORIES")) = 1 => Len(o) >= 4
    BY <2>2, <2>4
  <2> QED
    BY <2>3, <2>5, <2>6 DEF Floor
<1>8. Required \subseteq RolesIn(ToSet(o))
  <2>1. ASSUME NEW role \in Required PROVE role \in RolesIn(ToSet(o))
    <3>1. P(role)[1] \in ToSet(P(role)) /\ RoleOf[P(role)[1]] = role
      BY <1>1, <1>6 DEF Roles
    <3>2. ToSet(P(role)) \subseteq ToSet(o)
      BY <1>5 DEF Required
    <3> QED
      BY <3>1, <3>2 DEF RolesIn
  <2> QED
    BY <2>1
<1>9. ASSUME NEW role \in {"TOPS", "BOTTOMS"}
      PROVE  \A id \in ToSet(o) : RoleOf[id] = role => id = P(role)[1]
  <2>1. ASSUME NEW id \in ToSet(o), RoleOf[id] = role PROVE id = P(role)[1]
    <3>1. PICK r \in Roles : id \in ToSet(P(r))
      BY <1>4, <1>5
    <3>2. r = role
      BY <1>6, <2>1, <3>1
    <3>3. role \in Roles
      BY <1>4
    <3> QED
      BY <1>1, <3>1, <3>2, <3>3
  <2> QED
    BY <2>1
<1>10. OneAtMost(o, "TOPS") /\ OneAtMost(o, "BOTTOMS")
  BY <1>9 DEF OneAtMost
<1> QED
  BY <1>5, <1>7, <1>8, <1>10 DEF o

\* The items that may fill it up: the tops and bottoms that are not in it.
LEMMA SpareItems ==
  ASSUME NEW bucket, NEW pool, Bucketed(bucket, pool), NEW i
  PROVE  /\ Spare(bucket, i) \in Seq(pool)
         /\ ToSet(Spare(bucket, i)) = (OfRole(pool, "TOPS") \cup OfRole(pool, "BOTTOMS"))
                                        \ ToSet(Basics(bucket, i))
<1> DEFINE a == bucket["TOPS"]
           b == bucket["BOTTOMS"]
           both == a \o b
           used == ToSet(Basics(bucket, i))
           kept == {n \in DOMAIN both : both[n] \notin used}
           All  == OfRole(pool, "TOPS") \cup OfRole(pool, "BOTTOMS")
<1>1. /\ a \in Seq(OfRole(pool, "TOPS")) /\ ToSet(a) = OfRole(pool, "TOPS")
      /\ b \in Seq(OfRole(pool, "BOTTOMS")) /\ ToSet(b) = OfRole(pool, "BOTTOMS")
  BY DEF Bucketed, Roles, Required
<1>2. a \in Seq(All) /\ b \in Seq(All)
  BY <1>1, SeqSub
<1>3. both \in Seq(All) /\ ToSet(both) = All
  <2>1. Joins(both, a, b)
    BY DEF Joins
  <2> HIDE DEF a, b, both, All
  <2>2. both \in Seq(All) /\ ToSet(both) = ToSet(a) \cup ToSet(b)
    BY <1>2, <2>1, ConcatParts
  <2> QED
    BY <1>1, <2>2 DEF All
<1>4. Spare(bucket, i) = Taken(both, kept)
  BY DEF Spare
<1>5. All \subseteq pool
  BY DEF OfRole
<1> HIDE DEF a, b, both, used, All
<1>6. IsFiniteSet(DOMAIN both) /\ DOMAIN both \subseteq Int /\ \A n \in DOMAIN both : both[n] \in All
  BY <1>3, IsSeqOfSet, IsSeqParts DEF ToSet
<1>7. IsFiniteSet(kept) /\ kept \subseteq Int /\ \A n \in kept : both[n] \in All
  <2>1. kept \subseteq DOMAIN both
    OBVIOUS
  <2> QED
    BY <1>6, <2>1, FS_Subset
<1>8. {both[n] : n \in kept} = All \ used
  <2>1. All = {both[n] : n \in DOMAIN both}
    BY <1>3 DEF ToSet
  <2> QED
    BY <2>1
<1> HIDE DEF kept
<1>9. /\ Taken(both, kept) \in Seq(All)
      /\ ToSet(Taken(both, kept)) = {both[n] : n \in kept}
  BY <1>7, TakenIsSeq
<1> QED
  BY <1>4, <1>5, <1>8, <1>9, SeqSub DEF used, All

\* An outfit of the fallback is of items of the pool, and if the pool can be dressed from it
\* is large enough and has the required roles.
LEMMA LookItems ==
  ASSUME NEW bucket, NEW pool, pool \subseteq DOMAIN RoleOf, Bucketed(bucket, pool), NEW i \in Nat,
         \A role \in Required : OfRole(pool, role) # {}
  PROVE  /\ Look(bucket, i) \in Seq(pool)
         /\ ~(Len(Basics(bucket, i)) < Floor /\ Spare(bucket, i) = <<>>)
              => Wearable(Look(bucket, i))
<1> DEFINE o == Basics(bucket, i)
           sp == Spare(bucket, i)
           lk == Look(bucket, i)
<1>1. /\ o \in Seq(pool) /\ Len(o) >= 3 /\ Required \subseteq RolesIn(ToSet(o))
  BY BasicItems
<1>2. sp \in Seq(pool)
  BY SpareItems
<1>3. lk = IF Len(o) < Floor /\ sp # <<>> THEN Append(o, sp[1]) ELSE o
  BY LookIs
<1> HIDE DEF o, sp, lk
<1>4. CASE Len(o) < Floor /\ sp # <<>>
  <2> DEFINE x == sp[1]
  <2>1. x \in pool
    BY <1>2, <1>4
  <2> HIDE DEF x
  <2>2. lk = Append(o, x)
    BY <1>3, <1>4 DEF x
  <2>3. lk \in Seq(pool) /\ Len(lk) = Len(o) + 1 /\ \A n \in DOMAIN o : n \in DOMAIN lk /\ lk[n] = o[n]
    BY <1>1, <2>1, <2>2
  <2>4. ToSet(o) \subseteq ToSet(lk)
    BY <2>3 DEF ToSet
  <2>5. Required \subseteq RolesIn(ToSet(lk))
    BY <1>1, <2>4 DEF RolesIn
  <2>6. Len(lk) >= Floor
    BY <1>1, <2>3 DEF Floor
  <2> QED
    BY <2>3, <2>5, <2>6 DEF Wearable, lk
<1>5. CASE ~(Len(o) < Floor /\ sp # <<>>)
  <2>1. lk = o
    BY <1>3, <1>5
  <2>2. ASSUME ~(Len(o) < Floor /\ sp = <<>>) PROVE Wearable(lk)
    <3>1. ~(Len(o) < Floor)
      BY <1>5, <2>2
    <3>2. Len(o) >= Floor
      BY <1>1, <3>1 DEF Floor
    <3> QED
      BY <1>1, <2>1, <3>2 DEF Wearable
  <2> QED
    BY <1>1, <2>1, <2>2 DEF lk, o, sp
<1> QED
  BY <1>4, <1>5

\* A pool that has what a wardrobe can be dressed from.
LEMMA DressedLook ==
  ASSUME NEW bucket, NEW pool, pool \subseteq DOMAIN RoleOf, Bucketed(bucket, pool), NEW i \in Nat,
         NEW own, own \subseteq pool, CanDress(own)
  PROVE  /\ \A role \in Required : OfRole(pool, role) # {}
         /\ Wearable(Look(bucket, i))
<1>1. \A role \in Required : \E id \in own : RoleOf[id] = role
  BY DEF CanDress, RolesIn
<1>2. \A role \in Required : OfRole(pool, role) # {}
  BY <1>1 DEF OfRole
<1>3. ASSUME Len(Basics(bucket, i)) < Floor PROVE Spare(bucket, i) # <<>>
  <2> DEFINE o == Basics(bucket, i)
             sp == Spare(bucket, i)
  <2>1. /\ (\E role \in Roles \ Required : OfRole(pool, role) # {}) => Len(o) >= Floor
        /\ o \in Seq(pool) /\ OneAtMost(o, "TOPS") /\ OneAtMost(o, "BOTTOMS")
    BY <1>2, BasicItems
  <2>2. ~(\E role \in Roles \ Required : OfRole(pool, role) # {})
    <3>1. Len(o) \in Nat
      BY <2>1
    <3> QED
      BY <1>3, <2>1, <3>1 DEF Floor
  <2>3. RolesIn(own) \ Required = {}
    <3>1. \A id \in own : RoleOf[id] \in Roles /\ id \in OfRole(pool, RoleOf[id])
      BY BatchAssumption DEF OfRole
    <3> QED
      BY <2>2, <3>1 DEF RolesIn
  <2>4. PICK role \in {"TOPS", "BOTTOMS"} : Cardinality({id \in own : RoleOf[id] = role}) > 1
    BY <2>3 DEF CanDress
  <2>5. PICK picked : \A id \in ToSet(o) : RoleOf[id] = role => id = picked
    BY <2>1, <2>4 DEF OneAtMost
  <2>6. PICK id \in own : RoleOf[id] = role /\ id # picked
    <3> DEFINE S == {id \in own : RoleOf[id] = role}
    <3>1. SUFFICES ASSUME S \subseteq {picked} PROVE FALSE
      OBVIOUS
    <3>2. IsFiniteSet({picked}) /\ Cardinality({picked}) = 1
      BY FS_Singleton
    <3>3. Cardinality(S) <= 1 /\ Cardinality(S) \in Nat
      <4> HIDE DEF S
      <4> QED
        BY <3>1, <3>2, FS_Subset, FS_CardinalityType
    <3>4. Cardinality(S) > 1
      BY <2>4
    <3> HIDE DEF S
    <3> QED
      BY <3>3, <3>4
  <2>7. id \in (OfRole(pool, "TOPS") \cup OfRole(pool, "BOTTOMS")) \ ToSet(o)
    BY <2>4, <2>5, <2>6 DEF OfRole
  <2>8. sp \in Seq(pool) /\ id \in ToSet(sp)
    BY <2>7, SpareItems
  <2> HIDE DEF sp
  <2>9. sp # <<>>
    BY <2>8, NoElements
  <2> QED
    BY <2>9 DEF sp
<1> QED
  BY <1>2, <1>3, LookItems

\* The outfits of the fallback; one can be worn, if the user's own items can.
LEMMA FallbackOutfits ==
  ASSUME NEW bucket, NEW pool, pool \subseteq DOMAIN RoleOf, Bucketed(bucket, pool),
         NEW count \in Nat
  PROVE  /\ Outfits(FallbackLooks(bucket, count))
         /\ \A own \in SUBSET pool : count > 0 /\ CanDress(own) =>
              \E i \in DOMAIN FallbackLooks(bucket, count) :
                 LET o == FallbackLooks(bucket, count)[i]
                 IN  Wearable(o) /\ ToSet(o) \subseteq pool
<1> DEFINE FL == FallbackLooks(bucket, count)
           looks == [i \in 1 .. count |-> Look(bucket, i - 1)]
           kept == {i \in 1 .. count : Len(looks[i]) >= Floor}
<1>1. \A role \in Required : bucket[role] = <<>> <=> OfRole(pool, role) = {}
  <2> SUFFICES ASSUME NEW role \in Required
               PROVE  bucket[role] = <<>> <=> OfRole(pool, role) = {}
    OBVIOUS
  <2>1. bucket[role] \in Seq(OfRole(pool, role)) /\ ToSet(bucket[role]) = OfRole(pool, role)
    BY DEF Bucketed, Roles
  <2> QED
    BY <2>1, NoElements
<1>2. CASE \E role \in Required : bucket[role] = <<>>
  <2>1. FL = <<>>
    BY <1>2 DEF FallbackLooks
  <2>2. IsSeq(<<>>) /\ DOMAIN <<>> = {}
    BY DEF IsSeq
  <2>3. Outfits(<<>>)
    BY <2>2 DEF Outfits
  <2>4. \A own \in SUBSET pool : ~CanDress(own)
    BY <1>1, <1>2 DEF CanDress, RolesIn, OfRole
  <2> HIDE DEF FL
  <2>5. Outfits(FL)
    BY <2>1, <2>3
  <2> QED
    BY <2>4, <2>5 DEF FL
<1>3. CASE ~(\E role \in Required : bucket[role] = <<>>)
  <2>1. \A role \in Required : OfRole(pool, role) # {}
    BY <1>1, <1>3
  <2>2. FL = Taken(looks, kept)
    BY <1>3 DEF FallbackLooks
  <2>3. ASSUME NEW i \in 1 .. count PROVE looks[i] \in Seq(pool)
    <3>1. i - 1 \in Nat
      OBVIOUS
    <3> QED
      BY <2>1, <3>1, LookItems
  <2>4. kept \subseteq 1 .. count /\ \A i \in 1 .. count : Len(looks[i]) >= Floor => i \in kept
    OBVIOUS
  <2>5. looks[1] = Look(bucket, 0) \/ count = 0
    OBVIOUS
  <2> HIDE DEF looks, kept, FL
  <2>6. IsFiniteSet(kept) /\ kept \subseteq Int
    <3>1. IsFiniteSet(1 .. count)
      BY FS_Interval
    <3>2. IsFiniteSet(kept)
      BY <2>4, <3>1, FS_Subset
    <3> QED
      BY <2>4, <3>2
  <2>7. \A i \in kept : looks[i] \in Seq(pool)
    BY <2>3, <2>4
  <2>8. FL \in Seq(Seq(pool)) /\ ToSet(FL) = {looks[i] : i \in kept}
    <3> DEFINE S == Seq(pool)
    <3>1. \A i \in kept : looks[i] \in S
      BY <2>7
    <3> HIDE DEF S
    <3>2. Taken(looks, kept) \in Seq(S) /\ ToSet(Taken(looks, kept)) = {looks[i] : i \in kept}
      BY <2>6, <3>1, TakenIsSeq
    <3> QED
      BY <2>2, <3>2 DEF S
  <2>9. Outfits(FL)
    <3>1. IsSeq(FL) /\ ToSet(FL) \subseteq Seq(pool)
      BY <2>8, IsSeqOfSet
    <3>2. \A i \in DOMAIN FL : FL[i] \in Seq(pool)
      BY <3>1 DEF ToSet
    <3> QED
      BY <3>1, <3>2, IsSeqOfSet DEF Outfits
  <2>10. ASSUME NEW own \in SUBSET pool, count > 0, CanDress(own)
         PROVE  \E i \in DOMAIN FL : Wearable(FL[i]) /\ ToSet(FL[i]) \subseteq pool
    <3>1. Wearable(Look(bucket, 0))
      BY <2>10, DressedLook
    <3>2. looks[1] = Look(bucket, 0) /\ 1 \in 1 .. count
      BY <2>5, <2>10
    <3>3. 1 \in kept
      BY <2>4, <3>1, <3>2 DEF Wearable
    <3>4. looks[1] \in ToSet(FL)
      BY <2>8, <3>3
    <3>5. PICK i \in DOMAIN FL : FL[i] = looks[1]
      BY <3>4 DEF ToSet
    <3>6. ToSet(looks[1]) \subseteq pool
      BY <2>7, <3>3, IsSeqOfSet
    <3> QED
      BY <3>1, <3>2, <3>5, <3>6
  <2> QED
    BY <2>9, <2>10 DEF FL
<1> QED
  BY <1>2, <1>3

\* Outfits that are unlike those of a batch, after it.
LEMMA JoinedBatch ==
  ASSUME NEW b, NEW a, NEW pool, Fine(b, pool), Fine(a, pool),
         \A i \in DOMAIN a, j \in DOMAIN b : ~SameItems(a[i], b[j])
  PROVE  /\ Fine(b \o a, pool) /\ Len(b \o a) = Len(b) + Len(a)
         /\ Len(b) \in Nat /\ Len(a) \in Nat
<1> DEFINE S == ToSet(b) \cup ToSet(a)
           c == b \o a
<1>1. /\ b \in Seq(S) /\ a \in Seq(S) /\ DOMAIN b = 1 .. Len(b) /\ DOMAIN a = 1 .. Len(a)
      /\ Len(b) \in Nat /\ Len(a) \in Nat
  <2>1. IsSeq(b) /\ IsSeq(a)
    BY DEF Fine, Outfits
  <2>2. b \in Seq(ToSet(b)) /\ a \in Seq(ToSet(a))
    BY <2>1 DEF IsSeq
  <2>3. b \in Seq(S) /\ a \in Seq(S)
    BY <2>2, SeqSub
  <2> QED
    BY <2>1, <2>3, IsSeqParts
<1> HIDE DEF S
<1>2. /\ c \in Seq(S) /\ Len(c) = Len(b) + Len(a) /\ DOMAIN c = 1 .. Len(c)
      /\ \A i \in DOMAIN c : \/ i \in DOMAIN b /\ c[i] = b[i]
                             \/ i - Len(b) \in DOMAIN a /\ c[i] = a[i - Len(b)]
                                  /\ i \notin DOMAIN b
  BY <1>1
<1>3. DOMAIN c \subseteq Int
  BY <1>1, <1>2
<1> HIDE DEF c
<1>4. IsSeq(c)
  BY <1>2, IsSeqOfSet
<1>5. \A i \in DOMAIN c : IsSeq(c[i]) /\ Wearable(c[i]) /\ ToSet(c[i]) \subseteq pool
  BY <1>2 DEF Fine, Outfits
<1>6. ASSUME NEW i \in DOMAIN c, NEW j \in DOMAIN c, i # j PROVE ~SameItems(c[i], c[j])
  <2>1. CASE i \in DOMAIN b /\ j \in DOMAIN b
    BY <1>2, <1>6, <2>1 DEF Fine, Alike
  <2>2. CASE i \in DOMAIN b /\ j \notin DOMAIN b
    BY <1>2, <2>2, SameBothWays
  <2>3. CASE i \notin DOMAIN b /\ j \in DOMAIN b
    BY <1>2, <2>3
  <2>4. CASE i \notin DOMAIN b /\ j \notin DOMAIN b
    <3>1. i - Len(b) \in DOMAIN a /\ j - Len(b) \in DOMAIN a
      BY <1>2, <2>4
    <3>2. i - Len(b) # j - Len(b)
      BY <1>1, <1>3, <1>6
    <3>3. ~SameItems(a[i - Len(b)], a[j - Len(b)])
      BY <3>1, <3>2 DEF Fine, Alike
    <3> QED
      BY <1>2, <2>4, <3>3
  <2> QED
    BY <2>1, <2>2, <2>3, <2>4
<1>7. ~Alike(c)
  BY <1>6 DEF Alike
<1> QED
  BY <1>1, <1>2, <1>4, <1>5, <1>7 DEF Fine, Outfits, c

\* A batch that was filled up may be shown; it is empty only if nothing can be worn.
LEMMA PaddedBatch ==
  ASSUME NEW batch, NEW bucket, NEW pool, pool \subseteq DOMAIN RoleOf, Fine(batch, pool),
         Bucketed(bucket, pool)
  PROVE  /\ Fine(Padded(batch, bucket, pool), pool)
         /\ \A own \in SUBSET pool : CanDress(own) => Len(Padded(batch, bucket, pool)) > 0
<1>1. Len(batch) \in Nat /\ DOMAIN batch = 1 .. Len(batch)
  BY IsSeqParts DEF Fine, Outfits
<1>2. CASE Len(batch) >= Few
  <2>1. Padded(batch, bucket, pool) = batch
    BY <1>2 DEF Padded
  <2>2. Len(batch) > 0
    BY <1>1, <1>2 DEF Few
  <2> QED
    BY <2>1, <2>2
<1>3. CASE ~(Len(batch) >= Few)
  <2> DEFINE count == Full - Len(batch)
             FL    == FallbackLooks(bucket, count)
             looks == Validated(FL, pool)
             new   == {i \in DOMAIN looks : \A j \in DOMAIN batch : ~SameItems(looks[i], batch[j])}
             added == Taken(looks, new)
  <2>1. count \in Nat /\ count > 0
    BY <1>1, <1>3 DEF Few, Full
  <2>2. Padded(batch, bucket, pool) = batch \o added
    BY <1>3 DEF Padded
  <2>3. /\ Outfits(FL)
        /\ \A own \in SUBSET pool : CanDress(own) =>
             \E i \in DOMAIN FL : Wearable(FL[i]) /\ ToSet(FL[i]) \subseteq pool
    <3> HIDE DEF count
    <3> QED
      BY <2>1, FallbackOutfits
  <2>4. /\ new \subseteq DOMAIN looks
        /\ \A i \in new, j \in DOMAIN batch : ~SameItems(looks[i], batch[j])
        /\ Len(batch) = 0 => new = DOMAIN looks
    <3> HIDE DEF looks
    <3>1. Len(batch) = 0 => DOMAIN batch = {}
      BY <1>1
    <3> QED
      BY <3>1
  <2> HIDE DEF FL
  <2>5. /\ Fine(looks, pool)
        /\ (\E i \in DOMAIN FL : Wearable(Cleaned(FL[i], pool))) => Len(looks) > 0
    BY <2>3, ValidatedOutfits
  <2> HIDE DEF looks, new
  <2>6. IsFiniteSet(new) /\ new \subseteq Int /\ Len(looks) \in Nat /\ DOMAIN looks = 1 .. Len(looks)
    <3>1. /\ Len(looks) \in Nat /\ DOMAIN looks = 1 .. Len(looks) /\ IsFiniteSet(DOMAIN looks)
          /\ DOMAIN looks \subseteq Int
      BY <2>5, IsSeqParts DEF Fine, Outfits
    <3> QED
      BY <2>4, <3>1, FS_Subset
  <2>7. Fine(added, pool)
    <3>1. \A i \in new : IsSeq(looks[i]) /\ Wearable(looks[i]) /\ ToSet(looks[i]) \subseteq pool
      BY <2>4, <2>5 DEF Fine, Outfits
    <3>2. \A i, j \in new : j < i => ~SameItems(looks[i], looks[j])
      <4> SUFFICES ASSUME NEW i \in new, NEW j \in new, j < i
                   PROVE  ~SameItems(looks[i], looks[j])
        OBVIOUS
      <4>1. i # j /\ i \in DOMAIN looks /\ j \in DOMAIN looks
        BY <2>4, <2>6
      <4> QED
        BY <2>5, <4>1 DEF Fine, Alike
    <3> QED
      BY <2>6, <3>1, <3>2, TakenOutfits
  <2>8. /\ DOMAIN added = 1 .. Cardinality(new) /\ Cardinality(new) \in Nat
        /\ \A i \in DOMAIN added : \E k \in new : added[i] = looks[k]
    <3>1. PICK f : Places(f, looks, new)
      BY <2>6, TakenElements
    <3>2. /\ DOMAIN added = 1 .. Cardinality(new) /\ Cardinality(new) \in Nat
      BY <2>6, TakenElements
    <3> HIDE DEF added
    <3>3. \A i \in 1 .. Cardinality(new) : f[i] \in new /\ added[i] = looks[f[i]]
      BY <3>1 DEF Places, added
    <3> QED
      BY <3>2, <3>3
  <2> HIDE DEF added
  <2>9. \A i \in DOMAIN added, j \in DOMAIN batch : ~SameItems(added[i], batch[j])
    BY <2>4, <2>8
  <2>10. /\ Fine(batch \o added, pool) /\ Len(batch \o added) = Len(batch) + Len(added)
         /\ Len(added) \in Nat
    BY <2>7, <2>9, JoinedBatch
  <2>11. ASSUME NEW own \in SUBSET pool, CanDress(own) PROVE Len(batch \o added) > 0
    <3>1. CASE Len(batch) > 0
      BY <1>1, <2>10, <3>1
    <3>2. CASE Len(batch) = 0
      <4>1. PICK i \in DOMAIN FL : Wearable(FL[i]) /\ ToSet(FL[i]) \subseteq pool
        BY <2>3, <2>11
      <4>2. IsSeq(FL[i])
        BY <2>3 DEF Outfits
      <4>3. Wearable(Cleaned(FL[i], pool))
        BY <4>1, <4>2, CleanedOutfit
      <4>4. Len(looks) > 0
        BY <2>5, <4>3
      <4>5. 1 \in new
        BY <2>4, <2>6, <3>2, <4>4
      <4>6. Cardinality(new) # 0
        BY <2>6, <4>5, FS_EmptySet
      <4>7. Len(added) = Cardinality(new)
        <5>1. Len(added) \in Nat /\ DOMAIN added = 1 .. Len(added)
          BY <2>7, IsSeqParts DEF Fine, Outfits
        <5>2. 1 .. Len(added) = 1 .. Cardinality(new)
          BY <2>8, <5>1
        <5> QED
          BY <2>8, <5>1, <5>2
      <4> QED
        BY <2>8, <2>10, <3>2, <4>6, <4>7
    <3> QED
      BY <1>1, <3>1, <3>2
  <2> QED
    BY <2>2, <2>10, <2>11
<1> QED
  BY <1>2, <1>3

\* A batch as it is shown to the owner of these items.
ShownWell(batch, own) ==
  /\ Len(batch) \in Nat /\ DOMAIN batch = 1 .. Len(batch)
  /\ \A i \in DOMAIN batch :
       /\ Wearable(batch[i].items) /\ ToSet(batch[i].items) \subseteq own \cup Fillers
       /\ batch[i].owned = ToSet(batch[i].items) \cap own
       /\ \A j \in DOMAIN batch \ {i} : ~SameItems(batch[i].items, batch[j].items)

\* No outfit of a batch is from the fallback.
ByModel(batch) == \A i \in DOMAIN batch : ~batch[i].canned

LEMMA ShownBatch ==
  ASSUME NEW batch, NEW own, NEW pool, pool \subseteq own \cup Fillers, Fine(batch, pool),
         NEW made \in Int
  PROVE  /\ ShownWell(Shown(batch, own, made), own)
         /\ Len(Shown(batch, own, made)) = Len(batch)
         /\ Len(batch) <= made => ByModel(Shown(batch, own, made))
<1>1. Len(batch) \in Nat /\ DOMAIN batch = 1 .. Len(batch)
  BY IsSeqParts DEF Fine, Outfits
<1>2. Shown(batch, own, made) =
        [i \in 1 .. Len(batch) |->
           [items |-> batch[i], owned |-> ToSet(batch[i]) \cap own, canned |-> i > made]]
  BY <1>1 DEF Shown
<1> DEFINE told == Shown(batch, own, made)
<1>3. Len(told) = Len(batch) /\ DOMAIN told = 1 .. Len(batch)
  BY <1>1, <1>2
<1>4. \A i \in 1 .. Len(batch) :
        /\ Wearable(batch[i]) /\ ToSet(batch[i]) \subseteq own \cup Fillers
        /\ \A j \in 1 .. Len(batch) : j # i => ~SameItems(batch[i], batch[j])
  BY <1>1 DEF Fine, Alike
<1>5. \A i \in 1 .. Len(batch) : /\ told[i].items = batch[i]
                                 /\ told[i].owned = ToSet(batch[i]) \cap own
  BY <1>2
<1>6. ASSUME Len(batch) <= made PROVE ByModel(told)
  <2> SUFFICES ASSUME NEW i \in 1 .. Len(batch) PROVE ~told[i].canned
    BY <1>3 DEF ByModel
  <2>1. ~(i > made)
    BY <1>1, <1>6
  <2>2. told[i].canned = (i > made)
    <3> DEFINE late == i > made
               look(c) == [items |-> batch[i], owned |-> ToSet(batch[i]) \cap own, canned |-> c]
    <3>1. told[i] = look(late)
      BY <1>2, Zenon
    <3>2. \A c : look(c).canned = c
      OBVIOUS
    <3>3. look(late).canned = late
      BY <3>2
    <3> HIDE DEF late, told, look
    <3>4. told[i].canned = late
      BY <3>1, <3>3, Zenon
    <3> QED
      BY <3>4 DEF late
  <2> QED
    BY <2>1, <2>2, Zenon
<1> QED
  BY <1>1, <1>3, <1>4, <1>5, <1>6 DEF ShownWell

\* Every cached batch is one that the owner of the wardrobe in its key may be shown, long
\* enough and the model's; so is the batch in the request from the time it is built, unless
\* nothing can be worn, and if it is not degraded it is the model's.
CacheShows ==
  \A k \in DOMAIN outfitCache :
    ShownWell(outfitCache[k], k[1]) /\ Len(outfitCache[k]) >= Few /\ ByModel(outfitCache[k])
ShowsWell(r) ==
  /\ ShownWell(r.batch, r.own) /\ (CanDress(r.own) => Len(r.batch) > 0)
  /\ ~r.degraded => ByModel(r.batch)
RequestShows == req.at \in {"built", "judged", "served"} => ShowsWell(req)

BatchInv == BatchTypes /\ CacheShows /\ RequestShows

LEMMA NothingShown == ShownWell(<<>>, {}) /\ ~CanDress({}) /\ ByModel(<<>>)
<1>1. Len(<<>>) = 0 /\ DOMAIN <<>> = {}
  OBVIOUS
<1> QED
  BY <1>1 DEF ShownWell, CanDress, RolesIn, Required, ByModel

LEMMA BatchInvStart == BatchInit => BatchInv
<1> SUFFICES ASSUME BatchInit PROVE BatchInv
  OBVIOUS
<1>1. BatchTypes
  BY BatchStart
<1>2. CacheShows
  BY DEF BatchInit, CacheShows
<1>3. RequestShows
  BY DEF BatchInit, Idle, RequestShows
<1> QED
  BY <1>1, <1>2, <1>3 DEF BatchInv

LEMMA ReadsPoolShows == ASSUME BatchInv, ReadsPool PROVE CacheShows' /\ RequestShows'
<1>1. PICK s, sample :
        req' = [Idle EXCEPT !.own = owned, !.setting = s,
                  !.at = IF owned = {} THEN "served" ELSE "read",
                  !.fillers = IF owned = {} THEN {} ELSE sample]
  BY DEF ReadsPool
<1>2. CASE owned = {}
  <2>1. req'.own = {} /\ req'.batch = <<>>
    BY <1>1, <1>2 DEF Idle
  <2> QED
    BY <2>1, NothingShown DEF ReadsPool, BatchInv, CacheShows, RequestShows, ShowsWell
<1>3. CASE owned # {}
  <2>1. req'.at = "read"
    BY <1>1, <1>3 DEF Idle
  <2> QED
    BY <2>1 DEF ReadsPool, BatchInv, CacheShows, RequestShows
<1> QED
  BY <1>2, <1>3

LEMMA LooksUpShows == ASSUME BatchInv, LooksUpBatch PROVE CacheShows' /\ RequestShows'
<1>1. CacheShows'
  BY DEF LooksUpBatch, BatchInv, CacheShows
<1>2. CASE Key \in DOMAIN outfitCache
  <2>1. req' = [req EXCEPT !.at = "served", !.hit = TRUE, !.batch = outfitCache[Key]]
    BY <1>2 DEF LooksUpBatch
  <2>2. req'.batch = outfitCache[Key] /\ req'.own = req.own
    BY <2>1 DEF BatchInv, BatchTypes, ReqTypes
  <2>3. Key[1] = req.own
    BY DEF Key
  <2>4. /\ ShownWell(outfitCache[Key], req.own) /\ Len(outfitCache[Key]) > 0
        /\ ByModel(outfitCache[Key])
    BY <1>2, <2>3 DEF BatchInv, CacheShows, ShownWell, Few
  <2> QED
    BY <1>1, <2>2, <2>4 DEF RequestShows, ShowsWell
<1>3. CASE Key \notin DOMAIN outfitCache
  <2>1. req' = [req EXCEPT !.at = "missed"]
    BY <1>3 DEF LooksUpBatch
  <2>2. req'.at = "missed"
    BY <2>1 DEF BatchInv, BatchTypes, ReqTypes
  <2> QED
    BY <1>1, <2>2 DEF RequestShows
<1> QED
  BY <1>2, <1>3

LEMMA PoolOfRequest ==
  ASSUME BatchInv
  PROVE  LET pool == req.own \cup req.fillers
         IN  pool \subseteq DOMAIN RoleOf /\ pool \subseteq req.own \cup Fillers
BY BatchAssumption DEF BatchInv, BatchTypes, BatchTypeOK, Own

LEMMA ProposedOutfits == \A raw \in Proposals \cup {<<>>} : Outfits(raw)
<1>1. IsSeq(<<>>) /\ DOMAIN <<>> = {}
  BY DEF IsSeq
<1>2. Outfits(<<>>)
  BY <1>1 DEF Outfits
<1> QED
  BY <1>2, BatchAssumption DEF Outfits

LEMMA BuildsShows == ASSUME BatchInv, BuildsOutfits PROVE CacheShows' /\ RequestShows'
<1> DEFINE pool == req.own \cup req.fillers
           padded(raw, ranking) == Padded(Validated(raw, pool), Ranked(pool, ranking), pool)
<1>1. PICK raw \in Proposals \cup {<<>>}, failed \in BOOLEAN, ranking \in Rankings :
        req' = [req EXCEPT !.at = "built",
                  !.batch = Shown(padded(raw, ranking), req.own, Len(Validated(raw, pool))),
                  !.degraded = failed \/ Len(padded(raw, ranking)) > Len(Validated(raw, pool))]
  BY Zenon DEF BuildsOutfits
<1>2. pool \subseteq DOMAIN RoleOf /\ pool \subseteq req.own \cup Fillers /\ req.own \subseteq pool
  BY PoolOfRequest
<1> DEFINE b == padded(raw, ranking)
           made == Len(Validated(raw, pool))
           d == failed \/ Len(b) > made
<1>3. Fine(b, pool) /\ made \in Nat /\ (CanDress(req.own) => Len(b) > 0)
  <2> HIDE DEF pool
  <2>1. Bucketed(Ranked(pool, ranking), pool)
    BY <1>2, RankedItems
  <2>2. Fine(Validated(raw, pool), pool)
    BY ProposedOutfits, ValidatedOutfits
  <2>3. made \in Nat
    BY <2>2, IsSeqParts DEF Fine, Outfits
  <2> QED
    BY <1>2, <2>1, <2>2, <2>3, PaddedBatch
<1>e. req' = [req EXCEPT !.at = "built", !.batch = Shown(b, req.own, made), !.degraded = d]
  BY <1>1, Zenon
<1> HIDE DEF padded, b, made
<1>4. /\ ShownWell(Shown(b, req.own, made), req.own) /\ Len(Shown(b, req.own, made)) = Len(b)
      /\ Len(b) <= made => ByModel(Shown(b, req.own, made))
  <2> HIDE DEF pool
  <2> QED
    BY <1>2, <1>3, ShownBatch
<1>d. ~d => Len(b) <= made
  <2>1. Len(b) \in Nat
    BY <1>3, IsSeqParts DEF Fine, Outfits
  <2> QED
    BY <1>3, <2>1
<1>5. /\ req'.batch = Shown(b, req.own, made) /\ req'.own = req.own
      /\ req'.degraded <=> d
  <2> HIDE DEF d
  <2> QED
    BY <1>e DEF BatchInv, BatchTypes, ReqTypes
<1>6. RequestShows'
  <2> HIDE DEF d
  <2> QED
    BY <1>3, <1>4, <1>d, <1>5 DEF RequestShows, ShowsWell
<1>7. CacheShows'
  BY DEF BuildsOutfits, BatchInv, CacheShows
<1> QED
  BY <1>6, <1>7

LEMMA CriticisedShows == ASSUME BatchInv, Criticised PROVE CacheShows' /\ RequestShows'
<1> DEFINE pool == req.own \cup req.fillers
           again(raw) == Validated(raw, pool)
<1>1. CacheShows' /\ req.at = "built"
  BY DEF Criticised, BatchInv, CacheShows
<1>2. ShowsWell(req)
  BY <1>1 DEF BatchInv, RequestShows
<1>3. CASE UNCHANGED <<req.batch, req.own, req.degraded>>
  BY <1>1, <1>2, <1>3 DEF RequestShows, ShowsWell
<1>4. ASSUME NEW raw \in Proposals, ~(Len(again(raw)) < Len(req.batch)),
             req' = [req EXCEPT !.at = "judged",
                       !.batch = Shown(again(raw), req.own, Len(again(raw)))]
      PROVE  RequestShows'
  <2> DEFINE b == again(raw)
  <2>1. pool \subseteq DOMAIN RoleOf /\ pool \subseteq req.own \cup Fillers
    BY PoolOfRequest
  <2> HIDE DEF pool
  <2>2. Fine(b, pool)
    BY ProposedOutfits, ValidatedOutfits
  <2> HIDE DEF b, again
  <2>0. Len(b) \in Nat
    BY <2>2, IsSeqParts DEF Fine, Outfits
  <2>3. /\ ShownWell(Shown(b, req.own, Len(b)), req.own)
        /\ Len(Shown(b, req.own, Len(b))) = Len(b) /\ ByModel(Shown(b, req.own, Len(b)))
    BY <2>0, <2>1, <2>2, ShownBatch
  <2>4. req'.batch = Shown(b, req.own, Len(b)) /\ req'.own = req.own
    BY <1>4 DEF BatchInv, BatchTypes, ReqTypes, b
  <2>5. Len(b) \in Nat /\ Len(req.batch) \in Nat /\ ~(Len(b) < Len(req.batch))
    <3>1. Len(b) \in Nat
      BY <2>0
    <3>2. Len(req.batch) \in Nat
      BY <1>2 DEF ShowsWell, ShownWell
    <3> QED
      BY <1>4, <3>1, <3>2 DEF b
  <2>6. CanDress(req.own) => Len(b) > 0
    BY <1>2, <2>5 DEF ShowsWell
  <2> QED
    BY <2>3, <2>4, <2>6 DEF RequestShows, ShowsWell
<1>5. CASE req' = [req EXCEPT !.at = "judged"]
  <2>1. UNCHANGED <<req.batch, req.own, req.degraded>>
    BY <1>5 DEF BatchInv, BatchTypes, ReqTypes
  <2> QED
    BY <1>1, <1>3, <2>1
<1>6. CASE \E raw \in Proposals :
             req' = [req EXCEPT !.at = "judged",
                       !.batch = IF Len(again(raw)) < Len(req.batch) THEN @
                                 ELSE Shown(again(raw), req.own, Len(again(raw)))]
  <2>1. PICK raw \in Proposals :
             req' = [req EXCEPT !.at = "judged",
                       !.batch = IF Len(again(raw)) < Len(req.batch) THEN @
                                 ELSE Shown(again(raw), req.own, Len(again(raw)))]
    BY <1>6
  <2> HIDE DEF again
  <2>2. CASE Len(again(raw)) < Len(req.batch)
    <3>1. UNCHANGED <<req.batch, req.own, req.degraded>>
      BY <2>1, <2>2 DEF BatchInv, BatchTypes, ReqTypes
    <3> QED
      BY <1>1, <1>3, <3>1
  <2>3. CASE ~(Len(again(raw)) < Len(req.batch))
    <3>1. req' = [req EXCEPT !.at = "judged",
                    !.batch = Shown(again(raw), req.own, Len(again(raw)))]
      BY <2>1, <2>3
    <3> QED
      BY <1>1, <1>4, <2>3, <3>1
  <2> QED
    BY <2>2, <2>3
<1>7. \/ req' = [req EXCEPT !.at = "judged"]
      \/ \E raw \in Proposals :
             req' = [req EXCEPT !.at = "judged",
                       !.batch = IF Len(again(raw)) < Len(req.batch) THEN @
                                 ELSE Shown(again(raw), req.own, Len(again(raw)))]
  BY DEF Criticised
<1> QED
  BY <1>5, <1>6, <1>7

LEMMA ServesShows == ASSUME BatchInv, ServesBatch PROVE CacheShows' /\ RequestShows'
<1>1. req.at = "judged" /\ req' = [req EXCEPT !.at = "served"]
  BY DEF ServesBatch
<1>2. ShowsWell(req)
  BY <1>1 DEF BatchInv, RequestShows
<1>3. UNCHANGED <<req.batch, req.own, req.degraded>>
  BY <1>1 DEF BatchInv, BatchTypes, ReqTypes
<1>4. RequestShows'
  BY <1>2, <1>3 DEF RequestShows, ShowsWell
<1>5. CASE Len(req.batch) >= Few /\ ~req.degraded
  <2>1. outfitCache' = [k \in DOMAIN outfitCache \cup {Key} |->
                          IF k = Key THEN req.batch ELSE outfitCache[k]]
    BY <1>5 DEF ServesBatch
  <2>2. Len(req.batch) >= Few /\ ShownWell(req.batch, Key[1]) /\ ByModel(req.batch)
    <3>1. Len(req.batch) \in Nat /\ Key[1] = req.own
      BY <1>2 DEF ShowsWell, ShownWell, Key
    <3> QED
      BY <1>2, <1>5, <3>1 DEF ShowsWell, Few
  <2> QED
    BY <1>4, <2>1, <2>2 DEF BatchInv, CacheShows
<1>6. CASE ~(Len(req.batch) >= Few /\ ~req.degraded)
  BY <1>4, <1>6 DEF ServesBatch, BatchInv, CacheShows
<1> QED
  BY <1>5, <1>6

LEMMA BatchInvStep == BatchInv /\ [BatchNext]_batchVars => BatchInv'
<1> SUFFICES ASSUME BatchInv, [BatchNext]_batchVars PROVE CacheShows' /\ RequestShows'
  BY BatchStep DEF BatchInv
<1>1. CASE ChangesPool
  BY <1>1 DEF ChangesPool, BatchInv, CacheShows, RequestShows, ShowsWell
<1>2. CASE EntryExpires
  <2>1. /\ \A k \in DOMAIN outfitCache' : k \in DOMAIN outfitCache /\ outfitCache'[k] = outfitCache[k]
        /\ req' = req
    BY <1>2 DEF EntryExpires, Restrict
  <2> QED
    BY <2>1 DEF BatchInv, CacheShows, RequestShows, ShowsWell
<1>3. CASE UNCHANGED batchVars
  BY <1>3 DEF batchVars, BatchInv, CacheShows, RequestShows, ShowsWell
<1> QED
  BY <1>1, <1>2, <1>3, ReadsPoolShows, LooksUpShows, BuildsShows, CriticisedShows, ServesShows
     DEF BatchNext

\* Whatever the model proposes and the critic says, and however old a cached batch is, every
\* outfit that is shown can be worn, is of the wardrobe of the request and fillers, is told
\* once, and there is one if the wardrobe alone can be dressed from.
THEOREM BatchesAreWearable == BatchSpec => []BatchIsWearable
<1>1. BatchInv => BatchIsWearable
  <2> SUFFICES ASSUME BatchInv, req.at = "served"
               PROVE  /\ \A i \in DOMAIN req.batch :
                           LET o == req.batch[i] IN
                           /\ Wearable(o.items) /\ ToSet(o.items) \subseteq req.own \cup Fillers
                           /\ o.owned = ToSet(o.items) \cap req.own
                           /\ \A j \in DOMAIN req.batch \ {i} :
                                ~SameItems(o.items, req.batch[j].items)
                      /\ CanDress(req.own) => req.batch # <<>>
    BY DEF BatchIsWearable
  <2>1. ShownWell(req.batch, req.own) /\ (CanDress(req.own) => Len(req.batch) > 0)
    BY DEF BatchInv, RequestShows, ShowsWell
  <2>2. Len(<<>>) = 0
    OBVIOUS
  <2>3. CanDress(req.own) => req.batch # <<>>
    BY <2>1, <2>2
  <2> QED
    BY <2>1, <2>3 DEF ShownWell
<1> QED
  BY <1>1, BatchInvStart, BatchInvStep, PTL DEF BatchSpec

\* No failure of the model outlives its request: whatever the requests met that filled the
\* cache, all that a later one can find there was made by the model (service.go:758).
THEOREM CacheIsByModel == BatchSpec => []CachedByModel
<1>1. BatchInv => CachedByModel
  BY DEF BatchInv, CacheShows, ByModel, CachedByModel
<1> QED
  BY <1>1, BatchInvStart, BatchInvStep, PTL DEF BatchSpec

-----------------------------------------------------------------------------
(***************************************************************************)
(* The components of MCRecords together: a step of one leaves the others   *)
(* as they are, so a behaviour of the eight is one of each.                *)
(***************************************************************************)
LEMMA OneRecordMoves ==
  ASSUME [MCNext]_vars
  PROVE  /\ [ClaimNext]_claimVars /\ [GenNext]_genVars /\ [CacheNext]_cacheVars
         /\ [EvalNext]_evalVars /\ [ErasureNext]_erasureVars /\ [ListNext]_listVars
         /\ [BatchNext]_batchVars /\ [ConsoleNext]_consoleVars /\ part' = part
<1>1. CASE UNCHANGED vars
  BY <1>1 DEF vars
<1>2. CASE /\ ClaimNext
           /\ UNCHANGED <<genVars, cacheVars, evalVars, erasureVars, listVars,
                          batchVars, consoleVars, part>>
  BY <1>2
<1>3. CASE /\ GenNext
           /\ UNCHANGED <<claimVars, cacheVars, evalVars, erasureVars, listVars,
                          batchVars, consoleVars, part>>
  BY <1>3
<1>4. CASE /\ CacheNext
           /\ UNCHANGED <<claimVars, genVars, evalVars, erasureVars, listVars,
                          batchVars, consoleVars, part>>
  BY <1>4
<1>5. CASE /\ EvalNext
           /\ UNCHANGED <<claimVars, genVars, cacheVars, erasureVars, listVars,
                          batchVars, consoleVars, part>>
  BY <1>5
<1>6. CASE /\ ErasureNext
           /\ UNCHANGED <<claimVars, genVars, cacheVars, evalVars, listVars,
                          batchVars, consoleVars, part>>
  BY <1>6
<1>7. CASE /\ ListNext
           /\ UNCHANGED <<claimVars, genVars, cacheVars, evalVars, erasureVars,
                          batchVars, consoleVars, part>>
  BY <1>7
<1>8. CASE /\ BatchNext
           /\ UNCHANGED <<claimVars, genVars, cacheVars, evalVars, erasureVars, listVars,
                          consoleVars, part>>
  BY <1>8
<1>9. CASE /\ ConsoleNext
           /\ UNCHANGED <<claimVars, genVars, cacheVars, evalVars, erasureVars, listVars,
                          batchVars, part>>
  BY <1>9
<1> QED
  BY <1>1, <1>2, <1>3, <1>4, <1>5, <1>6, <1>7, <1>8, <1>9 DEF MCNext

\* What is proved of a component that keeps records holds of it in the composition that
\* the runs check.
THEOREM RecordsAsAlone ==
  MCSpec => /\ ClaimSpec /\ GenSpec /\ CacheSpec /\ EvalSpec
            /\ ErasureSpec /\ ListSpec /\ BatchSpec /\ ConsoleSpec
<1>1. MCInit => /\ ClaimInit /\ GenInit /\ CacheInit /\ EvalInit
                /\ ErasureInit /\ ListInit /\ BatchInit /\ ConsoleInit
  BY DEF MCInit
<1> QED
  BY <1>1, OneRecordMoves, PTL DEF MCSpec, ClaimSpec, GenSpec, CacheSpec, EvalSpec,
     ErasureSpec, ListSpec, BatchSpec, ConsoleSpec

\* So every variable of the eight components keeps its type.
THEOREM RecordsTypesCorrect == MCSpec => []RecordsTypeOK
<1>1. MCInit => part \in Parts
  BY DEF MCInit
<1>2. part \in Parts /\ [MCNext]_vars => (part \in Parts)'
  BY OneRecordMoves
<1>3. MCSpec => [](part \in Parts)
  BY <1>1, <1>2, PTL DEF MCSpec
<1>4. part \in Parts /\ ClaimTypeOK /\ GenTypeOK /\ CacheTypeOK /\ EvalTypeOK
        /\ ErasureTypeOK /\ ListTypeOK /\ BatchTypeOK /\ ConsoleTypeOK
      => RecordsTypeOK
  BY DEF RecordsTypeOK
<1> QED
  BY <1>3, <1>4, RecordsAsAlone, ClaimTypeCorrect, GenTypeCorrect, CacheTypeCorrect,
     EvalTypeCorrect, ErasureTypeCorrect, ListTypesCorrect, BatchTypesCorrect,
     ConsoleTypeCorrect, PTL
=============================================================================
