--------------------------- MODULE OutfitBatches ---------------------------
(***************************************************************************)
(* What is in the batch of outfits a user is shown                         *)
(* (generateOutfitsImpl in backend/internal/outfit/service.go).            *)
(*                                                                         *)
(* The pool is the wardrobe and a sample of archetype defaults, "fillers", *)
(* less those the user rejected.  Whatever the model proposes is cleaned,  *)
(* padded from a fallback the code computes, perhaps criticised and made   *)
(* again, and cached under a key that names the wardrobe but no filler.    *)
(* Generation has who is called and paid when; this module has the         *)
(* outfits.  Items keep their category, so their roles do not change.      *)
(***************************************************************************)
EXTENDS Integers, Sequences, FiniteSets, FiniteSetsExt, SequencesExt

CONSTANTS
  RoleOf,        \* the role of every item and filler there may be (ClassifyRole)
  Fillers,       \* the defaults of the user's first archetype and gender
  FillerCap,     \* fillerVisibleCap
  Rankings,      \* all items and fillers, in orders their scores may give
  Proposals,     \* what a generator may return: sequences of outfits
  Settings,      \* the rest of the key: weather bucket, archetypes, creativity, provider
  MaxRuns,       \* bound: requests
  MaxPoolChanges \* bound: items added or deleted, fillers rejected

Required == {"TOPS", "BOTTOMS", "FOOTWEAR"}
Roles    == Required \cup {"OUTERWEAR", "ACCESSORIES"}
IsSeq(s) == s \in Seq(ToSet(s))

ASSUME BatchAssumption ==
  /\ Fillers \subseteq DOMAIN RoleOf /\ IsFiniteSet(DOMAIN RoleOf) /\ FillerCap \in Nat
  /\ RoleOf \in [DOMAIN RoleOf -> Roles]
  /\ \A r \in Rankings : r \in Seq(DOMAIN RoleOf) /\ ToSet(r) = DOMAIN RoleOf
  /\ \A raw \in Proposals : IsSeq(raw) /\ \A i \in DOMAIN raw : IsSeq(raw[i])
  /\ MaxRuns \in Nat /\ MaxPoolChanges \in Nat

VARIABLES
  owned,        \* items of the user
  rejections,   \* rejected fillers
  outfitCache,  \* batches by key
  req,          \* the request: what it read and made so far
  poolChanges, runsBegun

batchVars == <<owned, rejections, outfitCache, req, poolChanges, runsBegun>>

Own   == DOMAIN RoleOf \ Fillers
Floor == 4                           \* the fewest items an outfit may have
Few   == 3                           \* fewer outfits are padded, and not cached
Full  == 4

Idle == [at |-> "idle", own |-> {}, fillers |-> {}, setting |-> {}, batch |-> <<>>,
         degraded |-> FALSE, hit |-> FALSE]

BatchTypeOK ==
  /\ owned \subseteq Own /\ rejections \subseteq Fillers
  /\ DOMAIN outfitCache \subseteq (SUBSET Own) \X Settings
  /\ req.at \in {"idle", "read", "missed", "built", "judged", "served"}
  /\ req.own \subseteq Own /\ req.fillers \subseteq Fillers
  /\ poolChanges \in 0 .. MaxPoolChanges /\ runsBegun \in 0 .. MaxRuns

BatchInit ==
  /\ owned \in SUBSET Own /\ rejections = {}
  /\ outfitCache = [k \in {} |-> <<>>]
  /\ req = Idle /\ poolChanges = 0 /\ runsBegun = 0

-----------------------------------------------------------------------------
(* Outfits: sequences of ids. *)

RolesIn(ids) == {RoleOf[id] : id \in ids}

\* The elements of a sequence at some of its positions, in order.
Taken(s, kept) ==
  [n \in 1 .. Cardinality(kept) |->
     s[CHOOSE i \in kept : Cardinality({j \in kept : j < i}) = n - 1]]

\* outfitFingerprint: the same items, as often, in any order.
SameItems(o, p) ==
  /\ ToSet(o) = ToSet(p)
  /\ \A id \in ToSet(o) : Cardinality({i \in DOMAIN o : o[i] = id})
                            = Cardinality({i \in DOMAIN p : p[i] = id})

Wearable(o) == Len(o) >= Floor /\ Required \subseteq RolesIn(ToSet(o))

\* ValidateOutfits: ids that are not in the pool are dropped, then outfits that are too
\* small, lack a role or repeat an earlier one.
Cleaned(o, pool) == Taken(o, {i \in DOMAIN o : o[i] \in pool})
Validated(raw, pool) ==
  LET cleaned == [i \in DOMAIN raw |-> Cleaned(raw[i], pool)]
      fit     == {i \in DOMAIN raw : Wearable(cleaned[i])}
  IN  Taken(cleaned, {i \in fit : \A j \in fit : j < i => ~SameItems(cleaned[i], cleaned[j])})

\* The i-th outfit (from 0) of the fallback, from the items of each role in order of score:
\* short of Floor, it takes the first top or bottom that is not in it yet.
Look(bucket, i) ==
  LET Picked(role) == IF bucket[role] = <<>> THEN <<>>
                      ELSE <<bucket[role][(i % Len(bucket[role])) + 1]>>
      basics == Picked("TOPS") \o Picked("BOTTOMS") \o Picked("FOOTWEAR")
                  \o Picked("OUTERWEAR") \o Picked("ACCESSORIES")
      both   == bucket["TOPS"] \o bucket["BOTTOMS"]
      spare  == Taken(both, {n \in DOMAIN both : both[n] \notin ToSet(basics)})
  IN  IF Len(basics) < Floor /\ spare # <<>> THEN Append(basics, spare[1]) ELSE basics

FallbackLooks(bucket, count) ==
  LET looks == [i \in 1 .. count |-> Look(bucket, i - 1)]
  IN  IF \E role \in Required : bucket[role] = <<>> THEN <<>>
      ELSE Taken(looks, {i \in 1 .. count : Len(looks[i]) >= Floor})

\* The items of each role, best first (filterByRole, rankByArchetype).
Ranked(pool, ranking) ==
  [role \in Roles |->
     Taken(ranking, {n \in DOMAIN ranking : ranking[n] \in pool /\ RoleOf[ranking[n]] = role})]

\* Short of Few outfits, the fallback makes as many as are missing to Full, and those that
\* are not in the batch yet are added.
Padded(batch, bucket, pool) ==
  LET looks == Validated(FallbackLooks(bucket, Full - Len(batch)), pool)
      New   == {i \in DOMAIN looks : \A j \in DOMAIN batch : ~SameItems(looks[i], batch[j])}
  IN  IF Len(batch) >= Few THEN batch ELSE batch \o Taken(looks, New)

\* attachItemSnapshots: which of the items the user owns.  History: the first `made` of
\* the outfits are the model's, the others are canned.
Shown(batch, own, made) ==
  [i \in DOMAIN batch |->
     [items |-> batch[i], owned |-> ToSet(batch[i]) \cap own, canned |-> i > made]]

-----------------------------------------------------------------------------
(* A request. *)

\* The pool; rejections that cannot be read do not count, fillers that cannot be read
\* are none.  $sample returns as many as there are, up to the cap.
ReadsPool ==
  /\ req.at \in {"idle", "served"} /\ runsBegun < MaxRuns /\ runsBegun' = runsBegun + 1
  /\ \E s \in Settings, excluded \in {rejections, {}} :
       LET left == Fillers \ excluded IN
       \E sample \in kSubset(Min({FillerCap, Cardinality(left)}), left) \cup {{}} :
         req' = [Idle EXCEPT !.own = owned, !.setting = s,
                   !.at = IF owned = {} THEN "served" ELSE "read",
                   !.fillers = IF owned = {} THEN {} ELSE sample]
  /\ UNCHANGED <<owned, rejections, outfitCache, poolChanges>>

\* Mutant: the key does not name the wardrobe.
KeyOfSettings == <<{}, req.setting>>

\* buildCacheKey.
Key == <<req.own, req.setting>>

LooksUpBatch ==
  /\ req.at = "read"
  /\ req' = IF Key \in DOMAIN outfitCache
            THEN [req EXCEPT !.at = "served", !.hit = TRUE, !.batch = outfitCache[Key]]
            ELSE [req EXCEPT !.at = "missed"]
  /\ UNCHANGED <<owned, rejections, outfitCache, poolChanges, runsBegun>>

\* Mutant: only a failure of the generator makes a batch degraded, not its padding.
BuildsOutfitsFailing ==
  /\ req.at = "missed"
  /\ \E raw \in Proposals \cup {<<>>}, failed \in BOOLEAN, ranking \in Rankings :
       LET pool   == req.own \cup req.fillers
           valid  == Validated(raw, pool)
           padded == Padded(valid, Ranked(pool, ranking), pool)
       IN  /\ failed => raw = <<>>
           /\ req' = [req EXCEPT !.at = "built", !.degraded = failed,
                        !.batch = Shown(padded, req.own, Len(valid))]
  /\ UNCHANGED <<owned, rejections, outfitCache, poolChanges, runsBegun>>

\* The generator answers, or fails and proposes nothing.
BuildsOutfits ==
  /\ req.at = "missed"
  /\ \E raw \in Proposals \cup {<<>>}, failed \in BOOLEAN, ranking \in Rankings :
       LET pool   == req.own \cup req.fillers
           valid  == Validated(raw, pool)
           padded == Padded(valid, Ranked(pool, ranking), pool)
       IN  /\ failed => raw = <<>>
           /\ req' = [req EXCEPT !.at = "built", !.batch = Shown(padded, req.own, Len(valid)),
                        !.degraded = failed \/ Len(padded) > Len(valid)]
  /\ UNCHANGED <<owned, rejections, outfitCache, poolChanges, runsBegun>>

\* criticGate: off, unable, content, or it has the batch made again, once; the second is
\* taken if it has as many outfits.
Criticised ==
  /\ req.at = "built"
  /\ \/ req' = [req EXCEPT !.at = "judged"]
     \/ /\ req.batch # <<>>
        /\ \E raw \in Proposals :
             LET again == Validated(raw, req.own \cup req.fillers) IN
             req' = [req EXCEPT !.at = "judged",
                       !.batch = IF Len(again) < Len(req.batch) THEN @
                                 ELSE Shown(again, req.own, Len(again))]
  /\ UNCHANGED <<owned, rejections, outfitCache, poolChanges, runsBegun>>

ServesBatch ==
  /\ req.at = "judged" /\ req' = [req EXCEPT !.at = "served"]
  /\ outfitCache' = IF Len(req.batch) >= Few /\ ~req.degraded
                    THEN [k \in DOMAIN outfitCache \cup {Key} |->
                            IF k = Key THEN req.batch ELSE outfitCache[k]]
                    ELSE outfitCache
  /\ UNCHANGED <<owned, rejections, poolChanges, runsBegun>>

-----------------------------------------------------------------------------
(* The user, meanwhile. *)

ChangesPool ==
  /\ poolChanges < MaxPoolChanges /\ poolChanges' = poolChanges + 1
  /\ \/ \E id \in Own \ owned : owned' = owned \cup {id} /\ UNCHANGED rejections
     \/ \E id \in owned : owned' = owned \ {id} /\ UNCHANGED rejections
     \/ \E f \in Fillers \ rejections : rejections' = rejections \cup {f} /\ UNCHANGED owned
  /\ UNCHANGED <<outfitCache, req, runsBegun>>

EntryExpires ==
  /\ \E k \in DOMAIN outfitCache : outfitCache' = Restrict(outfitCache, DOMAIN outfitCache \ {k})
  /\ UNCHANGED <<owned, rejections, req, poolChanges, runsBegun>>

BatchNext ==
  \/ ReadsPool \/ LooksUpBatch \/ BuildsOutfits \/ Criticised \/ ServesBatch
  \/ ChangesPool \/ EntryExpires

BatchSpec == BatchInit /\ [][BatchNext]_batchVars

-----------------------------------------------------------------------------
\* Something can be made of a pool: each required role, and a fourth piece that is not
\* more footwear.
CanDress(pool) ==
  /\ Required \subseteq RolesIn(pool)
  /\ \/ RolesIn(pool) \ Required # {}
     \/ \E role \in {"TOPS", "BOTTOMS"} : Cardinality({id \in pool : RoleOf[id] = role}) > 1

\* Every outfit a user is shown, made now or a day ago, is of four items or more with the
\* required roles, all of them in the wardrobe as it was read for this request or fillers,
\* with the user's own told apart; no two are alike; and a user whose wardrobe alone can
\* be dressed from is never shown an empty batch, whatever model and critic did.
BatchIsWearable ==
  req.at = "served" =>
    /\ \A i \in DOMAIN req.batch :
         LET o == req.batch[i] IN
         /\ Wearable(o.items) /\ ToSet(o.items) \subseteq req.own \cup Fillers
         /\ o.owned = ToSet(o.items) \cap req.own
         /\ \A j \in DOMAIN req.batch \ {i} : ~SameItems(o.items, req.batch[j].items)
    /\ CanDress(req.own) => req.batch # <<>>

\* "A degraded batch must NOT be written to the 24h cache" (service.go:758): all a later
\* request can find is enough outfits, every one of them the model's, whatever failed,
\* was dropped or padded in the requests that filled the cache, and whether the critic
\* kept a padded batch or had it made again.
CachedByModel ==
  \A k \in DOMAIN outfitCache :
    /\ Len(outfitCache[k]) >= Few
    /\ \A i \in DOMAIN outfitCache[k] : ~outfitCache[k][i].canned
=============================================================================
