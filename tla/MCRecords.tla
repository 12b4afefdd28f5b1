----------------------------- MODULE MCRecords ------------------------------
(***************************************************************************)
(* Components of the server that keep records, one after the other: "part" *)
(* says which one a behaviour is about, the others stay in their initial   *)
(* state.  They share no state.                                            *)
(***************************************************************************)
EXTENDS FillerClaims, Generation, AdminCaches, EvalRuns, Erasure, Listings,
        OutfitBatches, AdminConsole

CONSTANTS
  p1, p2,                        \* providers
  t1, t2, b1, f1, x1, x2, ghost  \* items, fillers, and an id that names none

VARIABLE part

Parts == {"claims", "generation", "caches", "evals", "erasure", "listings", "batches",
          "console"}

\* Two providers, the first of them also the routed one.
TwoProviders == <<p1, p2>>

\* Two tops, a bottom and footwear that the user may own, and two fillers.
RoleTable ==
  (t1 :> "TOPS") @@ (t2 :> "TOPS") @@ (b1 :> "BOTTOMS") @@ (f1 :> "FOOTWEAR")
    @@ (x1 :> "ACCESSORIES") @@ (x2 :> "OUTERWEAR")
SomeRankings == {<<t1, t2, b1, f1, x1, x2>>, <<x2, x1, f1, b1, t2, t1>>}

\* Batches with an id that names nothing, an outfit told twice, a repeated item, no footwear.
SomeProposals ==
  LET First == <<t1, b1, f1, x1>>    Again == <<x1, f1, b1, t1>>
      Other == <<t2, b1, f1, x1>>    Both  == <<t1, t2, b1, f1>>
      Twice == <<t1, t1, b1, f1>>    Warm  == <<t1, b1, f1, x2>>
      Bare  == <<t1, t2, b1, x1>>    Wrong == <<t1, b1, f1, ghost>>
  IN  {<<Wrong, First, Again>>, <<First, Other, Both>>, <<Twice, Bare, Both>>,
       <<Warm, Both, Twice, Other>>, <<First>>}

RecordsTypeOK ==
  part \in Parts /\ ClaimTypeOK /\ GenTypeOK /\ CacheTypeOK /\ EvalTypeOK /\ ErasureTypeOK
  /\ ListTypeOK /\ BatchTypeOK /\ ConsoleTypeOK

\* One initial state of the parts that do not move.
Still(p, state) == part # p => state

MCInit ==
  /\ part \in Parts
  /\ GenInit
  /\ health[p2].fails = 0      \* only the first provider has a past
  /\ Still("generation", health = [p \in Providers |-> [fails |-> 0, cooling |-> FALSE]])
  /\ CacheInit /\ Still("caches", kind = "prompt")
  /\ ListInit /\ Still("listings", There = {} /\ walk.listing = FindItems)
  /\ BatchInit /\ Still("batches", owned = {})
  /\ ClaimInit /\ EvalInit /\ ErasureInit /\ ConsoleInit

MCNext ==
  /\ UNCHANGED part
  /\ \/ part = "claims" /\ ClaimNext
        /\ UNCHANGED <<genVars, cacheVars, evalVars, erasureVars, listVars,
                       batchVars, consoleVars>>
     \/ part = "generation" /\ GenNext
        /\ UNCHANGED <<claimVars, cacheVars, evalVars, erasureVars, listVars,
                       batchVars, consoleVars>>
     \/ part = "caches" /\ CacheNext
        /\ UNCHANGED <<claimVars, genVars, evalVars, erasureVars, listVars,
                       batchVars, consoleVars>>
     \/ part = "evals" /\ EvalNext
        /\ UNCHANGED <<claimVars, genVars, cacheVars, erasureVars, listVars,
                       batchVars, consoleVars>>
     \/ part = "erasure" /\ ErasureNext
        /\ UNCHANGED <<claimVars, genVars, cacheVars, evalVars, listVars,
                       batchVars, consoleVars>>
     \/ part = "listings" /\ ListNext
        /\ UNCHANGED <<claimVars, genVars, cacheVars, evalVars, erasureVars,
                       batchVars, consoleVars>>
     \/ part = "batches" /\ BatchNext
        /\ UNCHANGED <<claimVars, genVars, cacheVars, evalVars, erasureVars,
                       listVars, consoleVars>>
     \/ part = "console" /\ ConsoleNext
        /\ UNCHANGED <<claimVars, genVars, cacheVars, evalVars, erasureVars,
                       listVars, batchVars>>

vars == <<claimVars, genVars, cacheVars, evalVars, erasureVars, listVars, batchVars,
          consoleVars, part>>

MCSpec == MCInit /\ [][MCNext]_vars
=============================================================================
