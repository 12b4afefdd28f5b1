---------------------------- MODULE FillerClaims ----------------------------
(***************************************************************************)
(* One user and one archetype default: claims ("I have this"), rejections  *)
(* ("not in my wardrobe") and deletions of the claimed item                *)
(* (backend/internal/wardrobe/archetype_*.go, SeedForUser in app/app.go).  *)
(*                                                                         *)
(* A claim is a chain of Mongo calls without a transaction, and the index  *)
(* that backs its lookup is not unique.  Every call may fail, and a write  *)
(* that failed may have been applied.                                      *)
(***************************************************************************)
EXTENDS Integers, FiniteSets

CONSTANTS
  Claims,         \* claim requests; the item a claim copies is named after it
  Rejecters,      \* rejection requests
  NoItem,         \* no item
  MaxClaimFaults  \* bound: failed calls

ASSUME ClaimAssumption ==
  IsFiniteSet(Claims) /\ NoItem \notin Claims /\ MaxClaimFaults \in Nat

VARIABLES
  seeds,     \* the items of the user with this seededFromDefaultId
  rejected,  \* the row in archetype_rejections
  claim,     \* claim[c]: FromArchetypeDefault and the id it answers with
  rejects,   \* the rejections already sent
  claimFaults, overlapped, since
             \* history: faults so far; a claim missed while another was copying;
             \*   the claims begun since the last rejection

claimVars ==
  <<seeds, rejected, claim, rejects, claimFaults, overlapped, since>>

ClaimFault   == claimFaults < MaxClaimFaults /\ claimFaults' = claimFaults + 1
NoClaimFault == UNCHANGED claimFaults
Copying  == {"copy", "count"}
InClaim  == Copying \cup {"reload", "unreject"}

ClaimTypeOK ==
  /\ seeds \subseteq Claims /\ rejected \in BOOLEAN
  /\ claim \in [Claims -> [at : {"none", "ok", "failed"} \cup InClaim, id : Claims \cup {NoItem}]]
  /\ \A c \in Claims : claim[c].at \in {"reload", "unreject", "ok"} => claim[c].id # NoItem
  /\ rejects \subseteq Rejecters
  /\ claimFaults \in 0 .. MaxClaimFaults /\ overlapped \in BOOLEAN /\ since \subseteq Claims

ClaimInit ==
  /\ seeds = {} /\ rejected = FALSE /\ rejects = {}
  /\ claim = [c \in Claims |-> [at |-> "none", id |-> NoItem]]
  /\ claimFaults = 0 /\ overlapped = FALSE /\ since = {}

-----------------------------------------------------------------------------
(* FromArchetypeDefault, with SeedForUser. *)

Goes(c, at) == claim' = [claim EXCEPT ![c].at = at]

\* Mutant: an existing item is answered at once and its rejection stays.
LookupReturns(c) ==
  /\ claim[c].at = "none" /\ NoClaimFault
  /\ \/ /\ seeds = {} /\ Goes(c, "copy")
        /\ overlapped' = (overlapped \/ \E d \in Claims : claim[d].at \in Copying)
     \/ \E i \in seeds : claim' = [claim EXCEPT ![c] = [at |-> "ok", id |-> i]] /\ UNCHANGED overlapped
  /\ since' = since \cup {c} /\ UNCHANGED <<seeds, rejected, rejects>>

\* Mutant: the lookup never matches, as with a misspelt field path.
LookupBlind(c) ==
  /\ claim[c].at = "none" /\ Goes(c, "copy") /\ NoClaimFault
  /\ overlapped' = (overlapped \/ \E d \in Claims : claim[d].at \in Copying)
  /\ since' = since \cup {c} /\ UNCHANGED <<seeds, rejected, rejects>>

\* FindBySeededDefault: any matching item.
Lookup(c) ==
  /\ claim[c].at = "none"
  /\ \/ /\ seeds = {} /\ Goes(c, "copy") /\ NoClaimFault
        /\ overlapped' = (overlapped \/ \E d \in Claims : claim[d].at \in Copying)
     \/ /\ \E i \in seeds : claim' = [claim EXCEPT ![c] = [at |-> "reload", id |-> i]]
        /\ NoClaimFault /\ UNCHANGED overlapped
     \/ ClaimFault /\ Goes(c, "failed") /\ UNCHANGED overlapped
  /\ since' = since \cup {c} /\ UNCHANGED <<seeds, rejected, rejects>>

\* The default is read and saved under a new item id.
Copy(c) ==
  /\ claim[c].at = "copy"
  /\ \/ seeds' = seeds \cup {c} /\ Goes(c, "count") /\ NoClaimFault
     \/ ClaimFault /\ Goes(c, "failed") /\ (UNCHANGED seeds \/ seeds' = seeds \cup {c})
  /\ UNCHANGED <<rejected, rejects, overlapped, since>>

\* IncrementSeeded, whose error is dropped; the count feeds a report only.
CountSeeded(c) ==
  /\ claim[c].at = "count"
  /\ claim' = [claim EXCEPT ![c] = [at |-> "reload", id |-> c]]
  /\ NoClaimFault /\ UNCHANGED <<seeds, rejected, rejects, overlapped, since>>

\* FindByUser: an item deleted since is a 500.
Reload(c) ==
  /\ claim[c].at = "reload"
  /\ \/ claim[c].id \in seeds /\ Goes(c, "unreject") /\ NoClaimFault
     \/ claim[c].id \notin seeds /\ Goes(c, "failed") /\ NoClaimFault
     \/ ClaimFault /\ Goes(c, "failed")
  /\ UNCHANGED <<seeds, rejected, rejects, overlapped, since>>

\* The rejection is cleared if it can be; the claim succeeds either way.
Unreject(c) ==
  /\ claim[c].at = "unreject" /\ Goes(c, "ok")
  /\ \/ rejected' = FALSE /\ NoClaimFault
     \/ ClaimFault /\ UNCHANGED rejected
  /\ UNCHANGED <<seeds, rejects, overlapped, since>>

-----------------------------------------------------------------------------
\* ArchetypeRejection: Add swallows the duplicate.
Reject(r) ==
  /\ r \notin rejects /\ rejects' = rejects \cup {r}
  /\ \/ NoClaimFault /\ rejected' = TRUE
     \/ ClaimFault /\ rejected' \in {rejected, TRUE}
  /\ since' = {}
  /\ UNCHANGED <<seeds, claim, overlapped>>

\* The user deletes a claimed item.
DeleteClaimed(i) ==
  /\ i \in seeds /\ seeds' = seeds \ {i}
  /\ NoClaimFault /\ UNCHANGED <<rejected, claim, rejects, overlapped, since>>

ClaimStep(c) == Lookup(c) \/ Copy(c) \/ CountSeeded(c) \/ Reload(c) \/ Unreject(c)

ClaimNext ==
  \/ \E c \in Claims : ClaimStep(c)
  \/ \E r \in Rejecters : Reject(r)
  \/ \E i \in Claims : DeleteClaimed(i)

ClaimSpec == ClaimInit /\ [][ClaimNext]_claimVars

-----------------------------------------------------------------------------
\* "Idempotent - calling twice for the same default returns the same wardrobe row"
\* (archetype_endpoints.go:72): it holds as far as claims do not overlap, whatever
\* fails and whatever the user deletes; nothing but the lookup prevents a second copy.
OneItemPerClaim == ~overlapped => Cardinality(seeds) <= 1

\* A claim that has succeeded leaves no rejection made before it began, whether it
\* copied the default or found it copied (archetype_endpoints.go:73), and no other
\* claim brings one back.
OwnedNotRejected ==
  claimFaults = 0 => \A c \in since : claim[c].at = "ok" => ~rejected

\* Both: claims, rejections and deletions of one default agree on what the user owns.
ClaimsAgree == OneItemPerClaim /\ OwnedNotRejected
=============================================================================
