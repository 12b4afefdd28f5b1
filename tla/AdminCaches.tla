---------------------------- MODULE AdminCaches -----------------------------
(***************************************************************************)
(* Prompt templates and model routing (backend/internal/admin): documents  *)
(* that admins change and that outfit generation reads through an          *)
(* in-process cache with a time to live.                                   *)
(*                                                                         *)
(* One template name, its versions 1, 2, ... and the routing document are  *)
(* alike to the cache: "kind" says which one a behaviour is about.  A      *)
(* promotion is a transaction or, whenever the transaction fails, two      *)
(* writes.  Mongo's transactions are snapshot isolated: they see what was  *)
(* there when they began, and commit unless a document they write was      *)
(* written by another since; then the driver runs them again.              *)
(*                                                                         *)
(* A refill holds the write lock from the check to the store, so a hit and *)
(* an invalidation wait for it.  One server process; another process sees  *)
(* a change when its time to live ends.                                    *)
(***************************************************************************)
EXTENDS Integers, FiniteSets

CONSTANTS
  Admins,         \* admin requests that create or promote a version
  Readers,        \* generations that read the cache
  Free,           \* no reader: the write lock is free
  MaxVersion,     \* bound: versions of the template
  MaxCacheFaults  \* bound: failed reads and writes

ASSUME CacheAssumption ==
  MaxVersion \in Nat \ {0} /\ MaxCacheFaults \in Nat /\ Free \notin Readers

VARIABLES
  kind,        \* "prompt" or "routing"
  top,         \* versions 1 .. top exist
  prod,        \* versions with isProduction, or the routing in force
  adm,         \* adm[a]: where the request is, the version it is about, and of a
               \* transaction: what its snapshot has in production; lost: it must abort.
               \* met, history: another promotion wrote since its own snapshot or write
  cache,       \* the cached version, Fallback, or Stale
  lock,        \* the reader that holds the write lock, or Free
  rdr,         \* rdr[r]: where the read is and what it fetched
  cacheFaults,
  tangled      \* history: one was put in production while a promotion that saw none was open

cacheVars == <<kind, top, prod, adm, cache, lock, rdr, cacheFaults, tangled>>

Versions == 1 .. MaxVersion
Fallback == 0
Stale == -1

CacheFault   == cacheFaults < MaxCacheFaults /\ cacheFaults' = cacheFaults + 1
NoCacheFault == UNCHANGED cacheFaults

CacheTypeOK ==
  /\ kind \in {"prompt", "routing"} /\ top \in Versions /\ prod \subseteq 1 .. top
  /\ adm \in [Admins -> [at : {"idle", "listed", "tx", "counted", "demoted", "written"},
                         v : Versions, snap : SUBSET Versions, lost : BOOLEAN, met : BOOLEAN]]
  /\ cache \in Versions \cup {Fallback, Stale} /\ lock \in Readers \cup {Free}
  /\ rdr \in [Readers -> [at : {"idle", "missed", "fetching", "fetched"},
                          got : Versions \cup {Fallback}]]
  /\ cacheFaults \in 0 .. MaxCacheFaults /\ tangled \in BOOLEAN

Request(at, v) == [at |-> at, v |-> v, snap |-> {}, lost |-> FALSE, met |-> FALSE]
Resting == Request("idle", 1)

\* SeedPromptTemplates and NewRoutingMongoRepository: version 1 is in force.
CacheInit ==
  /\ kind \in {"prompt", "routing"} /\ top = 1 /\ prod = {1}
  /\ adm = [a \in Admins |-> Resting]
  /\ cache = Stale /\ lock = Free
  /\ rdr = [r \in Readers |-> [at |-> "idle", got |-> Fallback]]
  /\ cacheFaults = 0 /\ tangled = FALSE

AdmAt(a, at) == adm[a].at = at
AdmGoes(a, request) == adm' = [adm EXCEPT ![a] = request]

\* Request a writes the documents of some versions, and goes on as `request`: an open
\* transaction that is to write one of them has lost.
Noted(p, docs) ==
  IF p.at \in {"tx", "demoted", "written"}
  THEN [p EXCEPT !.met = TRUE, !.lost = @ \/ (p.at = "tx" /\ docs \cap (p.snap \cup {p.v}) # {})]
  ELSE p
AdmWrites(a, docs, request) ==
  adm' = [b \in Admins |-> IF b = a THEN request ELSE Noted(adm[b], docs)]

\* Another promotion found, or made, nothing in production, and is not done.
OthersBaseless(a) ==
  \E b \in Admins \ {a} : AdmAt(b, "demoted") \/ (AdmAt(b, "tx") /\ adm[b].snap = {})

-----------------------------------------------------------------------------
(* The admin's requests. *)

\* createPromptVersion: the next version is the largest plus one.
ListsVersions(a) ==
  /\ kind = "prompt" /\ AdmAt(a, "idle") /\ top < MaxVersion
  /\ AdmGoes(a, Request("listed", top + 1))
  /\ NoCacheFault /\ UNCHANGED <<kind, top, prod, cache, lock, rdr, tangled>>

\* CreateVersion: the unique index rejects a version another request took.
InsertsVersion(a) ==
  /\ AdmAt(a, "listed") /\ AdmGoes(a, Resting)
  /\ IF top < adm[a].v THEN top' = adm[a].v ELSE UNCHANGED top
  /\ NoCacheFault /\ UNCHANGED <<kind, prod, cache, lock, rdr, tangled>>

\* Promote: the transaction begins, and its first read takes the snapshot; it is run
\* again when it has lost.
BeginsTx(a) ==
  /\ \/ /\ kind = "prompt" /\ AdmAt(a, "idle")
        /\ \E v \in 1 .. top : AdmGoes(a, [Request("tx", v) EXCEPT !.snap = prod])
     \/ /\ AdmAt(a, "tx") /\ adm[a].lost
        /\ AdmGoes(a, [Request("tx", adm[a].v) EXCEPT !.snap = prod])
  /\ NoCacheFault /\ UNCHANGED <<kind, top, prod, cache, lock, rdr, tangled>>

\* Mutant: what to demote is read before the transaction begins.
CommitsStale(a) ==
  /\ AdmAt(a, "tx")
  /\ LET p == adm[a] IN
     /\ prod' = (prod \ p.snap) \cup {p.v}
     /\ AdmWrites(a, p.snap \cup {p.v}, [p EXCEPT !.at = "written", !.snap = {}, !.lost = FALSE])
  /\ tangled' = (tangled \/ OthersBaseless(a))
  /\ NoCacheFault /\ UNCHANGED <<kind, top, cache, lock, rdr>>

\* What its snapshot has in production is demoted and the version promoted, at once; the
\* answer to the commit may get lost.
CommitsTx(a) ==
  /\ AdmAt(a, "tx") /\ ~adm[a].lost
  /\ LET p == adm[a] IN
     /\ prod' = (prod \ p.snap) \cup {p.v}
     /\ \/ AdmWrites(a, p.snap \cup {p.v}, [p EXCEPT !.at = "written", !.snap = {}])
           /\ NoCacheFault
        \/ AdmWrites(a, p.snap \cup {p.v}, Request("counted", p.v)) /\ CacheFault
  /\ tangled' = (tangled \/ OthersBaseless(a)) /\ UNCHANGED <<kind, top, cache, lock, rdr>>

\* No sessions, or a transaction given up: promoteInternal runs without one.  The version
\* exists,
CountsVersion(a) ==
  /\ \/ kind = "prompt" /\ AdmAt(a, "idle") /\ \E v \in 1 .. top : AdmGoes(a, Request("counted", v))
     \/ AdmAt(a, "tx") /\ AdmGoes(a, Request("counted", adm[a].v))
  /\ NoCacheFault /\ UNCHANGED <<kind, top, prod, cache, lock, rdr, tangled>>

\* every version is demoted,
Demotes(a) ==
  /\ AdmAt(a, "counted")
  /\ \/ prod' = {} /\ AdmWrites(a, prod, Request("demoted", adm[a].v)) /\ NoCacheFault
     \/ CacheFault /\ AdmGoes(a, Resting) /\ UNCHANGED prod
  /\ UNCHANGED <<kind, top, cache, lock, rdr, tangled>>

\* and the chosen one is promoted; a failure here is answered with a 500 and
\* leaves none, and the cache as it is.
PromotesAlone(a) ==
  /\ AdmAt(a, "demoted")
  /\ \/ /\ prod' = prod \cup {adm[a].v} /\ NoCacheFault
        /\ AdmWrites(a, {adm[a].v} \ prod, [adm[a] EXCEPT !.at = "written"])
        /\ tangled' = (tangled \/ OthersBaseless(a))
     \/ CacheFault /\ AdmGoes(a, Resting) /\ UNCHANGED <<prod, tangled>>
  /\ UNCHANGED <<kind, top, cache, lock, rdr>>

\* The PUT of the routing document: one update.
ReplacesRouting(a) ==
  /\ kind = "routing" /\ AdmAt(a, "idle") /\ top < MaxVersion
  /\ top' = top + 1 /\ prod' = {top + 1} /\ AdmWrites(a, {}, Request("written", top + 1))
  /\ NoCacheFault /\ UNCHANGED <<kind, cache, lock, rdr, tangled>>

\* Mutant: the cache is cleared without the lock.
InvalidatesUnlocked(a) ==
  /\ AdmAt(a, "written") /\ cache' = Stale /\ AdmGoes(a, Resting)
  /\ NoCacheFault /\ UNCHANGED <<kind, top, prod, lock, rdr, tangled>>

\* Invalidate, then the answer.
Invalidates(a) ==
  /\ AdmAt(a, "written") /\ lock = Free
  /\ cache' = Stale /\ AdmGoes(a, Resting)
  /\ NoCacheFault /\ UNCHANGED <<kind, top, prod, lock, rdr, tangled>>

-----------------------------------------------------------------------------
(* BodyOrFallback and ProviderForTier. *)

RdrGoes(r, at, got) == rdr' = [rdr EXCEPT ![r] = [at |-> at, got |-> got]]

\* Under the read lock: a hit changes nothing.
Misses(r) ==
  /\ rdr[r].at = "idle" /\ lock = Free /\ cache = Stale /\ RdrGoes(r, "missed", Fallback)
  /\ NoCacheFault /\ UNCHANGED <<kind, top, prod, adm, cache, lock, tangled>>

\* Under the write lock the check is made again.
Locks(r) ==
  /\ rdr[r].at = "missed" /\ lock = Free
  /\ IF cache = Stale
     THEN lock' = r /\ RdrGoes(r, "fetching", Fallback)
     ELSE RdrGoes(r, "idle", Fallback) /\ UNCHANGED lock
  /\ NoCacheFault /\ UNCHANGED <<kind, top, prod, adm, cache, tangled>>

\* GetProduction or Get.  A prompt that cannot be read is its fallback for the whole
\* time to live; a routing that cannot be read is not cached.
Fetches(r) ==
  /\ rdr[r].at = "fetching"
  /\ \/ \E v \in prod : RdrGoes(r, "fetched", v) /\ NoCacheFault /\ UNCHANGED lock
     \/ prod = {} /\ RdrGoes(r, "fetched", Fallback) /\ NoCacheFault /\ UNCHANGED lock
     \/ kind = "prompt" /\ CacheFault /\ RdrGoes(r, "fetched", Fallback) /\ UNCHANGED lock
     \/ kind = "routing" /\ CacheFault /\ RdrGoes(r, "idle", Fallback) /\ lock' = Free
  /\ UNCHANGED <<kind, top, prod, adm, cache, tangled>>

Stores(r) ==
  /\ rdr[r].at = "fetched"
  /\ cache' = rdr[r].got /\ lock' = Free /\ RdrGoes(r, "idle", Fallback)
  /\ NoCacheFault /\ UNCHANGED <<kind, top, prod, adm, tangled>>

\* The time to live ends (while nobody refills: the refill sets it anew).
Expires ==
  /\ cache # Stale /\ lock = Free /\ cache' = Stale
  /\ NoCacheFault /\ UNCHANGED <<kind, top, prod, adm, lock, rdr, tangled>>

CacheNext ==
  \/ Expires
  \/ \E a \in Admins : \/ ListsVersions(a) \/ InsertsVersion(a) \/ BeginsTx(a) \/ CommitsTx(a)
                       \/ CountsVersion(a) \/ Demotes(a) \/ PromotesAlone(a)
                       \/ ReplacesRouting(a) \/ Invalidates(a)
  \/ \E r \in Readers : Misses(r) \/ Locks(r) \/ Fetches(r) \/ Stores(r)

CacheSpec == CacheInit /\ [][CacheNext]_cacheVars

-----------------------------------------------------------------------------
Changing(a) == adm[a].at \in {"demoted", "written"}

\* Promote "flips isProduction so exactly one version of the named template is the
\* current one", whichever promotions overlap, with or without a transaction, and whatever
\* fails, unless one is put there while a promotion is open that saw none there (the
\* transactions of two such promotions write different documents, and both commit).  One
\* that met no other leaves its version alone in production, whatever was there before.
OneProduction ==
  /\ ~tangled => Cardinality(prod) <= 1
  /\ ~tangled /\ cacheFaults = 0 /\ (\A a \in Admins : ~AdmAt(a, "demoted")) => prod # {}
  /\ \A a \in Admins : AdmAt(a, "written") /\ ~adm[a].met => prod = {adm[a].v}

\* Once the changes are answered, a cache that holds anything holds what is in force:
\* no refill that read before a change outlives its invalidation.
CacheIsCurrent ==
  (cacheFaults = 0 /\ \A a \in Admins : ~Changing(a)) =>
    \/ cache = Stale
    \/ cache \in prod
    \/ cache = Fallback /\ prod = {}
=============================================================================
