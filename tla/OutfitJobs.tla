----------------------------- MODULE OutfitJobs -----------------------------
(***************************************************************************)
(* The asynchronous outfit-generation service: backend/internal/outfit,    *)
(* handler.go (SubmitGenerate, handleSSEStream, runAsyncGeneration,        *)
(* PollJob, the generation semaphore) and jobs.go (JobStore).              *)
(*                                                                         *)
(* A job id is the request that created it.  Mongo holds the durable row   *)
(* (status, age); Redis holds a cached copy with a TTL and the idempotency *)
(* mapping with another.  All times are ages in ticks: Tick advances every *)
(* clock at once, and an age stops at MaxAge, where no threshold tells it  *)
(* from a larger one.                                                      *)
(***************************************************************************)
EXTENDS Integers, FiniteSets

CONSTANTS
  Requests,       \* POST /v1/outfits/generate calls on the JSON path
  Streams,        \* ... and on the SSE path
  Keys, NoKey,    \* (user, Idempotency-Key) pairs; NoKey: header absent
  KeyOf,          \* the key each request carries
  Pollers,        \* GET /v1/outfits/jobs/{id} calls that can be in flight
  NoJob,          \* "no job id"
  MaxConcurrent,  \* OUTFIT_MAX_CONCURRENT, capacity of genSem
  WorkerTimeout,  \* the worker's context deadline (2 min)
  StaleAfter,     \* jobStaleProcessing (10 min)
  RedisTTL,       \* JobStore.redisTTL (10 min)
  IdemTTL,        \* idempotencyKeyTTL (60 s)
  ReapAfter,      \* jobMongoTTL (24 h)
  MaxAge,         \* bound: ages saturate here
  MaxCrashes,     \* bound: process deaths explored
  RedisFaults     \* whether Redis calls may fail and Redis may be flushed

ASSUME NamesAssumption ==
  /\ IsFiniteSet(Requests) /\ IsFiniteSet(Streams)
  /\ Requests \cap Streams = {}
  /\ NoJob \notin Requests
  /\ NoKey \notin Keys
  /\ KeyOf \in [Requests -> Keys \cup {NoKey}]

\* Only the order of the thresholds is used: the sweeper's cutoff is not below
\* the worker's deadline.
ASSUME TimesAssumption ==
  /\ MaxConcurrent \in Nat \ {0}
  /\ WorkerTimeout \in Nat \ {0} /\ StaleAfter \in Nat
  /\ WorkerTimeout <= StaleAfter
  /\ RedisTTL \in Nat \ {0} /\ IdemTTL \in Nat \ {0}
  /\ ReapAfter \in Nat /\ MaxAge \in Nat /\ MaxCrashes \in Nat
  /\ StaleAfter < MaxAge
  /\ RedisFaults \in BOOLEAN

VARIABLES
  up,       \* the API process is running
  crashes,  \* how often it died
  pc,       \* pc[r]: where the handler of request r stands
  answer,   \* answer[r]: the job id in r's 202
  sse,      \* sse[s]: the state of a streaming request
  slots,    \* tokens in genSem
  worker,   \* worker[j]: the goroutine generating job j
  wage,     \* wage[j]: age of its context
  status,   \* status[j]: the job's row in Mongo
  age,      \* age[j]: time since the row's createdAt
  cached,   \* cached[j]: the status of the copy in Redis, or "none"
  cttl,     \* cttl[j]: its remaining time to live
  idem,     \* idem[k]: the job bound to an idempotency key
  ittl,     \* ittl[k]: remaining time to live of that binding
  poll      \* poll[p]: a poll between its Mongo read and its Redis write

procVars  == <<up, crashes>>
reqVars   == <<pc, answer, sse>>
slotVars  == <<slots>>
workVars  == <<worker, wage>>
rowVars   == <<status, age>>
cacheVars == <<cached, cttl>>
idemVars  == <<idem, ittl>>
vars == <<procVars, reqVars, slotVars, workVars, rowVars, cacheVars, idemVars, poll>>

Terminal == {"completed", "failed"}
JobStatus == {"pending", "processing"} \cup Terminal

\* A poll that is not between its two steps.
Idle == [job |-> NoJob, doc |-> "none"]

\* The state, and that a 202 always carries a job id.
TypeOK ==
  /\ up \in BOOLEAN /\ crashes \in 0 .. MaxCrashes
  /\ pc \in [Requests -> {"idle", "acquire", "save", "launch", "accepted", "busy", "error"}]
  /\ answer \in [Requests -> Requests \cup {NoJob}]
  /\ \A r \in Requests : pc[r] = "accepted" => answer[r] # NoJob
  /\ sse \in [Streams -> {"idle", "streaming", "closed"}]
  /\ slots \in Nat
  /\ worker \in [Requests -> {"none", "starting", "generating", "exited", "killed"}]
  /\ wage \in [Requests -> 0 .. MaxAge]
  /\ status \in [Requests -> JobStatus \cup {"absent", "reaped"}]
  /\ age \in [Requests -> 0 .. MaxAge]
  /\ cached \in [Requests -> JobStatus \cup {"none"}]
  /\ cttl \in [Requests -> 0 .. RedisTTL]
  /\ idem \in [Keys -> Requests \cup {NoJob}]
  /\ ittl \in [Keys -> 0 .. IdemTTL]
  /\ poll \in [Pollers -> [job : Requests, doc : JobStatus] \cup {Idle}]

Init ==
  /\ up = TRUE /\ crashes = 0
  /\ pc = [r \in Requests |-> "idle"] /\ answer = [r \in Requests |-> NoJob]
  /\ sse = [s \in Streams |-> "idle"]
  /\ slots = 0
  /\ worker = [j \in Requests |-> "none"] /\ wage = [j \in Requests |-> 0]
  /\ status = [j \in Requests |-> "absent"] /\ age = [j \in Requests |-> 0]
  /\ cached = [j \in Requests |-> "none"] /\ cttl = [j \in Requests |-> 0]
  /\ idem = [k \in Keys |-> NoJob] /\ ittl = [k \in Keys |-> 0]
  /\ poll = [p \in Pollers |-> Idle]

-----------------------------------------------------------------------------
(***************************************************************************)
(* JobStore.Save: the Mongo upsert first, then the Redis write-through.    *)
(* "stored" both happen; "uncached" the Redis Set fails (or the process    *)
(* dies before it) and is only logged; "unacked" Mongo applied the write   *)
(* but the call returned an error; "rejected" nothing was written.         *)
(***************************************************************************)
RedisOutcomes == {"stored"} \cup (IF RedisFaults THEN {"uncached"} ELSE {})
SaveOutcomes == RedisOutcomes \cup {"unacked", "rejected"}
Saved(o) == o \in {"stored", "uncached"}        \* Save returned nil

\* Mutant: the cache is written although Mongo refused the row.
SaveCacheFirst(j, s, a, o) ==
  /\ IF o = "rejected"
       THEN UNCHANGED rowVars
       ELSE /\ status' = [status EXCEPT ![j] = s]
            /\ age' = [age EXCEPT ![j] = a]
  /\ IF o \in {"stored", "rejected"}
       THEN /\ cached' = [cached EXCEPT ![j] = s]
            /\ cttl' = [cttl EXCEPT ![j] = RedisTTL]
       ELSE UNCHANGED cacheVars

Save(j, s, a, o) ==
  /\ IF o = "rejected"
       THEN UNCHANGED rowVars
       ELSE /\ status' = [status EXCEPT ![j] = s]
            /\ age' = [age EXCEPT ![j] = a]
  /\ IF o = "stored"
       THEN /\ cached' = [cached EXCEPT ![j] = s]
            /\ cttl' = [cttl EXCEPT ![j] = RedisTTL]
       ELSE UNCHANGED cacheVars

\* acquireGenSlot and releaseGenSlot: both are non-blocking selects.
AcquireSlot == slots < MaxConcurrent /\ slots' = slots + 1
ReleaseSlot == slots' = IF slots > 0 THEN slots - 1 ELSE 0

-----------------------------------------------------------------------------
(* SubmitGenerate, JSON path. *)

\* Mutant: the `existing != ""` test is dropped.
ReplayAnything(r) ==
  /\ up /\ pc[r] = "idle" /\ KeyOf[r] # NoKey
  /\ pc' = [pc EXCEPT ![r] = "accepted"]
  /\ answer' = [answer EXCEPT ![r] = idem[KeyOf[r]]]
  /\ UNCHANGED <<procVars, sse, slotVars, workVars, rowVars, cacheVars, idemVars, poll>>

\* LookupIdempotency finds a binding: replay its job id.
Replay(r) ==
  /\ up /\ pc[r] = "idle" /\ KeyOf[r] # NoKey
  /\ idem[KeyOf[r]] # NoJob
  /\ pc' = [pc EXCEPT ![r] = "accepted"]
  /\ answer' = [answer EXCEPT ![r] = idem[KeyOf[r]]]
  /\ UNCHANGED <<procVars, sse, slotVars, workVars, rowVars, cacheVars, idemVars, poll>>

\* No key, no binding, or the lookup failed (logged, "continuing without"):
\* go on to create a job.
LookupMisses(r) ==
  /\ up /\ pc[r] = "idle"
  /\ KeyOf[r] # NoKey /\ ~RedisFaults => idem[KeyOf[r]] = NoJob
  /\ pc' = [pc EXCEPT ![r] = "acquire"]
  /\ UNCHANGED <<procVars, answer, sse, slotVars, workVars, rowVars, cacheVars, idemVars, poll>>

TakeSlot(r) ==
  /\ up /\ pc[r] = "acquire"
  /\ AcquireSlot
  /\ pc' = [pc EXCEPT ![r] = "save"]
  /\ UNCHANGED <<procVars, answer, sse, workVars, rowVars, cacheVars, idemVars, poll>>

\* 503 with Retry-After.
ServerBusy(r) ==
  /\ up /\ pc[r] = "acquire" /\ ~(slots < MaxConcurrent)
  /\ pc' = [pc EXCEPT ![r] = "busy"]
  /\ UNCHANGED <<procVars, answer, sse, slotVars, workVars, rowVars, cacheVars, idemVars, poll>>

\* Mutant: the deferred `if !launched` release is forgotten.
SavePendingLeaks(r) ==
  /\ up /\ pc[r] = "save"
  /\ \E o \in SaveOutcomes :
       /\ Save(r, "pending", 0, o)
       /\ pc' = [pc EXCEPT ![r] = IF Saved(o) THEN "launch" ELSE "error"]
  /\ UNCHANGED <<procVars, answer, sse, slots, workVars, idemVars, poll>>

\* Mutant: the error of the Save is logged and the job launched all the same.
SavePendingGoesOn(r) ==
  /\ up /\ pc[r] = "save"
  /\ \E o \in SaveOutcomes : Save(r, "pending", 0, o)
  /\ pc' = [pc EXCEPT ![r] = "launch"]
  /\ UNCHANGED <<procVars, answer, sse, slotVars, workVars, idemVars, poll>>

\* Save(pending).  On an error the deferred guard releases the slot and the
\* client gets a 500, although an unacknowledged write may have stored the row.
SavePending(r) ==
  /\ up /\ pc[r] = "save"
  /\ \E o \in SaveOutcomes :
       /\ Save(r, "pending", 0, o)
       /\ pc' = [pc EXCEPT ![r] = IF Saved(o) THEN "launch" ELSE "error"]
       /\ IF Saved(o) THEN UNCHANGED slots ELSE ReleaseSlot
  /\ UNCHANGED <<procVars, answer, sse, workVars, idemVars, poll>>

\* SaveIdempotency (best effort), go runAsyncGeneration, 202.
BindAndLaunch(r) ==
  /\ up /\ pc[r] = "launch"
  /\ \/ /\ KeyOf[r] # NoKey
        /\ idem' = [idem EXCEPT ![KeyOf[r]] = r]
        /\ ittl' = [ittl EXCEPT ![KeyOf[r]] = IdemTTL]
     \/ /\ KeyOf[r] # NoKey => RedisFaults
        /\ UNCHANGED idemVars
  /\ worker' = [worker EXCEPT ![r] = "starting"]
  /\ pc' = [pc EXCEPT ![r] = "accepted"]
  /\ answer' = [answer EXCEPT ![r] = r]
  /\ UNCHANGED <<procVars, sse, slotVars, wage, rowVars, cacheVars, poll>>

-----------------------------------------------------------------------------
(* handleSSEStream: takes a slot for the whole synchronous generation. *)

StreamOpens(s) ==
  /\ up /\ sse[s] = "idle"
  /\ \/ AcquireSlot /\ sse' = [sse EXCEPT ![s] = "streaming"]
     \/ /\ ~(slots < MaxConcurrent)
        /\ sse' = [sse EXCEPT ![s] = "closed"]
        /\ UNCHANGED slots
  /\ UNCHANGED <<procVars, pc, answer, workVars, rowVars, cacheVars, idemVars, poll>>

\* Success, failure, the 2-minute deadline or a client disconnect: the handler
\* returns and the deferred release runs.
StreamCloses(s) ==
  /\ up /\ sse[s] = "streaming"
  /\ ReleaseSlot
  /\ sse' = [sse EXCEPT ![s] = "closed"]
  /\ UNCHANGED <<procVars, pc, answer, workVars, rowVars, cacheVars, idemVars, poll>>

-----------------------------------------------------------------------------
(* runAsyncGeneration *)

\* Every Save of the worker uses its context: past the deadline nothing is
\* written.  The error is logged and swallowed in each case.
CtxLive(j) == wage[j] < WorkerTimeout
WorkerOutcomes(j) == IF CtxLive(j) THEN SaveOutcomes ELSE {"rejected"}

\* The context starts, the row is marked processing with a fresh createdAt.
WorkerStarts(j) ==
  /\ up /\ worker[j] = "starting"
  /\ \E o \in SaveOutcomes : Save(j, "processing", 0, o)
  /\ worker' = [worker EXCEPT ![j] = "generating"]
  /\ wage' = [wage EXCEPT ![j] = 0]
  /\ UNCHANGED <<procVars, reqVars, slotVars, idemVars, poll>>

\* Mutant: a worker whose context expired returns without releasing.
WorkerFinishesLeaks(j, verdict, a) ==
  /\ up /\ worker[j] = "generating"
  /\ \E o \in WorkerOutcomes(j) : Save(j, verdict, a, o)
  /\ worker' = [worker EXCEPT ![j] = "exited"]
  /\ IF CtxLive(j) THEN ReleaseSlot ELSE UNCHANGED slots
  /\ UNCHANGED <<procVars, reqVars, wage, idemVars, poll>>

\* GenerateOutfits returned and the verdict is saved, with the createdAt of the
\* processing row, or a new one (a = 0) from the panic handler; then the
\* deferred release.
WorkerFinishes(j, verdict, a) ==
  /\ up /\ worker[j] = "generating"
  /\ \E o \in WorkerOutcomes(j) : Save(j, verdict, a, o)
  /\ worker' = [worker EXCEPT ![j] = "exited"]
  /\ ReleaseSlot
  /\ UNCHANGED <<procVars, reqVars, wage, idemVars, poll>>

WorkerCompletes(j) == WorkerFinishes(j, "completed", wage[j])
WorkerFails(j)     == WorkerFinishes(j, "failed", wage[j])
WorkerPanics(j)    == WorkerFinishes(j, "failed", 0)

-----------------------------------------------------------------------------
(***************************************************************************)
(* PollJob -> JobStore.Get.  A Redis hit answers at once and changes       *)
(* nothing.  On a miss (or a Redis error) the row is read from Mongo, and  *)
(* only then written back to Redis: two steps, anything may come between.  *)
(* The miss may be older than the read, so the read has no guard on it.    *)
(***************************************************************************)
PollReadsMongo(p) ==
  /\ up /\ poll[p] = Idle
  /\ \E j \in Requests :
       /\ status[j] \in JobStatus
       /\ poll' = [poll EXCEPT ![p] = [job |-> j, doc |-> status[j]]]
  /\ UNCHANGED <<procVars, reqVars, slotVars, workVars, rowVars, cacheVars, idemVars>>

\* Mutant: the copy is written without an expiry.
PollRepopulatesForever(p) ==
  /\ up /\ poll[p] # Idle
  /\ cached' = [cached EXCEPT ![poll[p].job] = poll[p].doc]
  /\ cttl' = [cttl EXCEPT ![poll[p].job] = 0]
  /\ poll' = [poll EXCEPT ![p] = Idle]
  /\ UNCHANGED <<procVars, reqVars, slotVars, workVars, rowVars, idemVars>>

PollRepopulates(p) ==
  /\ up /\ poll[p] # Idle
  /\ \/ /\ cached' = [cached EXCEPT ![poll[p].job] = poll[p].doc]
        /\ cttl' = [cttl EXCEPT ![poll[p].job] = RedisTTL]
     \/ RedisFaults /\ UNCHANGED cacheVars
  /\ poll' = [poll EXCEPT ![p] = Idle]
  /\ UNCHANGED <<procVars, reqVars, slotVars, workVars, rowVars, idemVars>>

-----------------------------------------------------------------------------
(* recoverStaleJobs, periodic and at boot, and the Mongo TTL index. *)

\* Mutant: the cutoff is `now`, not `now - jobStaleProcessing`.
IsStaleAtOnce(j) == status[j] = "processing" /\ age[j] >= 0

IsStale(j) == status[j] = "processing" /\ age[j] > StaleAfter

\* Mutant: recovery runs at boot only (the behaviour before issue 109 D5).
SweepStaleNever(j) == IsStale(j) /\ ~up /\ UNCHANGED vars

\* One document of the periodic UpdateMany.  createdAt is left alone and
\* Redis is not told.
SweepStale(j) ==
  /\ up /\ IsStale(j)
  /\ status' = [status EXCEPT ![j] = "failed"]
  /\ UNCHANGED <<procVars, reqVars, slotVars, workVars, age, cacheVars, idemVars, poll>>

\* The TTL index deletes by createdAt whatever the status is.  A day outlives
\* every handler and worker, so no row is reaped under a running one.
InFlight(j) == pc[j] = "launch" \/ worker[j] \in {"starting", "generating"}

Reap(j) ==
  /\ status[j] \in JobStatus /\ age[j] >= ReapAfter /\ ~InFlight(j)
  /\ status' = [status EXCEPT ![j] = "reaped"]
  /\ UNCHANGED <<procVars, reqVars, slotVars, workVars, age, cacheVars, idemVars, poll>>

-----------------------------------------------------------------------------
(* The environment: process death and restart, Redis losing its data, time. *)

\* Handlers, goroutines and the semaphore die with the process; Mongo and
\* Redis stay.
Crash ==
  /\ up /\ crashes < MaxCrashes
  /\ up' = FALSE /\ crashes' = crashes + 1
  /\ pc' = [r \in Requests |-> IF pc[r] \in {"acquire", "save", "launch"} THEN "error" ELSE pc[r]]
  /\ sse' = [s \in Streams |-> IF sse[s] = "streaming" THEN "closed" ELSE sse[s]]
  /\ worker' = [j \in Requests |->
                  IF worker[j] \in {"starting", "generating"} THEN "killed" ELSE worker[j]]
  /\ slots' = 0
  /\ poll' = [p \in Pollers |-> Idle]
  /\ UNCHANGED <<answer, wage, rowVars, cacheVars, idemVars>>

\* NewJobStore recovers before the server listens; an error part way is
\* logged and the boot goes on.
Boot ==
  /\ ~up
  /\ \E S \in SUBSET {j \in Requests : IsStale(j)} :
       status' = [j \in Requests |-> IF j \in S THEN "failed" ELSE status[j]]
  /\ up' = TRUE
  /\ UNCHANGED <<crashes, reqVars, slotVars, workVars, age, cacheVars, idemVars, poll>>

RedisFlush ==
  /\ RedisFaults
  /\ cached' = [j \in Requests |-> "none"] /\ cttl' = [j \in Requests |-> 0]
  /\ idem' = [k \in Keys |-> NoJob] /\ ittl' = [k \in Keys |-> 0]
  /\ UNCHANGED <<procVars, reqVars, slotVars, workVars, rowVars, poll>>

\* A Redis key expires as its time to live runs out; 0 is a key without one.
Older(a) == IF a < MaxAge THEN a + 1 ELSE a
Less(t)  == IF t > 0 THEN t - 1 ELSE t

Tick ==
  /\ age' = [j \in Requests |-> IF status[j] \in JobStatus THEN Older(age[j]) ELSE age[j]]
  /\ wage' = [j \in Requests |-> IF worker[j] = "generating" THEN Older(wage[j]) ELSE wage[j]]
  /\ cttl' = [j \in Requests |-> Less(cttl[j])]
  /\ cached' = [j \in Requests |-> IF cttl[j] = 1 THEN "none" ELSE cached[j]]
  /\ ittl' = [k \in Keys |-> Less(ittl[k])]
  /\ idem' = [k \in Keys |-> IF ittl[k] = 1 THEN NoJob ELSE idem[k]]
  /\ UNCHANGED <<procVars, reqVars, slotVars, worker, status, poll>>

-----------------------------------------------------------------------------
Submit(r) ==
  Replay(r) \/ LookupMisses(r) \/ TakeSlot(r) \/ ServerBusy(r) \/ SavePending(r) \/ BindAndLaunch(r)

Work(j) == WorkerStarts(j) \/ WorkerCompletes(j) \/ WorkerFails(j) \/ WorkerPanics(j)

Next ==
  \/ \E r \in Requests : Submit(r) \/ Work(r) \/ SweepStale(r) \/ Reap(r)
  \/ \E s \in Streams : StreamOpens(s) \/ StreamCloses(s)
  \/ \E p \in Pollers : PollReadsMongo(p) \/ PollRepopulates(p)
  \/ Crash \/ Boot \/ RedisFlush \/ Tick

Spec == Init /\ [][Next]_vars

(***************************************************************************)
(* Fairness.  A handler that has begun runs on (every store call has a     *)
(* timeout); a worker returns because its context expires; the sweeper is  *)
(* a ticker; the process is restarted; time passes.  Clients need not      *)
(* submit or poll, Redis need not be flushed, the TTL index owes nothing.  *)
(***************************************************************************)
Fairness ==
  /\ WF_vars(Tick) /\ WF_vars(Boot)
  /\ \A r \in Requests :
       /\ WF_vars(TakeSlot(r) \/ ServerBusy(r) \/ SavePending(r) \/ BindAndLaunch(r))
       /\ WF_vars(Work(r)) /\ WF_vars(SweepStale(r))
  /\ \A s \in Streams : WF_vars(StreamCloses(s))
  /\ \A p \in Pollers : WF_vars(PollRepopulates(p))

FairSpec == Spec /\ Fairness

-----------------------------------------------------------------------------
(* Safety *)

HoldsSlot(r) == pc[r] \in {"save", "launch"} \/ worker[r] \in {"starting", "generating"}
SlotHolders == {r \in Requests : HoldsSlot(r)} \cup {s \in Streams : sse[s] = "streaming"}

\* The semaphore counts exactly the handlers, goroutines and streams that own
\* a generation, so no early return, error, panic or restart leaks or returns
\* a slot twice, and never more than MaxConcurrent generations run.
SlotsAccounted == slots = Cardinality(SlotHolders) /\ slots <= MaxConcurrent

\* The sweeper spares the living: a worker whose context is still live finds
\* its row pending or processing, however late it started and however many
\* restarts and sweeps came before ("a live job is never falsely failed").
NeverFalselyFailed ==
  \A j \in Requests :
    worker[j] = "generating" /\ CtxLive(j) => status[j] \in {"pending", "processing"}

\* Redis, and a poll about to write Redis, may lag behind Mongo but never run
\* ahead of it or disagree on the verdict: what a client is shown was durable.
Lags(c, s) ==
  \/ s = "reaped" \/ c = s
  \/ c = "pending" /\ s \in {"processing"} \cup Terminal
  \/ c = "processing" /\ s \in Terminal

CacheNeverAhead ==
  /\ \A j \in Requests : cached[j] # "none" => Lags(cached[j], status[j])
  /\ \A p \in Pollers : poll[p] # Idle => Lags(poll[p].doc, status[poll[p].job])

\* Every step of the service is a step of the abstract lifecycle, or none: no
\* worker, sweeper, retry or restart moves a row backwards or changes a
\* verdict, and every job id in a 202 names a stored row.
Lifecycle ==
  INSTANCE JobLifecycle WITH
    Jobs <- Requests, st <- status,
    accepted <- {answer[r] : r \in Requests} \ {NoJob}
ImplementsLifecycle == Lifecycle!Spec

-----------------------------------------------------------------------------
(***************************************************************************)
(* The inductive invariant behind the safety properties.  How far the      *)
(* handler and the worker of a request have come bounds the status of its  *)
(* row; a live worker's row is no older than the worker; only accepted     *)
(* requests have an answer; every stored job id names a row; every copy    *)
(* lags.                                                                   *)
(***************************************************************************)
Progress(r) ==
  /\ pc[r] \in {"idle", "acquire", "save"} => status[r] = "absent" /\ worker[r] = "none"
  /\ pc[r] = "launch" => status[r] = "pending" /\ worker[r] = "none"
  /\ worker[r] = "starting" => status[r] = "pending"
  /\ worker[r] = "generating" =>
       /\ status[r] \in {"pending", "processing", "failed"}
       /\ status[r] = "failed" => ~CtxLive(r)
       /\ status[r] = "processing" => age[r] <= wage[r]

IdsNameRows ==
  /\ \A r \in Requests :
       /\ pc[r] # "accepted" => answer[r] = NoJob
       /\ answer[r] # NoJob => status[answer[r]] # "absent"
  /\ \A k \in Keys : idem[k] # NoJob => status[idem[k]] # "absent"

IInv == TypeOK /\ (\A r \in Requests : Progress(r)) /\ IdsNameRows /\ CacheNeverAhead

-----------------------------------------------------------------------------
(* Liveness *)

\* While the row is younger than the TTL, a job marked processing is finished
\* or failed in the end, also when its worker died or its last Save was lost.
ProcessingResolves ==
  \A j \in Requests : status[j] = "processing" ~> status[j] \in Terminal \cup {"reaped"}

\* Once a job has a verdict every later poll shows it, in the end: a stale copy
\* a concurrent poll or an old Save left in Redis expires and does not return.
Served(j) == IF cached[j] # "none" THEN cached[j] ELSE status[j]
VerdictIsServed ==
  \A j \in Requests :
    status[j] \in Terminal ~> [](Served(j) \in Terminal \cup {"absent", "reaped"})

\* A server that refuses for lack of slots has room again.
CapacityReturns == slots = MaxConcurrent ~> slots < MaxConcurrent

-----------------------------------------------------------------------------
(* What the comments of the code say and the code does not do. *)

\* jobs.go:179, "a second SubmitGenerate with the same key inside the window
\* returns the same jobID instead of starting a new job": no job is created
\* under a key that is bound.
OneJobPerBoundKey ==
  [][\A r \in Requests :
       status[r] = "absent" /\ status'[r] = "pending" /\ KeyOf[r] # NoKey
         => idem[KeyOf[r]] = NoJob]_vars
=============================================================================
