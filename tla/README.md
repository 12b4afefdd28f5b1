# mootd: specifications in TLA+

A verification project for the mootd backend (Go) and mobile client (React
Native): TLA+ modules translated from the source, TLC configurations that check
them on small instances, and proofs, checked by TLAPS, of the properties that
matter most for every instance. Paths are relative to the repository;
`PROJECT.json` maps every definition to the lines it translates.

## 1. The system

The API is one Go process (`backend/cmd/api`, wired in `internal/app/app.go`)
over Mongo (durable documents, GridFS blobs) and Redis (caches, counters,
short-lived jobs). It calls LLM providers and a detection service. The mobile
app talks to it over HTTPS and keeps its own state in zustand stores and
AsyncStorage. Concurrency comes from one goroutine per request, background
workers (outfit generation, detection, PNG retry, eval runs, sweepers), several
devices of one user, and, on the client, callbacks between awaits.

| Component | State | Operations | What is hard | What makes it correct | Module |
|---|---|---|---|---|---|
| Outfit jobs (`outfit/handler.go`, `jobs.go`) | row in Mongo, copy and idempotency key in Redis, semaphore, goroutines | submit, replay, worker, poll, sweep, boot recovery, TTL | Mongo and Redis written one after the other, swallowed errors, crash, expired context, stale repopulation | a row only moves forward, verdicts stick, slots do not leak, live jobs are spared, polls show the verdict in the end | `OutfitJobs`, `JobLifecycle` |
| Budget gate (`budget/`, `app/budget_adapters.go`) | daily counter, suspend flag, cap | check, reserve, refund, suspend, record, release | concurrent reservations, midnight, fail-open errors, crash | reservations net out, faults only over-count, overspend is bounded | `Budget` |
| Event pipeline (`app/src/lib/events`, `internal/events`) | queue in memory and on disk, flush flag, token, documents | start, stop, emit, flush, setAuthToken, ingest | snapshot across an await, restart, lost answers, depth cap | at least once, exactly once when healthy, drains | `EventQueue` |
| Generation (`outfit/service.go`, `cascade.go`, caches) | result cache, failure counts of providers, ledger, event stream | generate, route, fail over, record, degrade, cache, heartbeat | failover keeps only the last usage, order of stream events, callers that leave | the provider that answered is booked; `done`/`error` is last | `Generation` |
| Batches of outfits (`outfit/service.go`, `fallback.go`, `critic.go`) | wardrobe, rejections, cached batches | read pool, validate, pad, criticise, cache, serve | what a day-old entry still names; padding; a second, criticised attempt | every outfit shown can be worn: required roles, no repeats, items that exist; what is cached was made by the model | `OutfitBatches` |
| Detection jobs (`wardrobe/handler.go`, `jobs.go`, `app/src/store/detectionJobStore.ts`) | Redis-only job, semaphore, the app's card | submit, run, poll, fall back, dismiss | no sweeper, expiring job, terminal save on an expired context, lost answers | waiting ends, verdicts are true, slots return, a photo is paid for once | `DetectJobs` |
| Wardrobe items and their PNG (`wardrobe/pngworker.go`, `handler.go`) | document, blobs by item id, attempts | detect, retry pass, update, delete | overlapping passes, an update or a deletion during a pass, crash | the PNG shown belongs to the image shown, deleted is deleted, retries end | `WardrobeItems` |
| Archetype claims (`wardrobe/archetype_endpoints.go`) | items, rejections | claim, reject, delete | find-then-insert, four calls without a transaction | one item per claim, no rejection of what is owned | `FillerClaims` |
| Session (`auth/`, `data/api/client.ts`, `store/authStore.ts`) | token hash, token in memory and in secure storage, refresh promise | sign-in, refresh, restore, sign-out | refresh racing sign-out, storage key by key, kills, lost answers | signed out stays signed out, the two sides agree on the token | `Sessions` |
| Admin console (`admin/handler.go`, `mfa_handlers.go`, `permissions.go`) | account, refresh tokens, recovery codes, TOTP step | sign-in, refresh, enrol, every route's permission | read-modify-write, tokens nothing revokes | factors are used once; what is accepted was warranted lately | `AdminConsole` |
| Prompt templates and routing (`admin/prompt_templates.go`, `routing.go`) | production flag, 60 s caches | create, promote, read, invalidate | snapshot-isolated or no transactions, refill racing a change | one production version, no stale refill | `AdminCaches` |
| Eval runs (`admin/evals.go`) | run document, totals under a mutex | start, case, progress, finalize | snapshots written out of order, panics, crash | a completed run adds up | `EvalRuns` |
| Erasure and moodboards (`privacy/`, `moodboard/`) | every per-user collection, images | save a board, purge | writers during a purge, partial failure and retry | what a finished purge found is gone for good | `Erasure` |
| Paginated listings (`shared/pagination`, repositories) | rows, cursor | page | cursors that do not pin a place, orders that change with time | every row once | `Listings` |
| Ledger and pricing, provider adapters, feedback, user, brands, surfaces, health, predictor, archetype scoring, reports, training tools, wiring, screens | documents | CRUD, queries, formatting | little interaction | | not modelled (section 6) |

How they interact: `SubmitGenerate` takes a slot, stores a job and starts a
worker; the worker runs `Service.GenerateOutfits`, which asks the budget gate,
calls the cascade of providers and lets the recorder book the cost on the
counter the gate reads; the client polls the job, which reads Redis and then
Mongo. Detections book on the same counter without asking the gate. The client
shell starts the event queue, forwards the token of the session store to it, and
sign-out emits and flushes before it clears the token. A detection stores the
wardrobe items that generations, moodboards and listings read. Admins change the
templates and the routing a generation uses, and the cap its gate reads. A purge
runs beside all of them, because routes check the access token only.

## 2. Modules

### JobLifecycle and OutfitJobs

`JobLifecycle` is what the asynchronous API promises about its durable rows:
`absent -> pending -> processing -> completed | failed -> reaped`, never
backwards, verdicts never change, and an id handed out in a 202 names a stored
row. `OutfitJobs` is the service:

- the handler of a request is `pc[r]`: `Replay`, `LookupMisses`, `TakeSlot`,
  `ServerBusy`, `SavePending`, `BindAndLaunch` are the stretches of
  `SubmitGenerate` between its store calls; `StreamOpens`/`StreamCloses` are the
  SSE path, which holds a slot for its whole generation;
- the worker of a job is `worker[j]` with the age of its context `wage[j]`
  (`WorkerStarts`, `WorkerCompletes`, `WorkerFails`, `WorkerPanics`); every save
  of a worker past its deadline is rejected, and the error swallowed, as in the
  code;
- `Save` writes Mongo and then Redis, with four outcomes: both, Redis failed,
  Mongo applied but not acknowledged, nothing;
- a poll is two steps, the read of Mongo and the write to Redis, because
  anything may happen in between;
- `SweepStale` (per document, as `UpdateMany` is not atomic over documents),
  `Boot`, `Reap` (the TTL index), `Crash`, `RedisFlush`, and `Tick`, which ages
  everything and expires Redis keys.

`Save` as one step joins the Mongo and the Redis write of one call. A poll that
answers between them reads a copy that lags, which is a state the model has
anyway (`"uncached"`); what this leaves out is two saves of one job
interleaving, and a job has one writer at a time.

### Budget

One user's calls against the Redis counters of several days. Each Redis command
is one step (`CheckSuspended`, `ReadCap`, `Reserve`, `RefundDenied`,
`SuspendUser`, `Record`, `Release`), so commands of concurrent calls interleave,
midnight (`NewDay`) falls anywhere, an admin changes the cap (`SetCap`), and a
command may fail before or after it was applied (`Fault`, counted). The module
shows the gate as the generation sees it, through `outfitBudgetEnforcerAdapter`:
every error lets the call through with nothing reserved. Amounts are small
integers instead of `float64` dollars; the properties only add and compare.
`took`, `gave`, `booked` and `ungated` are history variables.

### EventQueue

The client queue and the ingest handler. A step is a callback or the code
between two awaits. AsyncStorage runs its calls in the order they were made
(`calls`): `Get` is the read of `start()`, `Set` a `persistQueue`. `BeginFlush`
takes `batch` and `rest` before the POST; `FlushDelivered`, `FlushTooLarge`
and `FlushKeeps` are what follows the await. `Ingest` may store all, some (an
unordered insert that failed or timed out) or none of a batch. `Kill` loses
memory and the calls not yet run. Events refused by `scrubPII`, or by
`validateEvent` on the server (which the client counts as delivered), never
matter to the queue and are left out. A response of 401 and of 5xx are one
case, because the code treats them alike.

### DetectJobs

`app[p]` is the coroutine `startJob` of a photo in the app and the card it shows;
`srv[p]` its POST, the job in Redis, the worker and the synchronous request.
The handler takes a slot, saves, launches (`TakeDetectSlot`, `SaveDetect`,
`LaunchDetect`); the worker detects, stores items and saves its verdict with a
context that may have expired. The app submits, polls, gives up after its own
deadline (`GiveUp`) and, when a submission fails, falls back to the synchronous
endpoint. `DetectCrash` loses workers and semaphore but not Redis; the job
expires by its TTL; a Redis command or an answer may be lost; the app may be
suspended while ticks pass (`asleep`).

### WardrobeItems

One item. `det` is the detection that makes it; `pass[p]` a run of
`retryMissingPNGs`, started by the boot-time worker, by the detection or by an
update; `upd[u]` and `making[u]` are `updateItem` and the goroutine it starts.
Each step is one call to Mongo, GridFS or the removal service. A pass works on
the item as it listed it: what it publishes may be of an image that was
replaced (`raced`).

### Sessions

The app's store and interceptor against the one `refreshTokenHash` of a user.
Tokens are numbered in the order they are minted. `rf` is the refresh under way
(shared by all requests that met a 401, or made by `restoreSession`), `si` the
sign-in, `lo` a logout on its way, `disk` the three keys of the secure storage,
written and cleared one at a time. Answers are lost, the app is killed and
relaunched, another device signs in.

### FillerClaims

A claim is `Lookup`, `Copy`, `CountSeeded`, `Reload`, `Unreject`: the calls of
`FromArchetypeDefault` and `SeedForUser`. Rejections and deletions come in
between; every call may fail, applied or not.

### Generation and OutfitBatches

Two views of `generateOutfitsImpl`. `Generation` has who is called, paid and
cached when: cache lookup, gate, routed provider, both loops of the cascade with
cooldowns, ledger, fallback, cache write, and for a stream the heartbeat
goroutine and the events on the wire. `OutfitBatches` has the outfits: the pool
is the wardrobe and the unrejected fillers, whatever a generator proposes is
cleaned, padded from the fallback, criticised, made again and cached. Its
proposals include an id that names nothing, an outfit told twice, a repeated
item and a missing role. The loops of the code that keep some elements of a slice
are one operator, `Taken`: the elements at some positions, in order. The label `canned` of
an outfit is a history variable: it says that the fallback made it, which the code does
not keep. A batch is cached unless it is `degraded`, which the code decides from whether
the generator failed or padding made the batch longer; the critic may have it made
again in between.

### AdminCaches

Versions of one template (or the routing document) and the in-process cache with
its lock. MongoDB's transactions are snapshot isolated, and the module says no more of them
(`Noted`): `BeginsTx` takes what is in production, `CommitsTx` demotes just that and
promotes the version, and cannot once another promotion has written one of those
documents; then the driver begins again or the request gives up. `CountsVersion`, `Demotes`
and `PromotesAlone` are the writes without a transaction, used at any time instead. A refill holds the lock over its read
(`Misses`, `Locks`, `Fetches`, `Stores`), `Invalidates` waits for it.

### EvalRuns

One run: `StartsRun`, `MarksProcessing`, the workers of its cases under a
semaphore (`TakesCase` to `ReportsProgress`), `Finalizes`. A snapshot of the
totals is taken under the mutex and written after it. A case may panic, a write
may fail, the hard timeout or a crash may come.

### Erasure

`POST /v1/moodboards` (`Renders`, `ClearsDay`, `InsertsBoard`) beside purges that
list images, delete each, delete rows collection by collection and the user last.
A purge that failed may be tried again; several may run.

### Listings

Every listing is a sort key and a kind of cursor; the module enumerates those of
the API (13 of them) and walks each, page by page, while rows are inserted,
updated and deleted. The i-th row of a sorted listing is the one with i - 1 rows before
it. The users sorted by uploads, outfits or spend are sorted anew for every page, by what
they did in the `Window` that ends now (`Recent`), or, if the aggregation failed, by 0
(`AsRead`). What a user did is not taken back in the model. `steady`, `home` and `placed` are
history: the rows that stayed, where an offset listing first had them, and the rows
whose place the cursor could tell.

### AdminConsole

One admin's account and its browsers. `con[c]` is a request under way, which
reads, decides and writes later: sign-in with a TOTP or a recovery code, refresh,
enrolment. `Operations` are the routes with the permissions their middleware
and handlers ask for; `Accepted` is what an access token is good for now. The
operator may disable the account, take its roles or run the lost-device
procedure, in the database and once.

### MC modules

`MCOutfitJobs`, `MCBudget`, `MCEventQueue` supply model values, key assignments
and symmetry. `MCBackground` (`DetectJobs`, `WardrobeItems`, `Sessions`) and
`MCRecords` (the other eight) check several components in one run: a variable
`part`, chosen at the start, names the component a behaviour is about, and the
others stand still. The components share no state, so this is the disjoint
union of their state spaces; a temporal property is about the behaviours of its
part.

## 3. Runs

| Run | Question | Result |
|---|---|---|
| `jobs_safety` | type, slots, falsely failed jobs, cache against Mongo, refinement of `JobLifecycle` | holds |
| `jobs_liveness` | processing jobs resolve, verdicts are served, capacity returns | holds |
| `jobs_idempotency` | one job per bound key (`jobs.go:180`) | violated |
| `budget_safety` | reservations net out, faults fail safe, overspend bounded | holds |
| `budget_breach` | a 200% breach is denied (`budget.go:234`) | violated |
| `budget_midnight` | counters are not below the booked cost | violated |
| `events_safety` | at least once, once when healthy, draining | holds |
| `events_inflight` | events emitted during a POST stay queued (`index.ts:197`) | violated |
| `events_restore` | persisted events survive a restart (`index.ts:15`) | violated |
| `background` | detections, items and sessions: slots, payment, verdicts, PNGs, attempts, deletions, tokens, and that waiting ends | holds |
| `records` | the components of the server that keep records: claims, generations, caches, eval runs, erasures, listings, batches, console | holds |
| `erasure_budget` | a purge leaves nothing (`privacy/service.go:81`) | violated |

The properties, in words, stand above their definitions. Every property of a
passing run has a mutant in `PROJECT.json`: a plausible bug in one mapped
definition under which the run finds the property violated.

### Bounds and why they are enough

- Jobs: two requests with the same key, one stream, one poll and capacity 2 give
  every pairing of two writers, a reader and a third owner of a slot; more
  requests only add independent jobs, since requests share nothing but the
  semaphore, the key and the store. Times are ticks: worker deadline 1, stale
  cutoff 2, Redis TTL 2, key TTL 1, TTL index 3, ages stop at 3. Only the order
  of the thresholds matters, and deadline < cutoff < TTL index is the order of
  2 min < 10 min < 24 h. `MaxCrashes = 1` is a crash with a restart at any
  point. The liveness run uses a horizon shorter than the TTL index
  (`MaxAge < ReapAfter`), because a reaped row satisfies the properties
  trivially, and different keys, capacity 1 and a cutoff equal to the deadline.
- Budget: two concurrent generations and a detection, an estimate of 2 against a
  cap of 3 or none, costs below and above the estimate, two days and two faults:
  one reservation fits and two do not, an expensive call and a detection reach
  200%, a call may cross midnight while another reserves on either side, and the
  faults strike any two commands or a command and a process death. The violation
  runs are smaller still: one fault and one day, or two days and no fault.
- Events: three events, a queue of two and batches of one make the cap, the batch
  limit and a second batch happen; one restart (`MaxRestarts`: a `stop()` or a
  kill) and two faults cover a resend that fails and a storage call that fails
  after it.

- `background`: two photos and capacity 1 fill the server, so a submission is
  refused; with faults one photo suffices, as photos meet in the semaphore only.
  Worker deadline 1 < poll deadline 2 < job TTL 3 is the order of 3 min < 4 min
  < 10 min. One update and its passes, the worker's passes and a detection give
  three passes that overlap; two attempts tell "counted" from "exceeded". Two
  requests share a refresh; three tokens are a sign-in, a refresh and one more
  of either. One fault of any kind in each behaviour.
- `records`: two of each actor that can overlap (claims, rejections, a plain and a
  streaming request, admins, cache readers, saves and purges of one day, browsers) and
  one fault each. Two providers, the first one also routed, one failure to a cooldown
  and a past of the first one give every pair of answers of a failover; three versions make
  two promotions overlap over a third; three cases on two workers let a snapshot
  overtake another. Three rows with pages of one are a first, a middle and a
  last page; two times with three rows are a tie, and with a window of one tick among
  three a count falls between two pages. Four items, two fillers (one
  visible at a time), two rankings and five proposals give every rejection of
  the validator, and two requests let the second be served from the first one's
  entry. A refresh token lives two ticks, an access token one: a session outlives its
  access token. One recovery code suffices for an answer that is given twice; the
  proof is for any number of them.

Deadlock checking is off where the system may rightly stop: all calls done and
all days over (Budget), all events delivered or lost and no restart left
(EventQueue), all photos detected, requests answered and purges over, and the
clock stopped (`background`, `records`, `erasure_budget`). The job runs check it.

### Fairness and why the code justifies it

- `OutfitJobs`: handlers run on once begun (every store call has a timeout); a
  worker returns because its context expires; the sweeper is a ticker started in
  `app.go`; the process is restarted by its supervisor; time passes; streams
  end by their 2-minute context. Nothing is assumed of clients, of Redis or of
  the TTL index. `WF(Work(r))` does not say that a save succeeds: outcomes are
  chosen nondeterministically, and liveness rests on the sweeper.
- `EventQueue`: the flush timer fires, the network and storage answer (fetch
  fails in the end), callbacks run. Nothing is assumed of sign-in or restarts;
  `QueueDrains` speaks of clients that stay started and signed in. The number
  of faults is bounded, which stands for a network that works in the end.
- `DetectJobs`: requests are answered or fail (both sides have timeouts), detector
  calls end by their context, timers fire. Nothing is assumed of polls beyond the
  timer that starts them, of the user or of Redis.
- `WardrobeItems`: goroutines run on, calls return, the 30 s ticker ticks. Updates
  and deletions may never come.
- `Sessions`: a refresh is answered or fails (the client aborts it by a timeout)
  and secure storage answers.
- `records` states no fairness and checks safety only: its components end by the
  timeouts of their requests, and an eval run need not end at all (section 5).

## 4. Proofs

The `*Proofs` modules prove, for all values of the constants that satisfy the
named assumptions of the module they are about (TLC evaluates these in every
run), the type correctness of every component and the following.

`OutfitJobsProofs` and `BudgetProofs`:

- `SemaphoreCorrect`: the semaphore is the number of owners. Inductive with the
  type invariant; each action either leaves the owners alone, adds one or
  removes one, and three lemmas turn that into cardinalities;
- `LiveJobsAreSpared`, `CacheCorrect`, `ServiceImplementsLifecycle`. None of them is
  inductive alone: that a sweeper spares a live worker needs that the row of a
  generating worker is no older than the worker's context, which needs how far
  the handler came (`Progress`); that ids name rows needs that idempotency keys
  and answers do (`IdsNameRows`); that a copy lags needs that polls under way lag.
  `IInv` in `OutfitJobs` is their conjunction; it was checked by TLC first.
  `LiveJobsAreSpared` uses `WorkerTimeout <= StaleAfter` and nothing else of the
  times. The refinement shows that every step moves each row along an edge of
  the lifecycle or leaves it, and that answers name stored rows;
- `ReservationsNetOut`, `CountersFailSafe`, `GateBoundsSpend`. `IInv` in `Budget`:
  a call owes its estimate only between taking and giving it (`Owes`), every
  counter is the booked cost plus the estimates taken less those given
  (`Ledger`), and what is booked with the estimates of the admitted calls that
  have not booked yet fits under the largest cap (`Exposure`). The first two
  theorems follow by comparing the sets of calls that took and gave.

`EventQueueProofs`: `QueuesStayWellFormed`, `KeptAlways`, `OnceAlways`, over lemmas that
say of the code's slices what they keep, lose and leave in order (`Cut`, `Capped`,
`NewestStays`, `Emitted`). The types need that AsyncStorage has at most one awaited
`setItem`, and only while `flush()` waits for it (`OneAwaited`). That nothing is
lost needs what a delivery may throw away: while a POST is awaited the queue holds
the batch, the rest and what was emitted meanwhile (`KeptInv`), and a delivered
batch is stored (`DeliveredInv`). That nothing is stored twice needs that the queue,
the batch being sent and the rest hold nothing stored, but for the batch just
delivered, and that batch and rest share nothing (`OnceInv`). Both need that all
events are early while the restore is due (`EarlyInv`).

`RecordsProofs`, for the claims: `ClaimsKeepAgreeing`. That there is one copy is not
inductive: as long as nothing overlapped, at most one claim is copying or about to, and
while one is about to there is no copy (`CopyingAlone`). That a claim that succeeded
leaves no older rejection is inductive as it stands: `Unreject` is the last call of a
claim.

For the listings: `WalksAreExact`, row by row, for any rows, page size, caps, window and
number of changes and all thirteen listings, whether counts can be read or not. A page is cut from the rows sorted by the order of the listing, so
the first lemmas are about `Sorted`: in a finite set ordered totally, the ranks (how many
rows come before one) are the numbers from 0 on, each the rank of one row (`Ranking`,
which takes a least subset by inclusion instead of an induction). The
invariant `ListInv` adds to types and property that nothing is dated after now and the steady
rows are there (`Dated`), that a walk without a cursor has shown nothing (`UnderWay`), and,
of the rows whose place the cursor can tell (`placed`), what is shown and what is still to
come. By a cursor (`Reached`) a steady row was shown or lies after it, and nothing shown
lies after a cursor that is compound or an id; by an offset (`Homed`) a row was shown
where it stood at first or stands on a page to come. Each kind of cursor tells places for a
reason of its own: a compound one pins that of any row, an id alone that of a row whose
creation and id agree in order with every other's, a time that of a session sharing none,
an offset that of a row every page found where the first order had it.

For the batches: `BatchesAreWearable`, for any wardrobe, fillers, rankings and proposals.
The lemmas are about `Taken`, the elements of a sequence at some positions (what it holds,
that it repeats no position), and go on to what `Validated` returns (wearable outfits of
the pool, no two alike), what the fallback offers from a wardrobe that can be dressed from
(a look that `Validated` accepts), and that padding keeps both. The invariant `BatchInv`
says of the batch a request holds and of every cached one that it could be shown
(`ShownWell`) to any request with the wardrobe its key names. `CacheIsByModel`: a batch on its
way that is not degraded has nothing canned, through building and criticising.

`AdminProofs`, for the caches: `ProductionIsOne` and `CacheStaysCurrent`. The first
(`OneIsOpen`) says, until one is put in production while a promotion is open that saw none,
what each promotion knows (`KnowsAmong`): an open transaction that has not lost
has in its snapshot just what is in production, so that of two that saw it the
second must lose; nothing is in production while a promotion without a transaction is
between its writes. And in every case (`KnowsAlone`) what one that met no other knows of
the flags is still so, which is why the next undisturbed promotion mends what two left
behind. The second needs that only the holder of
the lock fetches, and that what it fetched is in force once every change has been
answered (`FetchIsCurrent`): an invalidation waits for the lock, so it comes after
the store of a refill that read too early.

For the console: `WarrantedAlways`. Roles travel from the account into a request,
from there into an access token, and nothing takes them back, so the invariant
(`ConsoleInv`, theorem `ConsoleInvariant`) dates them: a request is a tick old at
most, the roles in its decision were the account's when it began or since
(`Had`), and so were those in a token one tick before it was made. A token is
accepted for less than `AccessTTL`, which bounds how long ago that was. The same
dating carries the second factor; refreshing drops it. `FactorsAreSpentOnce`
(`FactorsInv`): while requests do not overlap and no call fails, a code that was answered
is not in the account and a refresh token that was answered is not valid, and what a
request under way uses is not spent yet; the numbers that requests give to what they
issue are fresh. The proof showed that the codes of an account
that is not enrolled may be those of an older secret, as the operator may disable MFA
while a sign-in runs; the property speaks of enrolled accounts.

For the eval runs: `CompletedAlwaysAddsUp` (`EvalInv`): until the goroutine of a run
is lost, the totals count the cases whose worker has added its result, a case without a
result that ended is charged to a fault, and each row shows what its worker has written
(`AddsUp`); when the goroutine is gone all workers have ended, and in a completed run the
document holds the totals (`Over`), so no snapshot comes after `Finalizes`.

`ErasureProofs`: `ErasureIsFinal`. What was settled when a purge began has no writer
left (`SettledStays`), so what a stage of the purge deleted does not come back
(`DeletedStaysDeleted`). For the images: a save under way beside a purge is known
(`OverlapsAreRaced`), and without faults an image belongs to a board, to the list a
purge is deleting, or is one the property excepts (`ImagesAreKnown`).

`GenerationProofs`: `NothingAfterDone`
(`StreamInv`): while a heartbeat waits or writes, the last event of its stream is progress,
because `Ends` joins it first. `ServedAlwaysBooked` (`LedgerInv`) follows, from the
first call to the ledger, which providers billed a request and which one its usage
names.

`BackgroundProofs`, for the items: `DeletionIsFinal` needs that a detection which has yet
to save its item finds it new (`UnsavedIsNew`), as it is the only writer that inserts. For
`AttemptsAreBounded` each step is shown to leave the attempts and add no holder
(`LetsGo`), to keep the attempts below the limit (`Below`), or to count one failure of
one holder, which lets go (`Fails`). `PngAlwaysFits` (`PngInv`): until an image was
replaced during a pass, every PNG that is stored or about to be is of the image stored, for
each of the writers (`PngsFit`, `ShownFits`).

For the detections: `DetectSlotsNeverLeak`, `PhotoPaidOnce` and `VerdictAlwaysTrue` from one
invariant, `DetectInv`. It ties the three state machines of a photo together: what the app
waits for, what the server and its worker are at and what they have done
(`Protocol`), what holds while nothing failed (`Faultless`), and the ages of context,
poll and job, which keep the order of the deadlines. Steps of one photo leave the
others alone, so most of the proof is about one photo.

For the session: `SignOutIsFinal` (`OutInv`) and `TokensAlwaysAgree` (`AgreeInv`). Both
follow a token through its places: the answer under way, the memory of the app, the
three keys of the secure storage, the hash of the server. `OutInv` says in which of them
nothing is left after a sign-out that crossed nothing, key by key as they are
cleared; `AgreeInv` which token each of them holds at each point of a refresh or sign-in.

The compositions: `EachAsAlone` and `RecordsAsAlone` show that a behaviour of `MCBackground`
or `MCRecords` is, for each component, one of the component alone (a step or a stutter), so
the theorems about the components hold of what the runs check;
`BackgroundTypesCorrect` and `RecordsTypesCorrect` follow.

So every invariant and action property of a passing run is a theorem. Only model-checked
are the six liveness properties, `ProcessingResolves`, `VerdictIsServed`,
`CapacityReturns`, `QueueDrains`, `WaitingEnds` and `ItemRetriesEnd`: they rest on fairness, hence
on ENABLED, which TLAPS does not reason about. The violated properties are about
concrete behaviours and have no theorem.

## 5. Findings

`PROJECT.json` quotes the lines. In short: overlapping submissions defeat the
idempotency key; a failed suspend write turns a denial into an allow; midnight
moves a reservation between counters and makes the new day's counter too low;
events emitted during a POST are dropped on success; the restore of the event
queue overwrites the queue in memory; a purge deletes `user_budgets` by `_id`
while the rows carry `userId`, and leaves the row behind.

Noticed while modelling, without a run of their own. Where a property has a
condition for one of them, it is named.

- Outfits: a pending row left by a crash is not recovered (`jobs.go:44` says it is
  handled; only the TTL index removes it). The streaming path ignores the
  idempotency key, and a stream that fails in any way makes the app ask again on
  the plain path, a second paid generation. A failover returns the usage of the
  last failed provider only (`cascade.go:78-82`), the critic's usage is dropped, a
  timeout of one provider ends the cascade, a client that leaves counts as a
  provider failure, and the routed provider is outside the health tracker. A
  filler rejected after a batch was cached is served for up to a day (excluded in
  `BatchIsWearable`). The temperature bucket of the cache key truncates toward zero
  (`service.go:1226`).
- Events: the server calls retries idempotent on `_id` (`events/handler.go:131`) but
  mints a new `_id` per request.
- Wardrobe: the synchronous fallback after a 503 bypasses the detection semaphore
  (`handler.go:44`). A kill after the PNG was stored and before it was published
  strands it (`pngworker.go:42`). Images of deleted items and replaced
  moodboards stay in GridFS. The index `EnsureWardrobeIndexes` names `uniq` is not unique, so
  overlapping claims copy a default twice (`overlapped`). Overlapping saves leave
  two boards of a day, and the style profile is read and written back.
- Session: an answer to a refresh or a sign-in that arrives after sign-out restores
  the session, a lost answer to a refresh signs the user out, a kill in the middle
  of a sign-out leaves it half done, and a logout with a rotated token does nothing
  (`crossed`, `sessFaults`).
- Console: TOTP sign-in of an account that never used one is always refused,
  because `mfaLastTotpStep` is absent (`domain.go:61`, `omitempty`) and
  `$lt` matches no missing field (`repository.go:215-222`); recovery codes work.
  Overlapping requests spend a recovery code or a refresh token twice (`crossed`
  in `FactorsSpentOnce`), and the codes of an account whose MFA is disabled during a
  sign-in come back (`Enrolled`). The comment of the MFA rate limit in `routes.go` names
  routes that are not wrapped; denied requests leave no `rbac.denied` row; some writes
  are not audited (the archetype default, `funnels_handlers.go:140`) and others
  although the upstream refused them; a curator may write prompts but neither start
  an eval run nor create a funnel, as both routes ask for `traces:read`.
- Templates and evals: two promotions that overlap while nothing is in production (after a
  failed one, or each between the two writes made without a transaction) leave two
  production versions, also when both are transactions: snapshot isolation lets both
  commit, as they write different documents, although `prompt_templates.go:176` calls
  the promotion atomic. `tangled` excepts this from "at most one"; the next promotion that
  overlaps no other mends it, which `OneProduction` checks. The A/B cache takes a template it has not
  looked up for one without a test while it holds another one's entry
  (`prompt_ab_tests.go:196` says a missing key means "we haven't checked"). A
  run whose process died stays `processing`, and a case that panicked stays pending in a run
  that completes.
- Listings: cursors that are an id alone (audit log, eval runs, an admin's view of a
  user's wardrobe, moodboards and batches, although `users.go:726-728` speaks of "stable
  pagination") skip or repeat rows whose ids and times disagree, and the session listing
  repeats sessions (`sessions.go:131`). The users sorted by uploads, outfits or
  spend are paged by offset over an order computed anew for each page: it changes
  with no row written, as the seven days slide (`users.go:424`), and when an
  aggregation fails and its column reads 0 (`users.go:430-434`), so users are skipped
  or shown twice. `placed` in `WalkIsExact` says of which rows each listing is exact.
- What properties except, gathered: `raced` (`PngIsOfImage`, `ErasedIsGone`), `replaced`
  (`ErasedIsGone`), `overlapped` (`ClaimsAgree`), `crossed` (`TokensAgree`,
  `FactorsSpentOnce`), `tangled` (`OneProduction`), `placed` (`WalkIsExact`). Each names an
  overlap the code does not prevent and under which the model shows the damage; what
  is checked is that nothing else does it. `FailsSafe` does not count an increment that
  was lost as booked, and `PaidOnce` speaks of runs without faults.

## 6. Not modelled

- The synchronous `GET /v1/outfits` as a job, prompts, images, palettes, weather
  buckets, scoring: they compute without state another actor sees.
- Provider adapters and price tables: I/O and formatting. What a call may answer is
  in `Generation`, what it costs in `Budget`.
- Floating-point amounts, text, image data: small integers and model values stand
  for them; rounding is out of reach.
- Moodboard rendering and the style profile, feedback, profiles, brands, surfaces,
  health, the predictor: single-document reads and writes.
- A/B tests, training trials and exports, human review, reports, retention and
  funnels: aggregations, single-document edits and proxies. The first-review race of
  training trials and the listings among them (`Listings`) are what interacts.
- Rate limits, the retry loop, the endpoint pool: counters that nothing else reads.
- Several server processes: the caches and semaphores are those of one process, which
  is what `cmd/api` runs.
- Web storage: the session of the web build is synchronous and has no steps between.
- Screens, generated types and API contracts: no state of their own or no logic.

A large part of the implementation lines are of these kinds (generated types,
handlers that format aggregations, wiring), which is why the mapped share of the
lines is small although every component with concurrency, failure or ordering to
get right has a module.
