----------------------------- MODULE DetectJobs -----------------------------
(***************************************************************************)
(* Clothing detection: the job store of the app                            *)
(* (app/src/store/detectionJobStore.ts) against the asynchronous and the   *)
(* synchronous endpoint of backend/internal/wardrobe.                      *)
(*                                                                         *)
(* The job of a photo lives in Redis alone: no database row, no sweeper.   *)
(* Steps of the app are the code between two awaits; a request and its     *)
(* answer may be lost, and the app may be suspended while time passes.     *)
(***************************************************************************)
EXTENDS Integers, FiniteSets

CONSTANTS
  Photos,         \* photos the user submits; one startJob each
  MaxConcurrent,  \* capacity of detectSem
  JobTimeout,     \* deadline of the worker's context, in ticks
  PollDeadline,   \* how long the app polls
  JobTTL,         \* life of a job in Redis
  MaxDetectFaults \* bound: failed Redis commands, lost answers, crashes

ASSUME DetectAssumption ==
  /\ IsFiniteSet(Photos) /\ MaxConcurrent \in Nat \ {0} /\ MaxDetectFaults \in Nat
  /\ JobTimeout \in Nat /\ PollDeadline \in Nat /\ JobTTL \in Nat
  /\ 0 < JobTimeout /\ JobTimeout < PollDeadline /\ PollDeadline < JobTTL

VARIABLES
  app,        \* app[p]: startJob's coroutine and the DetectionJob it shows
  srv,        \* srv[p]: the POST, the job in Redis, the worker, the sync request
  detSlots,   \* tokens in detectSem
  ran,        \* history: detector calls, stored item batches, a detection that
              \*   failed or outlived its context
  detFaults, asleep  \* history: faults so far; a live client let a tick pass

detectVars == <<app, srv, detSlots, ran, detFaults, asleep>>

Workers    == {"starting", "detecting", "storing", "ending"}
Holders    == {p \in Photos : srv[p].post = "slot" \/ srv[p].work \in Workers}
CtxLive(p) == srv[p].age < JobTimeout
Fault      == detFaults < MaxDetectFaults /\ detFaults' = detFaults + 1
NoFault    == UNCHANGED detFaults

DetectTypeOK ==
  /\ app \in [Photos ->
       [loop : {"idle", "submitting", "polling", "sync", "done"}, waited : 0 .. PollDeadline,
        shown : {"none", "detecting", "completed", "failed", "gone"}, fresh : BOOLEAN]]
  /\ srv \in [Photos ->
       [post : {"none", "arrived", "slot", "accepted", "refused"},
        row : {"none", "pending", "processing", "completed", "failed"}, ttl : 0 .. JobTTL,
        work : {"none", "done"} \cup Workers, age : 0 .. JobTimeout,
        sync : {"none", "detecting", "ok", "error"}]]
  /\ detSlots \in 0 .. MaxConcurrent
  /\ ran \in [Photos -> [paid : 0 .. 2, stored : BOOLEAN, bad : BOOLEAN]]
  /\ detFaults \in 0 .. MaxDetectFaults /\ asleep \in BOOLEAN

DetectInit ==
  /\ app = [p \in Photos |-> [loop |-> "idle", waited |-> 0, shown |-> "none", fresh |-> TRUE]]
  /\ srv = [p \in Photos |-> [post |-> "none", row |-> "none", ttl |-> 0, work |-> "none",
                              age |-> 0, sync |-> "none"]]
  /\ detSlots = 0
  /\ ran = [p \in Photos |-> [paid |-> 0, stored |-> FALSE, bad |-> FALSE]]
  /\ detFaults = 0 /\ asleep = FALSE

-----------------------------------------------------------------------------
(* The server: POST /v1/wardrobe/detect-jobs. *)

\* DetectJobStore.Save: a SET with a fresh expiry.
WithRow(s, row) == [s EXCEPT !.row = row, !.ttl = JobTTL]

\* Mutant: the semaphore is not consulted.
TakeDetectSlotAlways(p) ==
  /\ srv[p].post = "arrived"
  /\ srv' = [srv EXCEPT ![p].post = "slot"] /\ detSlots' = detSlots + 1
  /\ NoFault /\ UNCHANGED <<app, ran, asleep>>

TakeDetectSlot(p) ==
  /\ srv[p].post = "arrived" /\ detSlots < MaxConcurrent
  /\ srv' = [srv EXCEPT ![p].post = "slot"] /\ detSlots' = detSlots + 1
  /\ NoFault /\ UNCHANGED <<app, ran, asleep>>

\* Mutant: a busy server queues the job although it answers 503.
BusyButQueued(p) ==
  /\ srv[p].post = "arrived" /\ detSlots = MaxConcurrent
  /\ srv' = [srv EXCEPT ![p].post = "refused", ![p].work = "starting"]
  /\ NoFault /\ UNCHANGED <<app, detSlots, ran, asleep>>

DetectBusy(p) ==
  /\ srv[p].post = "arrived" /\ detSlots = MaxConcurrent
  /\ srv' = [srv EXCEPT ![p].post = "refused"]
  /\ NoFault /\ UNCHANGED <<app, detSlots, ran, asleep>>

\* The job is saved and the goroutine launched, which takes the slot over; 202.
Launched(s) == WithRow([s EXCEPT !.post = "accepted", !.work = "starting"], "pending")

\* Mutant: the slot is not returned when the job cannot be saved.
SaveDetectLeaks(p) ==
  /\ srv[p].post = "slot"
  /\ \/ srv' = [srv EXCEPT ![p] = Launched(@)] /\ NoFault
     \/ srv' = [srv EXCEPT ![p].post = "refused"] /\ Fault
  /\ UNCHANGED <<app, detSlots, ran, asleep>>

\* A Save that fails may still have reached Redis; the deferred guard releases.
LaunchDetect(p) ==
  /\ srv[p].post = "slot"
  /\ \/ srv' = [srv EXCEPT ![p] = Launched(@)] /\ NoFault /\ UNCHANGED detSlots
     \/ /\ \/ srv' = [srv EXCEPT ![p].post = "refused"]
           \/ srv' = [srv EXCEPT ![p] = WithRow([@ EXCEPT !.post = "refused"], "pending")]
        /\ Fault /\ detSlots' = detSlots - 1
  /\ UNCHANGED <<app, ran, asleep>>

-----------------------------------------------------------------------------
(* The server: runDetectionJob. *)

\* The job is marked processing (a failed Save is only logged) and the detector
\* called, which bills the photo.
DetectorCalled(p) ==
  /\ srv[p].work = "starting"
  /\ \/ srv' = [srv EXCEPT ![p] = WithRow([@ EXCEPT !.work = "detecting"], "processing")] /\ NoFault
     \/ srv' = [srv EXCEPT ![p].work = "detecting"] /\ Fault
  /\ ran' = [ran EXCEPT ![p].paid = @ + 1]
  /\ UNCHANGED <<app, detSlots, asleep>>

\* Detect answers before the context's deadline.
DetectorReturns(p) ==
  /\ srv[p].work = "detecting" /\ CtxLive(p)
  /\ srv' = [srv EXCEPT ![p].work = "storing"]
  /\ NoFault /\ UNCHANGED <<app, detSlots, ran, asleep>>

\* processDetected stores the items on the worker's context; background removal
\* runs on one of its own and may outlast it.
StoreItems(p) ==
  /\ srv[p].work = "storing"
  /\ srv' = [srv EXCEPT ![p].work = "ending"]
  /\ \/ CtxLive(p) /\ ran' = [ran EXCEPT ![p].stored = TRUE] /\ NoFault
     \/ ~CtxLive(p) /\ NoFault /\ UNCHANGED ran
     \/ CtxLive(p) /\ Fault /\ UNCHANGED ran
  /\ UNCHANGED <<app, detSlots, asleep>>

\* The last Save, on the worker's context, and the deferred release.
EndWork(p, verdict) ==
  /\ LET done == [srv[p] EXCEPT !.work = "done", !.age = 0]
     IN  \/ CtxLive(p) /\ srv' = [srv EXCEPT ![p] = WithRow(done, verdict)] /\ NoFault
         \/ ~CtxLive(p) /\ srv' = [srv EXCEPT ![p] = done] /\ NoFault
         \/ CtxLive(p) /\ srv' = [srv EXCEPT ![p] = done] /\ Fault
  /\ detSlots' = detSlots - 1
  /\ UNCHANGED <<app, asleep>>

DetectorFails(p) ==
  /\ srv[p].work = "detecting" /\ EndWork(p, "failed")
  /\ ran' = [ran EXCEPT ![p].bad = TRUE]

DetectCompletes(p) ==
  /\ srv[p].work = "ending" /\ EndWork(p, "completed")
  /\ ran' = [ran EXCEPT ![p].bad = @ \/ ~CtxLive(p)]

-----------------------------------------------------------------------------
(* The server: POST /v1/wardrobe/detect, and its death. *)

\* The whole pipeline on the request's context; no semaphore.
SyncDetect(p) ==
  /\ srv[p].sync = "detecting"
  /\ \/ srv' = [srv EXCEPT ![p].sync = "ok"] /\ ran' = [ran EXCEPT ![p].stored = TRUE]
     \/ srv' = [srv EXCEPT ![p].sync = "error"] /\ ran' = [ran EXCEPT ![p].bad = TRUE]
  /\ NoFault /\ UNCHANGED <<app, detSlots, asleep>>

\* The process dies and restarts: Redis stays, requests fail.
DetectCrash ==
  /\ Fault
  /\ srv' = [p \in Photos |-> [srv[p] EXCEPT
       !.work = IF @ \in Workers THEN "done" ELSE @, !.age = 0,
       !.post = IF @ \in {"arrived", "slot"} THEN "refused" ELSE @,
       !.sync = IF @ = "detecting" THEN "error" ELSE @]]
  /\ detSlots' = 0
  /\ UNCHANGED <<app, ran, asleep>>

-----------------------------------------------------------------------------
(* The app. *)

\* markCompleted, markFailed: a job that was dismissed or cleared stays gone.
Marked(a, verdict) ==
  [a EXCEPT !.loop = "done", !.waited = 0, !.fresh = TRUE,
            !.shown = IF @ = "detecting" THEN verdict ELSE @]

StartJob(p) ==
  /\ app[p].loop = "idle" /\ app[p].shown = "none"
  /\ app' = [app EXCEPT ![p].loop = "submitting", ![p].shown = "detecting"]
  /\ srv' = [srv EXCEPT ![p].post = "arrived"]
  /\ NoFault /\ UNCHANGED <<detSlots, ran, asleep>>

Submitted(p) ==
  /\ app[p].loop = "submitting" /\ srv[p].post = "accepted"
  /\ app' = [app EXCEPT ![p].loop = "polling", ![p].fresh = TRUE]
  /\ NoFault /\ UNCHANGED <<srv, detSlots, ran, asleep>>

\* submitDetection throws, on a 503 or because no answer came: the synchronous path.
FallBack(p) ==
  /\ app[p].loop = "submitting"
  /\ \/ srv[p].post = "refused" /\ NoFault
     \/ srv[p].post # "refused" /\ Fault
  /\ app' = [app EXCEPT ![p].loop = "sync"]
  /\ srv' = [srv EXCEPT ![p].sync = "detecting"]
  /\ ran' = [ran EXCEPT ![p].paid = @ + 1]
  /\ UNCHANGED <<detSlots, asleep>>

SyncAnswered(p) ==
  /\ app[p].loop = "sync"
  /\ \/ srv[p].sync = "ok" /\ app' = [app EXCEPT ![p] = Marked(@, "completed")] /\ NoFault
     \/ srv[p].sync = "error" /\ app' = [app EXCEPT ![p] = Marked(@, "failed")] /\ NoFault
     \/ app' = [app EXCEPT ![p] = Marked(@, "failed")] /\ Fault
  /\ UNCHANGED <<srv, detSlots, ran, asleep>>

\* One turn of the loop.  An error, a 404 included, ends it.
PollJob(p) ==
  /\ app[p].loop = "polling" /\ app[p].waited < PollDeadline
  /\ \/ /\ NoFault
        /\ app' = [app EXCEPT ![p] =
             CASE srv[p].row \in {"pending", "processing"} -> [@ EXCEPT !.fresh = TRUE]
               [] srv[p].row = "completed"                 -> Marked(@, "completed")
               [] srv[p].row \in {"failed", "none"}        -> Marked(@, "failed")]
     \/ Fault /\ app' = [app EXCEPT ![p] = Marked(@, "failed")]
  /\ UNCHANGED <<srv, detSlots, ran, asleep>>

\* Mutant: the loop has no deadline.
GiveUpNever(p) == FALSE /\ UNCHANGED detectVars

\* Mutant: the app gives up as soon as a tick has passed.
GiveUpEarly(p) ==
  /\ app[p].loop = "polling" /\ app[p].waited >= 1
  /\ app' = [app EXCEPT ![p] = Marked(@, "failed")]
  /\ NoFault /\ UNCHANGED <<srv, detSlots, ran, asleep>>

GiveUp(p) ==
  /\ app[p].loop = "polling" /\ app[p].waited = PollDeadline
  /\ app' = [app EXCEPT ![p] = Marked(@, "failed")]
  /\ NoFault /\ UNCHANGED <<srv, detSlots, ran, asleep>>

\* clear() at sign-out, while the coroutine goes on.  (Dismissing a job that has
\* ended has no further effect and is left out.)
DismissJob(p) ==
  /\ app[p].shown = "detecting"
  /\ app' = [app EXCEPT ![p].shown = "gone"]
  /\ NoFault /\ UNCHANGED <<srv, detSlots, ran, asleep>>

-----------------------------------------------------------------------------
\* What takes no time unless the app is suspended or the server stalls.
Prompt(p) ==
  /\ app[p].loop # "submitting" /\ srv[p].post \notin {"arrived", "slot"}
  /\ srv[p].work # "starting" /\ (app[p].loop = "polling" => app[p].fresh)

DetectTick ==
  /\ app' = [p \in Photos |-> IF app[p].loop = "polling" /\ app[p].waited < PollDeadline
               THEN [app[p] EXCEPT !.waited = @ + 1, !.fresh = FALSE] ELSE app[p]]
  /\ srv' = [p \in Photos |-> [srv[p] EXCEPT
       !.age = IF srv[p].work \in Workers /\ @ < JobTimeout THEN @ + 1 ELSE @,
       !.ttl = IF @ > 0 THEN @ - 1 ELSE 0,
       !.row = IF srv[p].ttl > 1 THEN @ ELSE "none"]]
  /\ asleep' = (asleep \/ \E p \in Photos : ~Prompt(p))
  /\ NoFault /\ UNCHANGED <<detSlots, ran>>

ServerStep(p) ==
  \/ TakeDetectSlot(p) \/ DetectBusy(p) \/ LaunchDetect(p)
  \/ DetectorCalled(p) \/ DetectorReturns(p) \/ DetectorFails(p) \/ StoreItems(p)
  \/ DetectCompletes(p) \/ SyncDetect(p)

AppStep(p) == Submitted(p) \/ FallBack(p) \/ SyncAnswered(p) \/ GiveUp(p)

DetectNext ==
  \/ \E p \in Photos : StartJob(p) \/ DismissJob(p) \/ ServerStep(p) \/ AppStep(p) \/ PollJob(p)
  \/ DetectTick \/ DetectCrash

DetectSpec == DetectInit /\ [][DetectNext]_detectVars

\* Requests are answered, calls to the detector end, timers fire.
DetectFairness ==
  /\ \A p \in Photos : WF_detectVars(ServerStep(p)) /\ WF_detectVars(AppStep(p))
  /\ WF_detectVars(DetectTick)

-----------------------------------------------------------------------------
\* The semaphore holds one token for each handler or worker that owns one.
DetectSlotsAccounted == detSlots = Cardinality(Holders)

Quiet == detFaults = 0 /\ ~asleep

\* While nothing fails a photo is never billed twice, although a refused
\* submission is repeated on the synchronous endpoint.
PaidOnce == detFaults = 0 => \A p \in Photos : ran[p].paid <= 1

\* What the app shows in the end is true: "completed" has its items in the wardrobe,
\* and "failed" is a detection that failed or outlived its context, so neither the
\* app's deadline, nor the worker's, nor the TTL of the row cuts a good one short.
VerdictIsTrue ==
  /\ detFaults = 0 => \A p \in Photos : app[p].shown = "completed" => ran[p].stored
  /\ Quiet => \A p \in Photos : app[p].shown = "failed" => ran[p].bad \/ ~CtxLive(p)

\* Every job leaves "detecting", although the server may lose it without a trace.
DetectionResolves == \A p \in Photos : app[p].shown = "detecting" ~> app[p].shown # "detecting"
=============================================================================
