----------------------------- MODULE EventQueue -----------------------------
(***************************************************************************)
(* The analytics event pipeline: the client queue of                       *)
(* app/src/lib/events/index.ts, driven by app/_layout.tsx, and the ingest  *)
(* handler of backend/internal/events.                                     *)
(*                                                                         *)
(* JavaScript runs to the next await, so a step is a callback or the code  *)
(* between two awaits.  AsyncStorage runs its calls one after the other;   *)
(* the POST is answered at any time after it was sent, and emit,           *)
(* setAuthToken, stop or the death of the app may come in between.         *)
(* Events are numbered in the order they are emitted; events that scrubPII *)
(* refuses never enter the queue and are left out.                         *)
(***************************************************************************)
EXTENDS Integers, Sequences

CONSTANTS
  LastEvent,      \* bound: events emitted
  BatchSize,      \* BATCH_SIZE
  MaxQueueDepth,  \* MAX_QUEUE_DEPTH
  MaxRestarts,    \* bound: calls of stop() and deaths of the app
  MaxFaults,      \* bound: failed POSTs and storage calls
  Null            \* AsyncStorage holds nothing under STORAGE_KEY

ASSUME QueueAssumption ==
  /\ LastEvent \in Nat /\ MaxRestarts \in Nat /\ MaxFaults \in Nat
  /\ BatchSize \in Nat \ {0} /\ MaxQueueDepth \in Nat
  /\ BatchSize <= MaxQueueDepth

Events == 1 .. LastEvent
Elems(s) == {s[i] : i \in DOMAIN s}
Ordered(s) == \A i, j \in DOMAIN s : i < j => s[i] < s[j]

VARIABLES
  queue, started, token,  \* SDKState; token: authToken is set
  flush,                  \* flushing: "idle", or waiting for the POST or the disk
  batch, rest,            \* the locals of flush(), taken before the await
  net,                    \* the POST: "none", "sent", or its outcome
  disk, calls,            \* the stored queue, and the calls AsyncStorage has to run
  stored,                 \* stored[e]: documents of event e in Mongo
  emitted,                \* number of events emitted
  restarts, faults,
  early,                  \* history: emitted before start() finished,
  during,                 \*   emitted while a POST was awaited,
  dropped,                \*   shed on purpose (depth cap, 413),
  saved                   \*   ever on disk

sdkVars   == <<queue, started, token>>
flushVars == <<flush, batch, rest, net>>
diskVars  == <<disk, calls, saved>>
ghosts    == <<emitted, restarts, faults, early, during, dropped>>
vars == <<sdkVars, flushVars, diskVars, stored, ghosts>>

\* The calls of AsyncStorage: start() reads; persistQueue stores the queue as it
\* was, and flush() waits for the call it made.
Get == [op |-> "get"]
Set(q, awaited) == [op |-> "set", queue |-> q, awaited |-> awaited]
Restoring == \E i \in DOMAIN calls : calls[i].op = "get"

\* A queue never outgrows its cap, holds no event twice and keeps the order of
\* emission, in memory, on disk and in every snapshot taken across an await.
WellFormed(s) ==
  /\ Len(s) <= MaxQueueDepth /\ Elems(s) \subseteq Events /\ Ordered(s)

TypeOK ==
  /\ WellFormed(queue) /\ WellFormed(batch) /\ WellFormed(rest)
  /\ disk # Null => WellFormed(disk)
  /\ \A i \in DOMAIN calls : calls[i].op = "set" => WellFormed(calls[i].queue)
  /\ started \in BOOLEAN /\ token \in BOOLEAN
  /\ flush \in {"idle", "posting", "persisting"}
  /\ net \in {"none", "sent", "ok", "413", "error"}
  /\ (net # "none") = (flush = "posting")
  /\ stored \in [Events -> Nat]
  /\ emitted \in 0 .. LastEvent /\ restarts \in 0 .. MaxRestarts /\ faults \in 0 .. MaxFaults
  /\ early \cup during \cup dropped \cup saved \subseteq Events

Init ==
  /\ queue = <<>> /\ started = FALSE /\ token = FALSE
  /\ flush = "idle" /\ batch = <<>> /\ rest = <<>> /\ net = "none"
  /\ disk = Null /\ calls = <<>> /\ saved = {}
  /\ stored = [e \in Events |-> 0]
  /\ emitted = 0 /\ restarts = 0 /\ faults = 0
  /\ early = {} /\ during = {} /\ dropped = {}

-----------------------------------------------------------------------------
Fault == faults < MaxFaults /\ faults' = faults + 1

\* The JavaScript slices the code uses.
Front(s, n)  == SubSeq(s, 1, IF n < Len(s) THEN n ELSE Len(s))
After(s, n)  == SubSeq(s, n + 1, Len(s))
Newest(s, n) == IF Len(s) > n THEN After(s, Len(s) - n) ELSE s

\* persistQueue: setItem of the queue as it is now.
Persist(q, awaited) ==
  /\ calls' = Append(calls, Set(q, awaited))
  /\ UNCHANGED <<disk, saved>>

\* Mutant: the `if (state.flushing) return` guard is dropped.
MayFlushTwice(q, tok) == started /\ q # <<>> /\ tok

\* The guards of flush().
MayFlush(q, tok) == started /\ flush = "idle" /\ q # <<>> /\ tok

\* flush() up to its await: snapshot, POST.
BeginFlush(q) ==
  /\ flush' = "posting" /\ net' = "sent"
  /\ batch' = Front(q, BatchSize) /\ rest' = After(q, BatchSize)

FlushIf(wanted, q, tok) ==
  IF wanted /\ MayFlush(q, tok) THEN BeginFlush(q) ELSE UNCHANGED flushVars

-----------------------------------------------------------------------------
(* The public API. *)

\* start() up to its await.
Start ==
  /\ ~started /\ started' = TRUE
  /\ calls' = Append(calls, Get)
  /\ UNCHANGED <<queue, token, flushVars, disk, saved, stored, ghosts>>

\* start() after its await: the stored queue replaces the one in memory; a
\* failed or unreadable restore leaves it.  Then flush().
Restore ==
  /\ calls # <<>> /\ Head(calls) = Get /\ calls' = Tail(calls)
  /\ \/ /\ queue' = IF disk # Null THEN Newest(disk, MaxQueueDepth) ELSE queue
        /\ UNCHANGED faults
     \/ Fault /\ UNCHANGED queue
  /\ FlushIf(TRUE, queue', token)
  /\ UNCHANGED <<started, token, disk, saved, stored, emitted, restarts, early, during, dropped>>

Stop ==
  /\ started /\ started' = FALSE
  /\ restarts < MaxRestarts /\ restarts' = restarts + 1
  /\ UNCHANGED <<queue, token, flushVars, diskVars, stored, emitted, faults, early, during, dropped>>

\* Sign-in, refresh and sign-out.
SetAuthToken(tok) ==
  /\ token' = tok
  /\ FlushIf(tok, queue, tok)
  /\ UNCHANGED <<queue, started, diskVars, stored, ghosts>>

\* Mutant: the depth cap is applied to the persisted copy only.
EmitUncapped ==
  /\ emitted < LastEvent /\ emitted' = emitted + 1
  /\ queue' = Append(queue, emitted')
  /\ Persist(queue', FALSE)
  /\ early' = early \cup (IF ~started \/ Restoring THEN {emitted'} ELSE {})
  /\ during' = during \cup (IF flush = "posting" THEN {emitted'} ELSE {})
  /\ FlushIf(Len(queue') >= BatchSize, queue', token)
  /\ UNCHANGED <<started, token, stored, restarts, faults, dropped>>

Emit ==
  /\ emitted < LastEvent /\ emitted' = emitted + 1
  /\ queue' = Newest(Append(queue, emitted'), MaxQueueDepth)
  /\ dropped' = dropped \cup (Elems(queue) \ Elems(queue'))
  /\ Persist(queue', FALSE)
  /\ early' = early \cup (IF ~started \/ Restoring THEN {emitted'} ELSE {})
  /\ during' = during \cup (IF flush = "posting" THEN {emitted'} ELSE {})
  /\ FlushIf(Len(queue') >= BatchSize, queue', token)
  /\ UNCHANGED <<started, token, stored, restarts, faults>>

\* The 10 s timer, a return to the foreground, a sign-out.
Flush ==
  /\ MayFlush(queue, token) /\ BeginFlush(queue)
  /\ UNCHANGED <<sdkVars, diskVars, stored, ghosts>>

-----------------------------------------------------------------------------
(***************************************************************************)
(* The server.  Ingest gives every event of the batch a fresh _id and      *)
(* inserts them unordered: a failed or timed out insert may have stored    *)
(* some of them, and an answer may be lost after all were stored.          *)
(***************************************************************************)
Inserted(S) == stored' = [e \in Events |-> IF e \in S THEN stored[e] + 1 ELSE stored[e]]

Ingest ==
  /\ net = "sent"
  /\ \/ net' = "ok" /\ Inserted(Elems(batch)) /\ UNCHANGED faults
     \/ Fault /\ net' = "error" /\ \E S \in SUBSET Elems(batch) : Inserted(S)
     \/ Fault /\ net' = "413" /\ UNCHANGED stored
  /\ UNCHANGED <<sdkVars, flush, batch, rest, diskVars, emitted, restarts, early, during, dropped>>

-----------------------------------------------------------------------------
(* flush() after its await. *)

\* Mutant: a failed POST is treated as delivered.
FlushKeepsNot ==
  /\ net = "error" /\ net' = "none" /\ flush' = "idle"
  /\ queue' = rest
  /\ UNCHANGED <<started, token, batch, rest, diskVars, stored, ghosts>>

\* res.ok: the snapshot becomes the queue.
FlushDelivered ==
  /\ net = "ok" /\ net' = "none" /\ flush' = "persisting"
  /\ queue' = rest
  /\ Persist(queue', TRUE)
  /\ UNCHANGED <<started, token, batch, rest, stored, ghosts>>

\* 413: shed the older half of the batch from the queue as it is now.
FlushTooLarge ==
  /\ net = "413" /\ net' = "none" /\ flush' = "persisting"
  /\ LET half == IF Len(batch) < 2 THEN 1 ELSE Len(batch) \div 2
     IN  queue' = After(queue, half)
  /\ dropped' = dropped \cup (Elems(queue) \ Elems(queue'))
  /\ Persist(queue', TRUE)
  /\ UNCHANGED <<started, token, batch, rest, stored, emitted, restarts, faults, early, during>>

\* 401, 5xx, offline: keep the batch.
FlushKeeps ==
  /\ net = "error" /\ net' = "none" /\ flush' = "idle"
  /\ UNCHANGED <<sdkVars, batch, rest, diskVars, stored, ghosts>>

-----------------------------------------------------------------------------
(* AsyncStorage and the operating system. *)

\* Mutant: the awaited persist of flush() never clears `flushing`.
WriteStuck ==
  /\ calls # <<>> /\ Head(calls).op = "set" /\ calls' = Tail(calls)
  /\ disk' = Head(calls).queue /\ saved' = saved \cup Elems(disk')
  /\ UNCHANGED <<sdkVars, flushVars, stored, ghosts>>

\* The oldest setItem completes or fails; flush() ends with the one it awaits.
Write ==
  /\ calls # <<>> /\ Head(calls).op = "set" /\ calls' = Tail(calls)
  /\ \/ disk' = Head(calls).queue /\ saved' = saved \cup Elems(disk') /\ UNCHANGED faults
     \/ Fault /\ UNCHANGED <<disk, saved>>
  /\ flush' = IF Head(calls).awaited THEN "idle" ELSE flush
  /\ UNCHANGED <<sdkVars, batch, rest, net, stored, emitted, restarts, early, during, dropped>>

\* The app is killed: memory and the calls not yet run are gone.  A POST on its
\* way may still be ingested.
Kill ==
  /\ restarts < MaxRestarts /\ restarts' = restarts + 1
  /\ queue' = <<>> /\ started' = FALSE /\ token' = FALSE
  /\ flush' = "idle" /\ batch' = <<>> /\ rest' = <<>> /\ net' = "none"
  /\ calls' = <<>>
  /\ UNCHANGED stored \/ (net = "sent" /\ Inserted(Elems(batch)))
  /\ UNCHANGED <<disk, saved, emitted, faults, early, during, dropped>>

-----------------------------------------------------------------------------
Next ==
  \/ Start \/ Restore \/ Stop \/ Emit \/ Flush
  \/ \E tok \in BOOLEAN : SetAuthToken(tok)
  \/ Ingest \/ FlushDelivered \/ FlushTooLarge \/ FlushKeeps
  \/ Write \/ Kill

Spec == Init /\ [][Next]_vars

\* The timer fires, storage and the network answer, callbacks run.
Fairness ==
  /\ WF_vars(Restore) /\ WF_vars(Flush) /\ WF_vars(Ingest) /\ WF_vars(Write)
  /\ WF_vars(FlushDelivered \/ FlushTooLarge \/ FlushKeeps)

FairSpec == Spec /\ Fairness

\* _layout.tsx: "Boot the SDK once, before any emit".
BootFirst == emitted' # emitted => started
BootSpec == Init /\ [][Next /\ BootFirst]_vars

-----------------------------------------------------------------------------
(* Safety *)

\* At least once: until the first restart, an event emitted while neither the
\* restore nor a POST was awaited stays queued until Mongo holds it, whatever
\* fails and whoever signs in or out, unless it is shed on purpose.
KeptUntilStored ==
  restarts = 0 =>
    \A e \in (1 .. emitted) \ (early \cup during \cup dropped) :
      e \in Elems(queue) \/ stored[e] > 0

\* Exactly once while nothing fails and nothing restarts: timer, batch, login
\* and forced flushes that coincide never send an event twice.
OnceWhenHealthy ==
  faults = 0 /\ restarts = 0 => \A e \in Events \ early : stored[e] <= 1

-----------------------------------------------------------------------------
(* Liveness *)

\* A started, signed-in client drains its queue, whatever failed before.
QueueDrains == <>[](started /\ token) => []<>(queue = <<>>)

-----------------------------------------------------------------------------
(* What comments say and the code does not do. *)

\* index.ts:197, "Splicing the slice keeps events emitted during the in-flight
\* POST in place": a delivered batch takes only its own events off the queue.
DeliveryTakesOnlyTheBatch ==
  [][net = "ok" /\ flush' = "persisting" =>
       Elems(queue) \ Elems(batch) \subseteq Elems(queue')]_vars

\* index.ts:15, "Queue persisted to AsyncStorage on every push so a force-close
\* doesn't drop events": an event that reached the disk is queued, on disk or
\* delivered ever after, unless it is shed on purpose (or lost to a delivery, the
\* finding above).
PersistedIsKept ==
  \A e \in saved \ (dropped \cup during) :
    \/ e \in Elems(queue) \/ stored[e] > 0
    \/ disk # Null /\ e \in Elems(disk)
=============================================================================
