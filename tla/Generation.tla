----------------------------- MODULE Generation -----------------------------
(***************************************************************************)
(* Outfit generation (backend/internal/outfit): requests that share the    *)
(* result cache of one wardrobe and weather, the tier routing, the cascade *)
(* with its health tracker, and the event stream of the requests that      *)
(* asked for one.                                                          *)
(*                                                                         *)
(* A provider's answer is abstracted to whether it succeeded, whether it   *)
(* was billed and whether a Usage came back; a batch to whether it has     *)
(* three validated outfits of the model.  Prompts, scoring, palettes and   *)
(* the critic, which neither the cascade nor the routing implements, are   *)
(* left out; the reservation of the budget gate is in Budget.              *)
(***************************************************************************)
EXTENDS Integers, Sequences

CONSTANTS
  Plain,          \* requests without a callback: GET /v1/outfits and async workers
  Streams,        \* requests that stream
  Chain,          \* the cascade's providers, in order
  Routes,         \* what the routing table may name; NoProvider: nothing built
  NoProvider,
  FailsToCooldown

Requests  == Plain \cup Streams
Providers == {Chain[i] : i \in DOMAIN Chain}

ASSUME GenAssumption ==
  /\ Plain \cap Streams = {} /\ Chain \in Seq(Providers) /\ Len(Chain) > 0
  /\ NoProvider \notin Providers /\ Routes \subseteq Providers \cup {NoProvider}
  /\ FailsToCooldown \in Nat \ {0}

VARIABLES
  gen,     \* gen[r]: generateOutfitsImpl and the generators under it
  hb,      \* hb[r]: the heartbeat goroutine
  wire,    \* wire[r]: the last kind of event on the stream; late: one followed "done"
  gone,    \* requests whose context is cancelled
  health,  \* health[p]: consecutive failures, in cooldown
  cached   \* the entry of the result cache

genVars == <<gen, hb, wire, gone, health, cached>>

\* at: what happens next.  pass, pos, any: the cascade's loops, and whether it called
\* a provider.  usage: the Usage at hand (of the provider named); prim: that of the
\* failed routed call.  billed, booked: providers that charged for this request;
\* whose Usage the ledger has.
GenTypeOK ==
  /\ gen \in [Requests ->
       [at : {"new", "wardrobe", "cache", "gate", "route", "routed", "seek", "calling",
              "record", "batch", "ended", "failed", "over"},
        pass : {1, 2}, pos : 1 .. Len(Chain) + 1, any : BOOLEAN,
        usage : Providers \cup {NoProvider},
        prim : Providers \cup {NoProvider}, err : BOOLEAN,
        billed : SUBSET Providers, booked : SUBSET Providers,
        batch : {"none", "empty", "full", "padded", "short", "hit"}, by : Providers \cup {NoProvider}]]
  /\ hb \in [Requests -> {"none", "waiting", "writing", "gone"}]
  /\ wire \in [Requests -> [last : {"none", "progress", "done", "error"}, late : BOOLEAN]]
  /\ gone \subseteq Requests
  /\ health \in [Providers -> [fails : 0 .. FailsToCooldown, cooling : BOOLEAN]]
  /\ cached \in {"none", "full"}

\* Earlier requests may have left any record of failures.
GenInit ==
  /\ gen = [r \in Requests |-> [at |-> "new", pass |-> 1, pos |-> 1, any |-> FALSE,
              usage |-> NoProvider, prim |-> NoProvider, err |-> FALSE,
              billed |-> {}, booked |-> {}, batch |-> "none", by |-> NoProvider]]
  /\ hb = [r \in Requests |-> "none"]
  /\ wire = [r \in Requests |-> [last |-> "none", late |-> FALSE]]
  /\ gone = {} /\ cached = "none"
  /\ health \in {h \in [Providers -> [fails : 0 .. FailsToCooldown, cooling : BOOLEAN]] :
                   \A p \in Providers : h[p].cooling => h[p].fails = FailsToCooldown}

-----------------------------------------------------------------------------
(* The service, up to the provider. *)

Moves(r, at) == gen' = [gen EXCEPT ![r].at = at]

\* runWithProgress emits "connecting" and starts the heartbeat.
Begins(r) ==
  /\ gen[r].at = "new" /\ Moves(r, "wardrobe")
  /\ IF r \in Streams
     THEN hb' = [hb EXCEPT ![r] = "waiting"] /\ wire' = [wire EXCEPT ![r].last = "progress"]
     ELSE UNCHANGED <<hb, wire>>
  /\ UNCHANGED <<gone, health, cached>>

\* The wardrobe cannot be read, is empty, or is not.
ReadsWardrobe(r) ==
  /\ gen[r].at = "wardrobe"
  /\ \/ gen' = [gen EXCEPT ![r].at = "ended", ![r].err = TRUE]
     \/ gen' = [gen EXCEPT ![r].at = "ended", ![r].batch = "empty"]
     \/ r \notin gone /\ Moves(r, "cache")
  /\ UNCHANGED <<hb, wire, gone, health, cached>>

\* A failed read of the cache is a miss.
LooksUpCache(r) ==
  /\ gen[r].at = "cache"
  /\ \/ cached # "none" /\ gen' = [gen EXCEPT ![r].at = "ended", ![r].batch = "hit"]
     \/ Moves(r, "gate")
  /\ UNCHANGED <<hb, wire, gone, health, cached>>

\* The budget gate denies, or lets the call through.
PassesGate(r) ==
  /\ gen[r].at = "gate"
  /\ \/ gen' = [gen EXCEPT ![r].at = "ended", ![r].err = TRUE]
     \/ Moves(r, "route")
  /\ UNCHANGED <<hb, wire, gone, health, cached>>

-----------------------------------------------------------------------------
(* TierRoutingGenerator and CascadeGenerator. *)

\* What a provider may answer; `usage` is what Generate returns besides the error:
\* one with tokens of an answer that does not parse (billed), a zero one of a call
\* that got no answer, nil only when no key is configured.
\* A call ended by its context, or by the timeout of its own HTTP client, fails with
\* DeadlineExceeded or Canceled, which ends the cascade (shouldNotFallback).
Answers(r, p) ==
  {[ok |-> FALSE, ends |-> e, billed |-> {}, usage |-> p] : e \in BOOLEAN}
    \cup {[ok |-> FALSE, ends |-> FALSE, billed |-> {p}, usage |-> p]}
    \cup {[ok |-> FALSE, ends |-> FALSE, billed |-> {}, usage |-> NoProvider]}
    \cup {a \in {[ok |-> TRUE, ends |-> FALSE, billed |-> {p}, usage |-> p]} : r \notin gone}

Known(g, a) == IF a.usage = NoProvider THEN g.usage ELSE a.usage

\* pickProvider: without a route the cascade is used alone.
PicksRoute(r) ==
  /\ gen[r].at = "route"
  /\ \E p \in Routes \cup {NoProvider} :
       IF p = NoProvider THEN Moves(r, "seek")
       ELSE gen' = [gen EXCEPT ![r].at = "routed", ![r].by = p]
  /\ UNCHANGED <<hb, wire, gone, health, cached>>

\* The routed provider is outside the health tracker; any failure goes to the cascade.
RoutedAnswers(r) ==
  /\ gen[r].at = "routed"
  /\ \E a \in Answers(r, gen[r].by) :
       gen' = [gen EXCEPT ![r].billed = @ \cup a.billed,
                 ![r].at = IF a.ok THEN "record" ELSE "seek",
                 ![r].usage = IF a.ok THEN a.usage ELSE NoProvider,
                 ![r].prim = IF a.ok THEN NoProvider ELSE a.usage,
                 ![r].by = IF a.ok THEN @ ELSE NoProvider]
  /\ UNCHANGED <<hb, wire, gone, health, cached>>

\* The loops of Generate: healthy providers first; all of them if none was.  With
\* the chain exhausted the error is returned with the last Usage seen, or the
\* routed call's if there is none.
Seeks(r) ==
  /\ gen[r].at = "seek"
  /\ LET g == gen[r] IN
     gen' = [gen EXCEPT ![r] =
       IF g.pos <= Len(Chain)
       THEN IF g.pass = 1 /\ health[Chain[g.pos]].cooling
            THEN [g EXCEPT !.pos = @ + 1]
            ELSE [g EXCEPT !.at = "calling", !.any = TRUE]
       ELSE IF g.pass = 1 /\ ~g.any
            THEN [g EXCEPT !.pass = 2, !.pos = 1]
            ELSE [g EXCEPT !.at = "record", !.err = TRUE,
                           !.usage = IF @ = NoProvider THEN g.prim ELSE @]]
  /\ UNCHANGED <<hb, wire, gone, health, cached>>

\* RecordFailure; a call its caller cancelled counts against its provider too.
Worse(h) ==
  LET n == IF h.fails < FailsToCooldown THEN h.fails + 1 ELSE h.fails
  IN  [fails |-> n, cooling |-> h.cooling \/ n >= FailsToCooldown]

\* Success is returned at once with its own Usage, and so is a failure that no other
\* provider can mend; any other failure falls through.
CascadeAnswers(r) ==
  /\ gen[r].at = "calling"
  /\ LET p == Chain[gen[r].pos] IN \E a \in Answers(r, p) :
       /\ health' = [health EXCEPT ![p] = IF a.ok THEN [fails |-> 0, cooling |-> FALSE] ELSE Worse(@)]
       /\ gen' = [gen EXCEPT ![r] =
            LET g == [gen[r] EXCEPT !.billed = @ \cup a.billed] IN
            IF a.ok THEN [g EXCEPT !.at = "record", !.usage = p, !.by = p]
            ELSE IF a.ends
                 THEN [g EXCEPT !.at = "record", !.err = TRUE, !.usage = a.usage]
                 ELSE [g EXCEPT !.at = "seek", !.pos = @ + 1, !.usage = Known(g, a)]]
  /\ UNCHANGED <<hb, wire, gone, cached>>

\* IsHealthy after the cooldown; the failures stay counted.
CoolsOff(p) ==
  /\ health[p].cooling /\ health' = [health EXCEPT ![p].cooling = FALSE]
  /\ UNCHANGED <<gen, hb, wire, gone, cached>>

-----------------------------------------------------------------------------
(* The service, after the provider. *)

\* The locals of the generators are gone.
Returned(g) ==
  [g EXCEPT !.at = "batch", !.pass = 1, !.pos = 1, !.any = FALSE,
            !.usage = NoProvider, !.prim = NoProvider]

\* Mutant: only failures are put in the ledger.
RecordsFailures(r) ==
  /\ gen[r].at = "record"
  /\ gen' = [gen EXCEPT ![r] = Returned([@ EXCEPT
               !.booked = IF gen[r].usage = NoProvider \/ ~gen[r].err THEN @ ELSE {gen[r].usage}])]
  /\ UNCHANGED <<hb, wire, gone, health, cached>>

\* One row for the one Usage that came back; it is lost with the context.
Records(r) ==
  /\ gen[r].at = "record"
  /\ \/ gen' = [gen EXCEPT ![r] = Returned([@ EXCEPT
                  !.booked = IF gen[r].usage = NoProvider THEN gen[r].booked ELSE {gen[r].usage}])]
     \/ r \in gone /\ gen' = [gen EXCEPT ![r] = Returned(@)]
  /\ UNCHANGED <<hb, wire, gone, health, cached>>

\* Fewer than three valid outfits are padded where the wardrobe allows; the error
\* of the generator ends here.  Set may fail.
BuildsBatch(r) ==
  /\ gen[r].at = "batch"
  /\ \E b \in {"full", "padded", "short"} :
       /\ gen[r].err => b # "full"
       /\ gen' = [gen EXCEPT ![r].at = "ended", ![r].batch = b, ![r].err = FALSE]
       /\ \/ b = "full" /\ cached' = "full"
          \/ UNCHANGED cached
  /\ UNCHANGED <<hb, wire, gone, health>>

CacheExpires ==
  /\ cached # "none" /\ cached' = "none" /\ UNCHANGED <<gen, hb, wire, gone, health>>

-----------------------------------------------------------------------------
(* The stream. *)

\* The client disconnects, or the request's or worker's deadline passes.
Cancelled(r) ==
  /\ gen[r].at \notin {"new", "over"} /\ r \notin gone
  /\ gone' = gone \cup {r} /\ UNCHANGED <<gen, hb, wire, health, cached>>

\* The select may pick the ticker although the context is done.
HeartbeatFires(r) ==
  /\ hb[r] = "waiting" /\ hb' = [hb EXCEPT ![r] = "writing"]
  /\ UNCHANGED <<gen, wire, gone, health, cached>>

HeartbeatWritten(r) ==
  /\ hb[r] = "writing" /\ hb' = [hb EXCEPT ![r] = "waiting"]
  /\ wire' = [wire EXCEPT ![r].late = @ \/ wire[r].last # "progress"]
  /\ UNCHANGED <<gen, gone, health, cached>>

\* The context of the heartbeat ends with the request's, or by stopHeartbeat.
HeartbeatEnds(r) ==
  /\ hb[r] = "waiting" /\ (r \in gone \/ gen[r].at = "ended")
  /\ hb' = [hb EXCEPT ![r] = "gone"] /\ UNCHANGED <<gen, wire, gone, health, cached>>

\* Mutant: the goroutine is cancelled but not joined.
EndsUnjoined(r) ==
  /\ gen[r].at = "ended"
  /\ Moves(r, "over")
  /\ wire' = IF r \in Streams THEN [wire EXCEPT ![r].last = "done"] ELSE wire
  /\ UNCHANGED <<hb, gone, health, cached>>

\* The history of a request that is answered is dropped.
Answered(g) ==
  [g EXCEPT !.at = IF g.err THEN "failed" ELSE "over", !.billed = {}, !.booked = {},
            !.by = NoProvider, !.batch = "none"]

\* The heartbeat is joined, then done or error is emitted.
Ends(r) ==
  /\ gen[r].at = "ended" /\ (r \in Streams => hb[r] = "gone")
  /\ gen' = [gen EXCEPT ![r] = Answered(@)]
  /\ wire' = IF r \in Streams
             THEN [wire EXCEPT ![r].last = IF gen[r].err THEN "error" ELSE "done"] ELSE wire
  /\ UNCHANGED <<hb, gone, health, cached>>

\* handleSSEStream emits the error once more.
RepeatsError(r) ==
  /\ gen[r].at = "failed" /\ Moves(r, "over")
  /\ wire' = [wire EXCEPT ![r].late = @ \/ wire[r].last = "done"]
  /\ UNCHANGED <<hb, gone, health, cached>>

GenStep(r) ==
  \/ Begins(r) \/ ReadsWardrobe(r) \/ LooksUpCache(r) \/ PassesGate(r)
  \/ PicksRoute(r) \/ RoutedAnswers(r) \/ Seeks(r) \/ CascadeAnswers(r)
  \/ Records(r) \/ BuildsBatch(r) \/ Ends(r) \/ RepeatsError(r)
Heartbeat(r) == HeartbeatFires(r) \/ HeartbeatWritten(r) \/ HeartbeatEnds(r)

GenNext ==
  \/ \E r \in Requests : GenStep(r) \/ Heartbeat(r) \/ Cancelled(r)
  \/ \E p \in Providers : CoolsOff(p)
  \/ CacheExpires

GenSpec == GenInit /\ [][GenNext]_genVars

-----------------------------------------------------------------------------
\* "done/error is always the last event on the wire" (service.go:411).
DoneIsLast == \A r \in Streams : ~wire[r].late

\* A batch a provider was paid for is in the ledger under that provider, whichever
\* providers failed before it, as long as the caller stayed.
ServedIsBooked ==
  \A r \in Requests :
    gen[r].at \in {"batch", "ended"} /\ gen[r].by # NoProvider /\ r \notin gone
      => gen[r].booked = {gen[r].by} /\ gen[r].by \in gen[r].billed
=============================================================================
