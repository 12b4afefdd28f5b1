------------------------------- MODULE Budget -------------------------------
(***************************************************************************)
(* The per-user daily LLM budget: budget/budget.go (Enforcer.Check and     *)
(* Release, RedisSpendTracker), app/budget_adapters.go, the gate around    *)
(* the provider call in outfit/service.go and the bookkeeping at the end   *)
(* of observability/recorder.go.  One user; amounts are small integers.    *)
(*                                                                         *)
(* Each Redis command is one step, so the commands of concurrent calls     *)
(* interleave, midnight may fall between any two of them, and each may     *)
(* fail before or after Redis applied it (faults are counted).             *)
(***************************************************************************)
EXTENDS Integers, FiniteSets

CONSTANTS
  Outfits,      \* outfit generations of the user, gated by Check
  Detections,   \* wardrobe detections: recorded, never gated
  Estimate,     \* estimatedCallUSD
  Costs,        \* what a provider call may turn out to cost
  Caps,         \* daily caps an admin may set; 0 is "no cap configured"
  MaxCap,       \* no cap is above it
  LastDay,      \* bound: days explored
  MaxFaults     \* bound: failed Redis or Mongo calls and process deaths

Calls == Outfits \cup Detections
Days  == 0 .. LastDay
NoDay == -1

ASSUME BudgetAssumption ==
  /\ IsFiniteSet(Outfits) /\ IsFiniteSet(Detections)
  /\ Outfits \cap Detections = {}
  /\ Estimate \in Nat \ {0}
  /\ Costs \subseteq Nat /\ MaxCap \in Nat /\ Caps \subseteq 0 .. MaxCap
  /\ LastDay \in Nat /\ MaxFaults \in Nat

VARIABLES
  pc,         \* pc[c]: where call c stands
  capSeen,    \* capSeen[c]: the cap Check read
  reserved,   \* reserved[c]: reservedUSD > 0, the call owes a Release
  cost,       \* cost[c]: what its provider call cost
  cap,        \* the user's cap in user_budgets
  day,        \* today (UTC)
  spend,      \* spend[d]: the Redis counter user:{id}:spend:{d}
  suspend,    \* day on which the suspend key expires, NoDay when absent
  faults,     \* faults so far
  took, gave, \* history: the day whose counter took / gave back c's estimate
  booked,     \* history: booked[d]: actual cost added to spend[d]
  ungated     \* history: the part of booked[d] no reservation of day d covered

codeVars == <<pc, capSeen, reserved, cost>>
history  == <<took, gave, booked, ungated>>
vars == <<codeVars, cap, day, spend, suspend, faults, history>>

Running == {"cap", "reserve", "breach", "over", "suspend", "generate", "record", "release"}
InFlight(c) == pc[c] \in Running

\* The state, and that Check reserves only under a cap that is configured.
TypeOK ==
  /\ pc \in [Calls -> Running \cup {"idle", "denied", "done", "dead"}]
  /\ capSeen \in [Calls -> Caps \cup {0}]
  /\ \A c \in Calls : pc[c] \in {"reserve", "breach", "over"} => capSeen[c] # 0
  /\ reserved \in [Calls -> BOOLEAN]
  /\ cost \in [Calls -> Costs \cup {0}]
  /\ cap \in Caps /\ day \in Days
  /\ spend \in [Days -> Int]
  /\ suspend \in Days \cup {NoDay, LastDay + 1}
  /\ faults \in 0 .. MaxFaults
  /\ took \in [Calls -> Days \cup {NoDay}] /\ gave \in [Calls -> Days \cup {NoDay}]
  /\ booked \in [Days -> Nat] /\ ungated \in [Days -> Nat]

Init ==
  /\ pc = [c \in Calls |-> "idle"] /\ capSeen = [c \in Calls |-> 0]
  /\ reserved = [c \in Calls |-> FALSE] /\ cost = [c \in Calls |-> 0]
  /\ cap \in Caps /\ day = 0
  /\ spend = [d \in Days |-> 0] /\ suspend = NoDay /\ faults = 0
  /\ took = [c \in Calls |-> NoDay] /\ gave = [c \in Calls |-> NoDay]
  /\ booked = [d \in Days |-> 0] /\ ungated = [d \in Days |-> 0]

-----------------------------------------------------------------------------
Goto(c, l) == pc' = [pc EXCEPT ![c] = l]
Fault == faults < MaxFaults /\ faults' = faults + 1
Works == UNCHANGED faults

\* INCRBYFLOAT on the key of the day it runs on.  A failing command may have
\* been applied all the same.
AddToSpend(x) == spend' = [spend EXCEPT ![day] = @ + x]
TakeEstimate(c) == AddToSpend(Estimate) /\ took' = [took EXCEPT ![c] = day]
GiveEstimate(c) == AddToSpend(-Estimate) /\ gave' = [gave EXCEPT ![c] = day]

-----------------------------------------------------------------------------
(***************************************************************************)
(* Enforcer.Check, as GenerateOutfits sees it through the adapter: any     *)
(* error lets the call through with nothing reserved.                      *)
(***************************************************************************)

\* IsSuspended.
CheckSuspended(c) ==
  /\ pc[c] = "idle" /\ c \in Outfits
  /\ \/ Works /\ Goto(c, IF suspend # NoDay THEN "denied" ELSE "cap")
     \/ Fault /\ Goto(c, "generate")
  /\ UNCHANGED <<capSeen, reserved, cost, cap, day, spend, suspend, history>>

\* Mutant: the `cap.DailyUSD <= 0` case is dropped.
ReadCapAlways(c) ==
  /\ pc[c] = "cap"
  /\ Works /\ capSeen' = [capSeen EXCEPT ![c] = cap] /\ Goto(c, "reserve")
  /\ UNCHANGED <<reserved, cost, cap, day, spend, suspend, history>>

\* BudgetForUser; without a cap there is nothing to gate.
ReadCap(c) ==
  /\ pc[c] = "cap"
  /\ \/ /\ Works
        /\ capSeen' = [capSeen EXCEPT ![c] = cap]
        /\ Goto(c, IF cap = 0 THEN "generate" ELSE "reserve")
     \/ Fault /\ Goto(c, "generate") /\ UNCHANGED capSeen
  /\ UNCHANGED <<reserved, cost, cap, day, spend, suspend, history>>

Verdict(total, limit) ==
  IF total >= 2 * limit THEN "breach" ELSE IF total > limit THEN "over" ELSE "generate"

\* Reserve answered and Check decides on the total: an allowed call keeps its
\* reservation.
Decide(c, verdict) ==
  /\ Goto(c, verdict)
  /\ reserved' = IF verdict = "generate" THEN [reserved EXCEPT ![c] = TRUE] ELSE reserved

\* Mutant: the verdict is taken on the reading from before the increment.
ReserveReadsFirst(c) ==
  /\ pc[c] = "reserve"
  /\ Works /\ TakeEstimate(c) /\ Decide(c, Verdict(spend[day], capSeen[c]))
  /\ UNCHANGED <<capSeen, cost, cap, day, suspend, gave, booked, ungated>>

\* Reserve, and the verdict on the total it returns.
Reserve(c) ==
  /\ pc[c] = "reserve"
  /\ \/ Works /\ TakeEstimate(c) /\ Decide(c, Verdict(spend[day] + Estimate, capSeen[c]))
     \/ /\ Fault /\ Goto(c, "generate")
        /\ TakeEstimate(c) \/ UNCHANGED <<spend, took>>
        /\ UNCHANGED reserved
  /\ UNCHANGED <<capSeen, cost, cap, day, suspend, gave, booked, ungated>>

\* Mutant: the over-200% branch forgets the refund.
RefundOverOnly(c) ==
  /\ pc[c] \in {"breach", "over"}
  /\ Goto(c, IF pc[c] = "breach" THEN "suspend" ELSE "denied")
  /\ Works
  /\ IF pc[c] = "over" THEN GiveEstimate(c) ELSE UNCHANGED <<spend, gave>>
  /\ UNCHANGED <<capSeen, reserved, cost, cap, day, suspend, took, booked, ungated>>

\* A denied call hands its estimate back; the error is ignored.
RefundDenied(c) ==
  /\ pc[c] \in {"breach", "over"}
  /\ Goto(c, IF pc[c] = "breach" THEN "suspend" ELSE "denied")
  /\ \/ Works /\ GiveEstimate(c)
     \/ Fault /\ (GiveEstimate(c) \/ UNCHANGED <<spend, gave>>)
  /\ UNCHANGED <<capSeen, reserved, cost, cap, day, suspend, took, booked, ungated>>

\* Suspend for 24 hours.  Check answers (Deny, err) when the write fails, and
\* the adapter turns every err into "allow".
SuspendUser(c) ==
  /\ pc[c] = "suspend"
  /\ \/ Works /\ suspend' = day + 1 /\ Goto(c, "denied")
     \/ Fault /\ suspend' \in {suspend, day + 1} /\ Goto(c, "generate")
  /\ UNCHANGED <<capSeen, reserved, cost, cap, day, spend, history>>

-----------------------------------------------------------------------------
(* The provider call, its bookkeeping and the deferred release. *)

Detect(c) ==
  /\ pc[c] = "idle" /\ c \in Detections
  /\ Goto(c, "generate")
  /\ UNCHANGED <<capSeen, reserved, cost, cap, day, spend, suspend, faults, history>>

Generate(c) ==
  /\ pc[c] = "generate"
  /\ \E x \in Costs : cost' = [cost EXCEPT ![c] = x]
  /\ Goto(c, "record")
  /\ UNCHANGED <<capSeen, reserved, cap, day, spend, suspend, faults, history>>

\* What of a cost the reservation of call c does not cover on the day it is
\* booked: all of it without a reservation of that day, else the excess.
Uncovered(c) ==
  IF reserved[c] /\ took[c] = day
    THEN IF cost[c] > Estimate THEN cost[c] - Estimate ELSE 0
    ELSE cost[c]

Booked(c) ==
  /\ AddToSpend(cost[c])
  /\ booked' = [booked EXCEPT ![day] = @ + cost[c]]
  /\ ungated' = [ungated EXCEPT ![day] = @ + Uncovered(c)]

\* LLMRecorder.Record increments when cost > 0, on the caller's context: the
\* increment is lost when that was cancelled or Redis fails.
Record(c) ==
  /\ pc[c] = "record"
  /\ Goto(c, "release")
  /\ \/ Works /\ (IF cost[c] > 0 THEN Booked(c) ELSE UNCHANGED <<spend, booked, ungated>>)
     \/ Fault /\ cost[c] > 0 /\ (Booked(c) \/ UNCHANGED <<spend, booked, ungated>>)
  /\ UNCHANGED <<capSeen, reserved, cost, cap, day, suspend, took, gave>>

\* Mutant: the `reserved > 0` test of the deferred release is dropped.
ReleaseAlways(c) ==
  /\ pc[c] = "release"
  /\ Goto(c, "done")
  /\ reserved' = [reserved EXCEPT ![c] = FALSE]
  /\ Works /\ GiveEstimate(c)
  /\ UNCHANGED <<capSeen, cost, cap, day, suspend, took, booked, ungated>>

\* The deferred Release, on a context of its own; the error is swallowed.
Release(c) ==
  /\ pc[c] = "release"
  /\ Goto(c, "done")
  /\ reserved' = [reserved EXCEPT ![c] = FALSE]
  /\ \/ Works /\ (IF reserved[c] THEN GiveEstimate(c) ELSE UNCHANGED <<spend, gave>>)
     \/ Fault /\ reserved[c] /\ (GiveEstimate(c) \/ UNCHANGED <<spend, gave>>)
  /\ UNCHANGED <<capSeen, cost, cap, day, suspend, took, booked, ungated>>

-----------------------------------------------------------------------------
(* The environment. *)

\* The suspend key expires a day after it was set, at some time of that day.
Lapse ==
  /\ suspend # NoDay /\ day >= suspend
  /\ suspend' = NoDay
  /\ UNCHANGED <<codeVars, cap, day, spend, faults, history>>

\* Midnight UTC: spendKey names another counter.
NewDay ==
  /\ day < LastDay /\ (suspend # NoDay => day < suspend)
  /\ day' = day + 1
  /\ UNCHANGED <<codeVars, cap, spend, suspend, faults, history>>

\* PUT /admin/v1/users/{id}/budget.
SetCap ==
  /\ \E x \in Caps : x # cap /\ cap' = x
  /\ UNCHANGED <<codeVars, day, spend, suspend, faults, history>>

\* The process dies: calls in flight end and never release.
Crash ==
  /\ Fault
  /\ pc' = [c \in Calls |-> IF InFlight(c) THEN "dead" ELSE pc[c]]
  /\ UNCHANGED <<capSeen, reserved, cost, cap, day, spend, suspend, history>>

Check(c) == CheckSuspended(c) \/ ReadCap(c) \/ Reserve(c) \/ RefundDenied(c) \/ SuspendUser(c)
Call(c)  == Detect(c) \/ Generate(c) \/ Record(c) \/ Release(c)

Next ==
  \/ \E c \in Calls : Check(c) \/ Call(c)
  \/ Lapse \/ NewDay \/ SetCap \/ Crash

Spec == Init /\ [][Next]_vars

-----------------------------------------------------------------------------
(* Safety *)

Took(d) == {c \in Calls : took[c] = d}
Gave(d) == {c \in Calls : gave[c] = d}

\* Calls that reserved on an earlier day and gave back on day d.
Crossers(d) == {c \in Calls : gave[c] = d /\ took[c] \notin {d, NoDay}}
\* Calls that reserved on day d and gave back on a later day.
Leavers(d)  == {c \in Calls : took[c] = d /\ gave[c] \notin {d, NoDay}}

\* Reservations net out: with no fault, once no call is in flight every daily
\* counter is exactly the cost booked on it, whatever was denied, suspended or
\* run concurrently, up to the calls that ran across a midnight.
NetsOut ==
  faults = 0 /\ (\A c \in Calls : ~InFlight(c)) =>
    \A d \in Days : spend[d] + Estimate * Cardinality(Crossers(d))
                      = booked[d] + Estimate * Cardinality(Leavers(d))

\* Lost releases, unacknowledged reservations and process deaths err on the
\* safe side: a counter never falls below what was booked, except by the
\* estimates handed back to it for reservations of an earlier day.
FailsSafe ==
  \A d \in Days : spend[d] + Estimate * Cardinality(Crossers(d)) >= booked[d]

\* Concurrent calls cannot all pass the gate on one reading: what is booked on
\* a day exceeds the cap only by spend no reservation of that day covered, and
\* by the estimates of calls that ran across midnight.
OverspendBounded ==
  \A d \in Days : booked[d] <= MaxCap + ungated[d] + Estimate * Cardinality(Crossers(d))

-----------------------------------------------------------------------------
(***************************************************************************)
(* The inductive invariant.  A call takes and gives back its estimate at   *)
(* most once and owes it only between the two; every counter is the booked *)
(* cost plus the estimates taken less those given; what is booked and what *)
(* the admitted calls may still book fits under the cap.                   *)
(***************************************************************************)
Owes(c) ==
  /\ pc[c] \in {"idle", "cap", "reserve"} => took[c] = NoDay
  /\ pc[c] \in {"idle", "cap", "reserve", "breach", "over"} => ~reserved[c] /\ gave[c] = NoDay
  /\ reserved[c] => pc[c] \in {"generate", "record", "release", "dead"} /\ gave[c] = NoDay
  /\ pc[c] \in {"breach", "over"} \/ reserved[c] \/ gave[c] # NoDay => took[c] # NoDay
  /\ faults = 0 /\ took[c] # NoDay /\ gave[c] = NoDay =>
       \/ pc[c] \in {"breach", "over"}
       \/ reserved[c] /\ pc[c] \in {"generate", "record", "release"}

Balanced(d) ==
  spend[d] = booked[d] + Estimate * Cardinality(Took(d)) - Estimate * Cardinality(Gave(d))

Ledger == \A d \in Days : Balanced(d)

\* Admitted calls whose cost is not booked yet.
Active(d) == {c \in Calls : pc[c] \in {"generate", "record"} /\ reserved[c] /\ took[c] = d}

Covered(d) ==
  booked[d] + Estimate * Cardinality(Active(d))
    <= MaxCap + ungated[d] + Estimate * Cardinality(Crossers(d))

Exposure == \A d \in Days : Covered(d)

IInv == TypeOK /\ (\A c \in Calls : Owes(c)) /\ Ledger /\ Exposure

-----------------------------------------------------------------------------
(* What comments say and the code does not do. *)

\* budget.go:234, "Suspend write failed - still deny this call": a call that
\* breached 200% of its cap never reaches the provider.
BreachIsDenied ==
  [][\A c \in Calls : pc[c] = "suspend" => pc'[c] # "generate"]_vars

\* budget.go:296, "the next read picks up the new day's empty key": without
\* faults no counter is below what was booked on it.
NeverUnderCounts == \A d \in Days : spend[d] >= booked[d]
=============================================================================
