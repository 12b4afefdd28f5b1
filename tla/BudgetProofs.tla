---------------------------- MODULE BudgetProofs ----------------------------
(***************************************************************************)
(* Theorems about Budget, for every number of calls and days, every cost,  *)
(* cap and estimate, and every number of faults.                           *)
(***************************************************************************)
EXTENDS Budget, FiniteSetTheorems, TLAPS

LEMMA CallsFinite == IsFiniteSet(Calls)
  BY BudgetAssumption, FS_Union DEF Calls

LEMMA TypeInit == Init => TypeOK
  BY BudgetAssumption DEF Init, TypeOK, Days, NoDay, Running

LEMMA TakeTypes ==
  ASSUME TypeOK, NEW c \in Calls, TakeEstimate(c)
  PROVE  spend' \in [Days -> Int] /\ took' \in [Calls -> Days \cup {NoDay}]
<1>1. spend[day] + Estimate \in Int
  BY BudgetAssumption DEF TypeOK
<1>2. took' \in [Calls -> Days \cup {NoDay}]
  BY DEF TypeOK, TakeEstimate
<1> QED
  BY <1>1, <1>2 DEF TypeOK, TakeEstimate, AddToSpend

LEMMA GiveTypes ==
  ASSUME TypeOK, NEW c \in Calls, GiveEstimate(c)
  PROVE  spend' \in [Days -> Int] /\ gave' \in [Calls -> Days \cup {NoDay}]
<1>1. spend[day] + (-Estimate) \in Int
  BY BudgetAssumption DEF TypeOK
<1>2. gave' \in [Calls -> Days \cup {NoDay}]
  BY DEF TypeOK, GiveEstimate
<1> QED
  BY <1>1, <1>2 DEF TypeOK, GiveEstimate, AddToSpend

LEMMA CostIsNat ==
  ASSUME TypeOK, NEW c \in Calls
  PROVE  cost[c] \in Nat
<1>1. cost[c] \in Costs \/ cost[c] = 0
  BY DEF TypeOK
<1>2. \A x \in Costs : x \in Nat
  BY BudgetAssumption
<1>3. CASE cost[c] \in Costs
  BY <1>2, <1>3
<1>4. CASE cost[c] = 0
  BY <1>4
<1> QED
  BY <1>1, <1>3, <1>4

LEMMA BookedTypes ==
  ASSUME TypeOK, NEW c \in Calls, Booked(c)
  PROVE  /\ spend' \in [Days -> Int]
         /\ booked' \in [Days -> Nat] /\ ungated' \in [Days -> Nat]
<1>0. cost[c] \in Nat
  BY CostIsNat
<1>1. Uncovered(c) \in Nat
  BY <1>0, BudgetAssumption DEF Uncovered
<1>2. spend' \in [Days -> Int]
  BY <1>0 DEF TypeOK, Booked, AddToSpend
<1>3. booked' \in [Days -> Nat] /\ ungated' \in [Days -> Nat]
  BY <1>0, <1>1 DEF TypeOK, Booked
<1> QED
  BY <1>2, <1>3

LEMMA TypeStep == TypeOK /\ [Next]_vars => TypeOK'
<1> SUFFICES ASSUME TypeOK, [Next]_vars PROVE TypeOK'
  OBVIOUS
<1> USE BudgetAssumption DEF TypeOK, Goto, Works, Fault, Running, history, codeVars
<1>0. day + 1 \in Days \cup {LastDay + 1} /\ NoDay \in Int
  BY DEF Days, NoDay
<1>1. ASSUME NEW c \in Calls, CheckSuspended(c) PROVE TypeOK'
  BY <1>1 DEF CheckSuspended
<1>2. ASSUME NEW c \in Calls, ReadCap(c) PROVE TypeOK'
  BY <1>2 DEF ReadCap
<1>3. ASSUME NEW c \in Calls, Reserve(c) PROVE TypeOK'
  <2>1. /\ spend' \in [Days -> Int]
        /\ took' \in [Calls -> Days \cup {NoDay}]
    BY <1>3, TakeTypes DEF Reserve
  <2>2. /\ reserved' \in [Calls -> BOOLEAN]
        /\ pc' \in [Calls -> Running \cup {"idle", "denied", "done", "dead"}]
    BY <1>3 DEF Reserve, Decide, Verdict
  <2>4. faults' \in 0 .. MaxFaults
    BY <1>3 DEF Reserve
  <2>3. \A q \in Calls : pc'[q] \in {"reserve", "breach", "over"} => capSeen'[q] # 0
    BY <1>3 DEF Reserve, Decide
  <2> QED
    BY <1>3, <2>1, <2>2, <2>3, <2>4 DEF Reserve
<1>4. ASSUME NEW c \in Calls, RefundDenied(c) PROVE TypeOK'
  <2>1. /\ spend' \in [Days -> Int]
        /\ gave' \in [Calls -> Days \cup {NoDay}]
    BY <1>4, GiveTypes DEF RefundDenied
  <2> QED
    <3>1. pc' \in [Calls -> Running \cup {"idle", "denied", "done", "dead"}]
      BY <1>4 DEF RefundDenied
    <3>2. faults' \in 0 .. MaxFaults
      BY <1>4 DEF RefundDenied
    <3>3. \A q \in Calls : pc'[q] \in {"reserve", "breach", "over"} => capSeen'[q] # 0
      BY <1>4 DEF RefundDenied
    <3> QED
      BY <1>4, <2>1, <3>1, <3>2, <3>3 DEF RefundDenied
<1>5. ASSUME NEW c \in Calls, SuspendUser(c) PROVE TypeOK'
  BY <1>0, <1>5 DEF SuspendUser
<1>6. ASSUME NEW c \in Calls, Detect(c) PROVE TypeOK'
  BY <1>6 DEF Detect
<1>7. ASSUME NEW c \in Calls, Generate(c) PROVE TypeOK'
  BY <1>7 DEF Generate
<1>8. ASSUME NEW c \in Calls, Record(c) PROVE TypeOK'
  <2>1. /\ spend' \in [Days -> Int]
        /\ booked' \in [Days -> Nat] /\ ungated' \in [Days -> Nat]
    BY <1>8, BookedTypes DEF Record
  <2> QED
    BY <1>8, <2>1 DEF Record
<1>9. ASSUME NEW c \in Calls, Release(c) PROVE TypeOK'
  <2>1. /\ spend' \in [Days -> Int]
        /\ gave' \in [Calls -> Days \cup {NoDay}]
    BY <1>9, GiveTypes DEF Release
  <2> QED
    <3>1. pc' \in [Calls -> Running \cup {"idle", "denied", "done", "dead"}]
      BY <1>9 DEF Release
    <3>2. faults' \in 0 .. MaxFaults /\ reserved' \in [Calls -> BOOLEAN]
      BY <1>9 DEF Release
    <3>3. \A q \in Calls : pc'[q] \in {"reserve", "breach", "over"} => capSeen'[q] # 0
      BY <1>9 DEF Release
    <3> QED
      BY <1>9, <2>1, <3>1, <3>2, <3>3 DEF Release
<1>10. CASE Lapse
  BY <1>10 DEF Lapse
<1>11. CASE NewDay
  <2>1. day' \in Days
    BY <1>11 DEF NewDay, Days
  <2> QED
    BY <1>11, <2>1 DEF NewDay
<1>12. CASE SetCap
  BY <1>12 DEF SetCap
<1>13. CASE Crash
  BY <1>13 DEF Crash
<1>14. CASE UNCHANGED vars
  BY <1>14 DEF vars
<1> QED
  BY <1>1, <1>2, <1>3, <1>4, <1>5, <1>6, <1>7, <1>8, <1>9, <1>10, <1>11, <1>12, <1>13, <1>14
     DEF Next, Check, Call

THEOREM TypeCorrect == Spec => []TypeOK
  BY TypeInit, TypeStep, PTL DEF Spec

-----------------------------------------------------------------------------
(***************************************************************************)
(* Each call takes its estimate at most once and gives it back at most     *)
(* once, only after it took it.                                            *)
(***************************************************************************)
LEMMA OwesStep ==
  ASSUME TypeOK, \A c \in Calls : Owes(c), [Next]_vars
  PROVE  \A c \in Calls : Owes(c)'
<1> SUFFICES ASSUME NEW q \in Calls PROVE Owes(q)'
  OBVIOUS
<1> USE BudgetAssumption DEF TypeOK, Goto, Works, Fault, Owes, history, codeVars
<1>0. day # NoDay
  BY DEF Days, NoDay
<1>1. ASSUME NEW c \in Calls, CheckSuspended(c) PROVE Owes(q)'
  BY <1>1 DEF CheckSuspended
<1>2. ASSUME NEW c \in Calls, ReadCap(c) PROVE Owes(q)'
  BY <1>2 DEF ReadCap
<1>3. ASSUME NEW c \in Calls, Reserve(c) PROVE Owes(q)'
  BY <1>0, <1>3 DEF Reserve, Decide, TakeEstimate, Verdict
<1>4. ASSUME NEW c \in Calls, RefundDenied(c) PROVE Owes(q)'
  BY <1>0, <1>4 DEF RefundDenied, GiveEstimate
<1>5. ASSUME NEW c \in Calls, SuspendUser(c) PROVE Owes(q)'
  BY <1>5 DEF SuspendUser
<1>6. ASSUME NEW c \in Calls, Detect(c) PROVE Owes(q)'
  BY <1>6 DEF Detect
<1>7. ASSUME NEW c \in Calls, Generate(c) PROVE Owes(q)'
  BY <1>7 DEF Generate
<1>8. ASSUME NEW c \in Calls, Record(c) PROVE Owes(q)'
  BY <1>8 DEF Record
<1>9. ASSUME NEW c \in Calls, Release(c) PROVE Owes(q)'
  BY <1>0, <1>9 DEF Release, GiveEstimate
<1>10. CASE Lapse \/ NewDay \/ SetCap
  BY <1>10 DEF Lapse, NewDay, SetCap
<1>11. CASE Crash
  BY <1>11 DEF Crash, InFlight, Running
<1>12. CASE UNCHANGED vars
  BY <1>12 DEF vars
<1> QED
  BY <1>1, <1>2, <1>3, <1>4, <1>5, <1>6, <1>7, <1>8, <1>9, <1>10, <1>11, <1>12
     DEF Next, Check, Call

-----------------------------------------------------------------------------
(* Sizes of sets of calls, and the arithmetic of counting estimates. *)

LEMMA CallSet ==
  ASSUME NEW S, S \subseteq Calls
  PROVE  IsFiniteSet(S) /\ Cardinality(S) \in Nat
  BY CallsFinite, FS_Subset, FS_CardinalityType

LEMMA MoreCalls ==
  ASSUME NEW S, NEW T, S \subseteq T, T \subseteq Calls
  PROVE  Estimate * Cardinality(S) <= Estimate * Cardinality(T)
<1>1. Cardinality(S) <= Cardinality(T) /\ Cardinality(S) \in Nat /\ Cardinality(T) \in Nat
  BY CallSet, FS_Subset
<1>2. \A e, m, n \in Nat : m <= n => e * m <= e * n
  OBVIOUS
<1> QED
  BY <1>1, <1>2, BudgetAssumption

LEMMA OneMoreCall ==
  ASSUME NEW S, S \subseteq Calls, NEW c \in Calls, c \notin S
  PROVE  Estimate * Cardinality(S \cup {c}) = Estimate * Cardinality(S) + Estimate
<1>1. Cardinality(S \cup {c}) = Cardinality(S) + 1 /\ Cardinality(S) \in Nat
  BY CallSet, FS_AddElement
<1>2. \A e, n \in Nat : e * (n + 1) = e * n + e
  OBVIOUS
<1> QED
  BY <1>1, <1>2, BudgetAssumption

LEMMA Weight ==
  ASSUME NEW S, S \subseteq Calls
  PROVE  Estimate * Cardinality(S) \in Nat
<1>1. \A e, n \in Nat : e * n \in Nat
  OBVIOUS
<1> QED
  BY <1>1, CallSet, BudgetAssumption

LEMMA TwoSets ==
  ASSUME NEW S, NEW T, NEW U, S \cup T = U, S \cap T = {}, U \subseteq Calls
  PROVE  Estimate * Cardinality(U) = Estimate * Cardinality(S) + Estimate * Cardinality(T)
<1>1. Cardinality(U) = Cardinality(S) + Cardinality(T)
  <2>1. IsFiniteSet(S) /\ IsFiniteSet(T) /\ IsFiniteSet({})
    BY CallSet, FS_EmptySet
  <2>2. Cardinality(S \cup T) = Cardinality(S) + Cardinality(T) - Cardinality(S \cap T)
    BY <2>1, FS_Union
  <2>3. Cardinality(S) \in Nat /\ Cardinality(T) \in Nat /\ Cardinality({}) = 0
    BY CallSet, FS_EmptySet
  <2>4. Cardinality(S \cup T) = Cardinality(U) /\ Cardinality(S \cap T) = Cardinality({})
    BY Zenon
  <2> QED
    BY <2>2, <2>3, <2>4
<1>2. Cardinality(S) \in Nat /\ Cardinality(T) \in Nat
  BY CallSet
<1>3. \A e, m, n \in Nat : e * (m + n) = e * m + e * n
  OBVIOUS
<1> QED
  BY <1>1, <1>2, <1>3, BudgetAssumption

-----------------------------------------------------------------------------
(***************************************************************************)
(* Every counter is the booked cost plus the estimates it took less those  *)
(* it gave back.                                                           *)
(***************************************************************************)
LEMMA LedgerTake ==
  ASSUME TypeOK, Ledger, NEW c \in Calls, took[c] = NoDay, TakeEstimate(c),
         UNCHANGED <<gave, booked>>
  PROVE  Ledger'
<1> SUFFICES ASSUME NEW d \in Days PROVE Balanced(d)'
  BY DEF Ledger
<1> USE BudgetAssumption
<1>1. Gave(d)' = Gave(d)
  BY DEF Gave
<1>2. spend[d] \in Int /\ booked[d] \in Nat
  BY DEF TypeOK
<1>3. /\ Estimate * Cardinality(Gave(d)) \in Nat
      /\ Estimate * Cardinality(Took(d)) \in Nat
  BY Weight DEF Gave, Took
<1>4. spend[d] = booked[d] + Estimate * Cardinality(Took(d)) - Estimate * Cardinality(Gave(d))
  BY DEF Ledger, Balanced
<1>5. CASE d = day
  <2>1. c \notin Took(d)
    BY DEF Took, Days, NoDay
  <2>2. Took(d)' = Took(d) \cup {c}
    BY <1>5 DEF Took, TakeEstimate, TypeOK
  <2>3. Estimate * Cardinality(Took(d) \cup {c}) = Estimate * Cardinality(Took(d)) + Estimate
    BY <2>1, OneMoreCall DEF Took
  <2>4. spend'[d] = spend[d] + Estimate
    BY <1>5 DEF TakeEstimate, AddToSpend, TypeOK
  <2> QED
    BY <1>1, <1>2, <1>3, <1>4, <2>2, <2>3, <2>4 DEF Balanced
<1>6. CASE d # day
  <2>1. Took(d)' = Took(d)
    BY <1>6 DEF Took, TakeEstimate, TypeOK, Days, NoDay
  <2>2. spend'[d] = spend[d]
    BY <1>6 DEF TakeEstimate, AddToSpend, TypeOK
  <2> QED
    BY <1>1, <1>4, <2>1, <2>2 DEF Balanced
<1> QED
  BY <1>5, <1>6

LEMMA LedgerGive ==
  ASSUME TypeOK, Ledger, NEW c \in Calls, gave[c] = NoDay, GiveEstimate(c),
         UNCHANGED <<took, booked>>
  PROVE  Ledger'
<1> SUFFICES ASSUME NEW d \in Days PROVE Balanced(d)'
  BY DEF Ledger
<1> USE BudgetAssumption
<1>1. Took(d)' = Took(d)
  BY DEF Took
<1>2. spend[d] \in Int /\ booked[d] \in Nat
  BY DEF TypeOK
<1>3. /\ Estimate * Cardinality(Gave(d)) \in Nat
      /\ Estimate * Cardinality(Took(d)) \in Nat
  BY Weight DEF Gave, Took
<1>4. spend[d] = booked[d] + Estimate * Cardinality(Took(d)) - Estimate * Cardinality(Gave(d))
  BY DEF Ledger, Balanced
<1>5. CASE d = day
  <2>1. c \notin Gave(d)
    BY DEF Gave, Days, NoDay
  <2>2. Gave(d)' = Gave(d) \cup {c}
    BY <1>5 DEF Gave, GiveEstimate, TypeOK
  <2>3. Estimate * Cardinality(Gave(d) \cup {c}) = Estimate * Cardinality(Gave(d)) + Estimate
    BY <2>1, OneMoreCall DEF Gave
  <2>4. spend'[d] = spend[d] - Estimate
    BY <1>5 DEF GiveEstimate, AddToSpend, TypeOK
  <2> QED
    BY <1>1, <1>2, <1>3, <1>4, <2>2, <2>3, <2>4 DEF Balanced
<1>6. CASE d # day
  <2>1. Gave(d)' = Gave(d)
    BY <1>6 DEF Gave, GiveEstimate, TypeOK, Days, NoDay
  <2>2. spend'[d] = spend[d]
    BY <1>6 DEF GiveEstimate, AddToSpend, TypeOK
  <2> QED
    BY <1>1, <1>4, <2>1, <2>2 DEF Balanced
<1> QED
  BY <1>5, <1>6

LEMMA LedgerBook ==
  ASSUME TypeOK, Ledger, NEW c \in Calls, Booked(c), UNCHANGED <<took, gave>>
  PROVE  Ledger'
<1> SUFFICES ASSUME NEW d \in Days PROVE Balanced(d)'
  BY DEF Ledger
<1>1. Took(d)' = Took(d) /\ Gave(d)' = Gave(d)
  BY DEF Took, Gave
<1>2. spend[d] \in Int /\ booked[d] \in Nat
  BY DEF TypeOK
<1>3. /\ Estimate * Cardinality(Gave(d)) \in Nat
      /\ Estimate * Cardinality(Took(d)) \in Nat
  BY Weight DEF Gave, Took
<1>4. spend[d] = booked[d] + Estimate * Cardinality(Took(d)) - Estimate * Cardinality(Gave(d))
  BY DEF Ledger, Balanced
<1>5. cost[c] \in Nat
  BY CostIsNat
<1>6. \/ spend'[d] = spend[d] + cost[c] /\ booked'[d] = booked[d] + cost[c]
      \/ spend'[d] = spend[d] /\ booked'[d] = booked[d]
  BY DEF Booked, AddToSpend, TypeOK
<1> QED
  BY <1>1, <1>2, <1>3, <1>4, <1>5, <1>6 DEF Balanced

LEMMA LedgerSame ==
  ASSUME Ledger, UNCHANGED <<spend, booked, took, gave>>
  PROVE  Ledger'
  BY DEF Ledger, Balanced, Took, Gave

LEMMA LedgerStep ==
  ASSUME TypeOK, \A c \in Calls : Owes(c), Ledger, [Next]_vars
  PROVE  Ledger'
<1> USE DEF history, codeVars
<1>1. ASSUME NEW c \in Calls, Reserve(c) PROVE Ledger'
  <2>1. took[c] = NoDay
    BY <1>1 DEF Reserve, Owes
  <2> QED
    BY <1>1, <2>1, LedgerTake, LedgerSame DEF Reserve
<1>2. ASSUME NEW c \in Calls, RefundDenied(c) PROVE Ledger'
  <2>1. gave[c] = NoDay
    BY <1>2 DEF RefundDenied, Owes
  <2> QED
    BY <1>2, <2>1, LedgerGive, LedgerSame DEF RefundDenied
<1>3. ASSUME NEW c \in Calls, Release(c) PROVE Ledger'
  <2>1. reserved[c] => gave[c] = NoDay
    BY <1>3 DEF Release, Owes
  <2> QED
    BY <1>3, <2>1, LedgerGive, LedgerSame DEF Release
<1>4. ASSUME NEW c \in Calls, Record(c) PROVE Ledger'
  BY <1>4, LedgerBook, LedgerSame DEF Record
<1>5. ASSUME NEW c \in Calls,
             CheckSuspended(c) \/ ReadCap(c) \/ SuspendUser(c) \/ Detect(c) \/ Generate(c)
      PROVE  Ledger'
  BY <1>5, LedgerSame DEF CheckSuspended, ReadCap, SuspendUser, Detect, Generate
<1>6. CASE Lapse \/ NewDay \/ SetCap \/ Crash
  BY <1>6, LedgerSame DEF Lapse, NewDay, SetCap, Crash
<1>7. CASE UNCHANGED vars
  BY <1>7, LedgerSame DEF vars
<1> QED
  BY <1>1, <1>2, <1>3, <1>4, <1>5, <1>6, <1>7 DEF Next, Check, Call

-----------------------------------------------------------------------------
(***************************************************************************)
(* The gate.  A call is admitted when the counter, its own estimate        *)
(* included, is within the cap; whatever happens next, the booked cost and *)
(* the estimates of the admitted calls stay covered.                       *)
(***************************************************************************)
LEMMA ExposureShrinks ==
  ASSUME TypeOK, Exposure, UNCHANGED <<booked, ungated>>,
         \A d \in Days : Active(d)' \subseteq Active(d) /\ Crossers(d) \subseteq Crossers(d)'
  PROVE  Exposure'
<1> SUFFICES ASSUME NEW d \in Days PROVE Covered(d)'
  BY DEF Exposure
<1>1. /\ Estimate * Cardinality(Active(d)') <= Estimate * Cardinality(Active(d))
      /\ Estimate * Cardinality(Crossers(d)) <= Estimate * Cardinality(Crossers(d)')
  <2>1. Active(d) \subseteq Calls /\ Crossers(d)' \subseteq Calls
    BY DEF Active, Crossers
  <2> QED
    BY <2>1, MoreCalls
<1>2. /\ Estimate * Cardinality(Active(d)) \in Nat /\ Estimate * Cardinality(Active(d)') \in Nat
      /\ Estimate * Cardinality(Crossers(d)) \in Nat
      /\ Estimate * Cardinality(Crossers(d)') \in Nat
  BY Weight DEF Active, Crossers
<1>3. booked[d] + Estimate * Cardinality(Active(d))
        <= MaxCap + ungated[d] + Estimate * Cardinality(Crossers(d))
  BY DEF Exposure, Covered
<1>4. booked'[d] = booked[d] /\ ungated'[d] = ungated[d] /\ booked[d] \in Nat /\ ungated[d] \in Nat
  BY DEF TypeOK
<1>5. MaxCap \in Nat
  BY BudgetAssumption
<1> QED
  BY <1>1, <1>2, <1>3, <1>4, <1>5 DEF Covered

\* While a counter is within the cap, so is what is booked and admitted.
Gated == \A d \in Days : spend[d] <= MaxCap => Covered(d)

LEMMA GateCovers == TypeOK /\ (\A c \in Calls : Owes(c)) /\ Ledger => Gated
<1> SUFFICES ASSUME TypeOK, \A c \in Calls : Owes(c), Ledger,
                    NEW d \in Days, spend[d] <= MaxCap
             PROVE  Covered(d)
  BY DEF Gated
<1> DEFINE Stay == Took(d) \cap Gave(d)
<1>1. Active(d) \cup Stay \subseteq Took(d) /\ Active(d) \cap Stay = {}
  BY DEF Active, Took, Gave, Owes, Days, NoDay
<1>2. Stay \cup Crossers(d) = Gave(d) /\ Stay \cap Crossers(d) = {}
  BY DEF Took, Gave, Crossers, Owes, Days, NoDay
<1>3. Took(d) \subseteq Calls /\ Gave(d) \subseteq Calls /\ Active(d) \subseteq Calls
  BY DEF Took, Gave, Active
<1>4. Estimate * Cardinality(Active(d)) + Estimate * Cardinality(Stay)
        <= Estimate * Cardinality(Took(d))
  <2>1. Estimate * Cardinality(Active(d) \cup Stay)
          = Estimate * Cardinality(Active(d)) + Estimate * Cardinality(Stay)
    BY <1>1, <1>3, TwoSets
  <2>2. Estimate * Cardinality(Active(d) \cup Stay) <= Estimate * Cardinality(Took(d))
    BY <1>1, <1>3, MoreCalls
  <2> QED
    BY <2>1, <2>2
<1>5. Estimate * Cardinality(Gave(d))
        = Estimate * Cardinality(Stay) + Estimate * Cardinality(Crossers(d))
  BY <1>2, <1>3, TwoSets
<1>6. spend[d] = booked[d] + Estimate * Cardinality(Took(d)) - Estimate * Cardinality(Gave(d))
  BY DEF Ledger, Balanced
<1>7. /\ Estimate * Cardinality(Active(d)) \in Nat /\ Estimate * Cardinality(Stay) \in Nat
      /\ Estimate * Cardinality(Took(d)) \in Nat /\ Estimate * Cardinality(Gave(d)) \in Nat
      /\ Estimate * Cardinality(Crossers(d)) \in Nat
  BY <1>3, Weight DEF Crossers
<1>8. spend[d] \in Int /\ booked[d] \in Nat /\ ungated[d] \in Nat /\ MaxCap \in Nat
  BY BudgetAssumption DEF TypeOK
<1> HIDE DEF Stay
<1> QED
  BY <1>4, <1>5, <1>6, <1>7, <1>8 DEF Covered

LEMMA GateCoversNext == (TypeOK /\ (\A c \in Calls : Owes(c)) /\ Ledger)' => Gated'
  BY GateCovers, PTL

LEMMA ExposureAdmits ==
  ASSUME TypeOK, \A c \in Calls : Owes(c), Ledger, Exposure, Gated',
         NEW c \in Calls, pc[c] = "reserve", TakeEstimate(c),
         Decide(c, Verdict(spend[day] + Estimate, capSeen[c])),
         UNCHANGED <<day, gave, booked, ungated>>
  PROVE  Exposure'
<1>1. gave[c] = NoDay /\ took[c] = NoDay /\ ~reserved[c]
  BY DEF Owes
<1>2. \A d \in Days : Crossers(d) \subseteq Crossers(d)'
  BY <1>1 DEF Crossers, TakeEstimate, TypeOK, Days, NoDay
<1>3. CASE Verdict(spend[day] + Estimate, capSeen[c]) = "generate"
  <2>1. spend'[day] = spend[day] + Estimate /\ day \in Days
    BY DEF TakeEstimate, AddToSpend, TypeOK
  <2>2. capSeen[c] \in Nat /\ capSeen[c] <= MaxCap /\ MaxCap \in Nat
    <3>1. capSeen[c] \in Caps
      BY DEF TypeOK
    <3>2. MaxCap \in Nat /\ \A x \in Caps : x \in 0 .. MaxCap
      BY BudgetAssumption
    <3>3. capSeen[c] \in 0 .. MaxCap
      BY <3>1, <3>2, Zenon
    <3> QED
      BY <3>2, <3>3
  <2>3. spend[day] \in Int /\ Estimate \in Nat
    BY BudgetAssumption DEF TypeOK
  <2>4. spend'[day] <= MaxCap
    BY <1>3, <2>1, <2>2, <2>3 DEF Verdict
  <2>5. Covered(day)'
    BY <2>1, <2>4 DEF Gated
  <2>6. ASSUME NEW d \in Days, d # day PROVE Covered(d)'
    <3>1. Active(d)' = Active(d)
      BY <1>1, <2>6 DEF Active, Decide, Goto, TakeEstimate, TypeOK, Days, NoDay
    <3>2. Crossers(d)' = Crossers(d)
      BY <1>1, <2>6 DEF Crossers, TakeEstimate, TypeOK, Days, NoDay
    <3> QED
      BY <3>1, <3>2 DEF Exposure, Covered
  <2> QED
    BY <2>5, <2>6 DEF Exposure
<1>4. CASE Verdict(spend[day] + Estimate, capSeen[c]) # "generate"
  <2>1. \A d \in Days : Active(d)' \subseteq Active(d)
    BY <1>1, <1>4 DEF Active, Decide, Goto, TakeEstimate, TypeOK, Verdict
  <2> QED
    BY <1>2, <2>1, ExposureShrinks
<1> QED
  BY <1>3, <1>4

LEMMA ExposureBooks ==
  ASSUME TypeOK, \A c \in Calls : Owes(c), Exposure,
         NEW c \in Calls, pc[c] = "record", Goto(c, "release"), Booked(c),
         UNCHANGED <<day, reserved, took, gave>>
  PROVE  Exposure'
<1> SUFFICES ASSUME NEW d \in Days PROVE Covered(d)'
  BY DEF Exposure
<1>1. Crossers(d)' = Crossers(d)
  BY DEF Crossers
<1>2. Active(d)' = Active(d) \ {c}
  BY DEF Active, Goto, TypeOK
<1>3. booked[d] + Estimate * Cardinality(Active(d))
        <= MaxCap + ungated[d] + Estimate * Cardinality(Crossers(d))
  BY DEF Exposure, Covered
<1>4. /\ Active(d) \subseteq Calls /\ Active(d) \ {c} \subseteq Calls
      /\ Estimate * Cardinality(Active(d)) \in Nat
      /\ Estimate * Cardinality(Active(d) \ {c}) \in Nat
      /\ Estimate * Cardinality(Crossers(d)) \in Nat
  BY Weight DEF Active, Crossers
<1>5. Estimate * Cardinality(Active(d) \ {c}) <= Estimate * Cardinality(Active(d))
  BY <1>4, MoreCalls
<1>6. /\ booked[d] \in Nat /\ ungated[d] \in Nat /\ cost[c] \in Nat
      /\ MaxCap \in Nat /\ Estimate \in Nat
  BY CostIsNat, BudgetAssumption DEF TypeOK
<1>7. CASE d = day
  <2>1. booked'[d] = booked[d] + cost[c] /\ ungated'[d] = ungated[d] + Uncovered(c)
    BY <1>7 DEF Booked, TypeOK
  <2>2. CASE reserved[c] /\ took[c] = day
    <3>1. c \in Active(d)
      BY <1>7, <2>2 DEF Active
    <3>2. Estimate * Cardinality(Active(d)) = Estimate * Cardinality(Active(d) \ {c}) + Estimate
      <4>1. (Active(d) \ {c}) \cup {c} = Active(d)
        BY <3>1
      <4> QED
        BY <1>4, <4>1, OneMoreCall
    <3>3. Uncovered(c) \in Nat /\ cost[c] <= Estimate + Uncovered(c)
      BY <1>6, <2>2 DEF Uncovered
    <3> QED
      BY <1>1, <1>2, <1>3, <1>4, <1>6, <2>1, <3>2, <3>3 DEF Covered
  <2>3. CASE ~(reserved[c] /\ took[c] = day)
    <3>1. Uncovered(c) = cost[c]
      BY <2>3 DEF Uncovered
    <3> QED
      BY <1>1, <1>2, <1>3, <1>4, <1>5, <1>6, <2>1, <3>1 DEF Covered
  <2> QED
    BY <2>2, <2>3
<1>8. CASE d # day
  <2>1. booked'[d] = booked[d] /\ ungated'[d] = ungated[d]
    BY <1>8 DEF Booked, TypeOK
  <2> QED
    BY <1>1, <1>2, <1>3, <1>4, <1>5, <1>6, <2>1 DEF Covered
<1> QED
  BY <1>7, <1>8

LEMMA ExposureStep ==
  ASSUME TypeOK, \A c \in Calls : Owes(c), Ledger, Exposure, [Next]_vars,
         TypeOK', (\A c \in Calls : Owes(c))', Ledger'
  PROVE  Exposure'
<1> USE DEF history, codeVars
<1>0. Gated'
  BY GateCoversNext
<1>1. ASSUME NEW c \in Calls, Reserve(c) PROVE Exposure'
  <2>1. took[c] = NoDay /\ gave[c] = NoDay /\ ~reserved[c]
    BY <1>1 DEF Reserve, Owes
  <2>2. CASE TakeEstimate(c) /\ Decide(c, Verdict(spend[day] + Estimate, capSeen[c]))
    BY <1>0, <1>1, <2>2, ExposureAdmits DEF Reserve
  <2>3. CASE Goto(c, "generate") /\ UNCHANGED reserved
    <3>1. \A d \in Days : Active(d)' \subseteq Active(d) /\ Crossers(d) \subseteq Crossers(d)'
      BY <1>1, <2>1, <2>3 DEF Reserve, Active, Crossers, TakeEstimate, Goto, TypeOK, Days, NoDay
    <3> QED
      BY <1>1, <3>1, ExposureShrinks DEF Reserve
  <2> QED
    BY <1>1, <2>2, <2>3 DEF Reserve
<1>2. ASSUME NEW c \in Calls, RefundDenied(c) PROVE Exposure'
  <2>1. gave[c] = NoDay
    BY <1>2 DEF RefundDenied, Owes
  <2>2. \A d \in Days : Active(d)' \subseteq Active(d) /\ Crossers(d) \subseteq Crossers(d)'
    <3>1. \A q \in Calls : gave'[q] = gave[q] \/ q = c
      BY <1>2 DEF RefundDenied, GiveEstimate, TypeOK
    <3>2. \A d \in Days : Crossers(d) \subseteq Crossers(d)'
      BY <1>2, <2>1, <3>1 DEF RefundDenied, Crossers, Days, NoDay
    <3>3. \A q \in Calls : pc'[q] \in {"generate", "record"} => pc[q] \in {"generate", "record"}
      BY <1>2 DEF RefundDenied, Goto, TypeOK
    <3>4. \A d \in Days : Active(d)' \subseteq Active(d)
      BY <1>2, <3>3 DEF RefundDenied, Active
    <3> QED
      BY <3>2, <3>4
  <2> QED
    BY <1>2, <2>2, ExposureShrinks DEF RefundDenied
<1>3. ASSUME NEW c \in Calls, Release(c) PROVE Exposure'
  <2>1. reserved[c] => gave[c] = NoDay
    BY <1>3 DEF Release, Owes
  <2>2. \A d \in Days : Active(d)' \subseteq Active(d) /\ Crossers(d) \subseteq Crossers(d)'
    BY <1>3, <2>1 DEF Release, Active, Crossers, GiveEstimate, Goto, TypeOK, Days, NoDay
  <2> QED
    BY <1>3, <2>2, ExposureShrinks DEF Release
<1>4. ASSUME NEW c \in Calls, Record(c) PROVE Exposure'
  <2>1. CASE Booked(c)
    BY <1>4, <2>1, ExposureBooks DEF Record
  <2>2. CASE UNCHANGED <<spend, booked, ungated>>
    <3>1. \A d \in Days : Active(d)' \subseteq Active(d) /\ Crossers(d) \subseteq Crossers(d)'
      BY <1>4 DEF Record, Active, Crossers, Goto, TypeOK
    <3> QED
      BY <2>2, <3>1, ExposureShrinks
  <2> QED
    BY <1>4, <2>1, <2>2 DEF Record
<1>5. ASSUME NEW c \in Calls, CheckSuspended(c) \/ ReadCap(c) \/ SuspendUser(c) \/ Detect(c) \/ Generate(c)
      PROVE  Exposure'
  <2>1. \A d \in Days : Active(d)' \subseteq Active(d) /\ Crossers(d) \subseteq Crossers(d)'
    BY <1>5 DEF CheckSuspended, ReadCap, SuspendUser, Detect, Generate, Active, Crossers, Goto,
                TypeOK, Owes
  <2> QED
    BY <1>5, <2>1, ExposureShrinks DEF CheckSuspended, ReadCap, SuspendUser, Detect, Generate
<1>6. CASE Lapse \/ NewDay \/ SetCap \/ Crash \/ UNCHANGED vars
  <2>1. \A d \in Days : Active(d)' \subseteq Active(d) /\ Crossers(d) \subseteq Crossers(d)'
    BY <1>6 DEF Lapse, NewDay, SetCap, Crash, Active, Crossers, TypeOK, vars
  <2> QED
    BY <1>6, <2>1, ExposureShrinks DEF Lapse, NewDay, SetCap, Crash, vars
<1> QED
  BY <1>1, <1>2, <1>3, <1>4, <1>5, <1>6 DEF Next, Check, Call

-----------------------------------------------------------------------------
(***************************************************************************)
(* The inductive invariant, and what follows from it.                      *)
(***************************************************************************)
LEMMA IInvInit == Init => IInv
<1> SUFFICES ASSUME Init PROVE IInv
  OBVIOUS
<1>1. TypeOK
  BY TypeInit
<1>2. \A c \in Calls : Owes(c)
  BY DEF Init, Owes
<1>3. \A d \in Days : Took(d) = {} /\ Gave(d) = {} /\ Active(d) = {} /\ Crossers(d) = {}
  BY DEF Init, Took, Gave, Active, Crossers, Days, NoDay
<1>4. Estimate * Cardinality({}) = 0
  BY FS_EmptySet, BudgetAssumption
<1>5. Ledger
  BY <1>3, <1>4 DEF Init, Ledger, Balanced
<1>6. Exposure
  BY <1>3, <1>4, BudgetAssumption DEF Init, Exposure, Covered
<1> QED
  BY <1>1, <1>2, <1>5, <1>6 DEF IInv

LEMMA IInvStep == IInv /\ [Next]_vars => IInv'
<1> SUFFICES ASSUME IInv, [Next]_vars PROVE IInv'
  OBVIOUS
<1>1. TypeOK' /\ (\A c \in Calls : Owes(c))' /\ Ledger'
  BY TypeStep, OwesStep, LedgerStep DEF IInv
<1> QED
  BY <1>1, ExposureStep DEF IInv

LEMMA IInvAlways == Spec => []IInv
  BY IInvInit, IInvStep, PTL DEF Spec

(***************************************************************************)
(* Whatever fails or dies, a counter is below what was booked on it only   *)
(* by estimates handed back across a midnight.                             *)
(***************************************************************************)
THEOREM CountersFailSafe == Spec => []FailsSafe
<1>1. ASSUME IInv, NEW d \in Days
      PROVE  spend[d] + Estimate * Cardinality(Crossers(d)) >= booked[d]
  <2>1. Gave(d) \ Crossers(d) \subseteq Took(d) /\ Took(d) \subseteq Calls
    BY <1>1 DEF IInv, Owes, Gave, Took, Crossers, Days, NoDay
  <2>2. Estimate * Cardinality(Gave(d) \ Crossers(d)) <= Estimate * Cardinality(Took(d))
    BY <2>1, MoreCalls
  <2>3. Estimate * Cardinality(Gave(d))
          = Estimate * Cardinality(Gave(d) \ Crossers(d)) + Estimate * Cardinality(Crossers(d))
    <3>1. /\ (Gave(d) \ Crossers(d)) \cup Crossers(d) = Gave(d)
          /\ (Gave(d) \ Crossers(d)) \cap Crossers(d) = {}
          /\ Gave(d) \subseteq Calls
      BY DEF Gave, Crossers
    <3> QED
      BY <3>1, TwoSets
  <2>4. spend[d] = booked[d] + Estimate * Cardinality(Took(d)) - Estimate * Cardinality(Gave(d))
    BY <1>1 DEF IInv, Ledger, Balanced
  <2>5. /\ Estimate * Cardinality(Took(d)) \in Nat /\ Estimate * Cardinality(Gave(d)) \in Nat
        /\ Estimate * Cardinality(Crossers(d)) \in Nat
        /\ Estimate * Cardinality(Gave(d) \ Crossers(d)) \in Nat
    BY Weight DEF Took, Gave, Crossers
  <2>6. spend[d] \in Int /\ booked[d] \in Nat
    BY <1>1 DEF IInv, TypeOK
  <2> QED
    BY <2>2, <2>3, <2>4, <2>5, <2>6
<1>2. IInv => FailsSafe
  BY <1>1 DEF FailsSafe
<1> QED
  BY <1>2, IInvAlways, PTL

(***************************************************************************)
(* The gate holds under every interleaving: the booked cost of a day       *)
(* exceeds the cap only by uncovered spend and by midnight crossings.      *)
(***************************************************************************)
THEOREM GateBoundsSpend == Spec => []OverspendBounded
<1>1. ASSUME IInv, NEW d \in Days
      PROVE  booked[d] <= MaxCap + ungated[d] + Estimate * Cardinality(Crossers(d))
  <2>1. /\ Estimate * Cardinality(Active(d)) \in Nat
        /\ Estimate * Cardinality(Crossers(d)) \in Nat
    BY Weight DEF Active, Crossers
  <2>2. booked[d] \in Nat /\ ungated[d] \in Nat /\ MaxCap \in Nat
    BY <1>1, BudgetAssumption DEF IInv, TypeOK
  <2> QED
    BY <1>1, <2>1, <2>2 DEF IInv, Exposure, Covered
<1>2. IInv => OverspendBounded
  BY <1>1 DEF OverspendBounded
<1> QED
  BY <1>2, IInvAlways, PTL

(***************************************************************************)
(* Without faults every counter of a user at rest is the cost booked on    *)
(* it, up to the midnight crossings.                                       *)
(***************************************************************************)
THEOREM ReservationsNetOut == Spec => []NetsOut
<1>1. ASSUME IInv, faults = 0, \A c \in Calls : ~InFlight(c), NEW d \in Days
      PROVE  spend[d] + Estimate * Cardinality(Crossers(d))
               = booked[d] + Estimate * Cardinality(Leavers(d))
  <2> DEFINE Stay == Took(d) \cap Gave(d)
  <2>1. Stay \cup Crossers(d) = Gave(d) /\ Stay \cap Crossers(d) = {}
    BY <1>1 DEF IInv, Took, Gave, Crossers, Owes, Days, NoDay
  <2>2. Stay \cup Leavers(d) = Took(d) /\ Stay \cap Leavers(d) = {}
    BY <1>1 DEF IInv, Took, Gave, Leavers, Owes, InFlight, Running, Days, NoDay
  <2>3. Took(d) \subseteq Calls /\ Gave(d) \subseteq Calls
    BY DEF Took, Gave
  <2>4. /\ Estimate * Cardinality(Gave(d))
             = Estimate * Cardinality(Stay) + Estimate * Cardinality(Crossers(d))
        /\ Estimate * Cardinality(Took(d))
             = Estimate * Cardinality(Stay) + Estimate * Cardinality(Leavers(d))
    BY <2>1, <2>2, <2>3, TwoSets
  <2>5. /\ Estimate * Cardinality(Stay) \in Nat
        /\ Estimate * Cardinality(Crossers(d)) \in Nat
        /\ Estimate * Cardinality(Leavers(d)) \in Nat
    BY <2>3, Weight DEF Crossers, Leavers
  <2>6. spend[d] = booked[d] + Estimate * Cardinality(Took(d)) - Estimate * Cardinality(Gave(d))
    BY <1>1 DEF IInv, Ledger, Balanced
  <2>7. spend[d] \in Int /\ booked[d] \in Nat
    BY <1>1 DEF IInv, TypeOK
  <2> HIDE DEF Stay
  <2> QED
    BY <2>4, <2>5, <2>6, <2>7
<1>2. IInv => NetsOut
  BY <1>1 DEF NetsOut
<1> QED
  BY <1>2, IInvAlways, PTL
=============================================================================
