-------------------------- MODULE OutfitJobsProofs --------------------------
(***************************************************************************)
(* Theorems about OutfitJobs, for every set of requests, streams, keys and *)
(* pollers and every value of the thresholds that the assumptions allow.   *)
(***************************************************************************)
EXTENDS OutfitJobs, FiniteSetTheorems, TLAPS

(***************************************************************************)
(* The state is always well typed and a 202 always carries a job id.       *)
(***************************************************************************)
LEMMA TypeInit == Init => TypeOK
  BY NamesAssumption, TimesAssumption DEF Init, TypeOK, Idle

LEMMA SaveTypes ==
  ASSUME TypeOK, NEW j \in Requests, NEW s \in JobStatus, NEW a \in 0 .. MaxAge,
         NEW o, Save(j, s, a, o)
  PROVE  /\ status' \in [Requests -> JobStatus \cup {"absent", "reaped"}]
         /\ age' \in [Requests -> 0 .. MaxAge]
         /\ cached' \in [Requests -> JobStatus \cup {"none"}]
         /\ cttl' \in [Requests -> 0 .. RedisTTL]
  BY TimesAssumption DEF TypeOK, Save, rowVars, cacheVars

LEMMA TypeStep == TypeOK /\ [Next]_vars => TypeOK'
<1> SUFFICES ASSUME TypeOK, [Next]_vars PROVE TypeOK'
  OBVIOUS
<1> USE NamesAssumption, TimesAssumption DEF TypeOK, JobStatus, Terminal
<1> USE DEF vars, procVars, reqVars, slotVars, workVars, rowVars, cacheVars, idemVars
<1>1. ASSUME NEW r \in Requests, Replay(r) PROVE TypeOK'
  BY <1>1 DEF Replay
<1>2. ASSUME NEW r \in Requests, LookupMisses(r) PROVE TypeOK'
  BY <1>2 DEF LookupMisses
<1>3. ASSUME NEW r \in Requests, TakeSlot(r) PROVE TypeOK'
  BY <1>3 DEF TakeSlot, AcquireSlot
<1>4. ASSUME NEW r \in Requests, ServerBusy(r) PROVE TypeOK'
  BY <1>4 DEF ServerBusy
<1>5. ASSUME NEW r \in Requests, SavePending(r) PROVE TypeOK'
  <2>1. PICK o \in SaveOutcomes : Save(r, "pending", 0, o)
    BY <1>5 DEF SavePending
  <2>2. slots' \in Nat
    BY <1>5 DEF SavePending, ReleaseSlot
  <2> QED
    BY <1>5, <2>1, <2>2, SaveTypes DEF SavePending
<1>6. ASSUME NEW r \in Requests, BindAndLaunch(r) PROVE TypeOK'
  BY <1>6 DEF BindAndLaunch
<1>7. ASSUME NEW j \in Requests, WorkerStarts(j) PROVE TypeOK'
  <2>1. PICK o \in SaveOutcomes : Save(j, "processing", 0, o)
    BY <1>7 DEF WorkerStarts
  <2> QED
    BY <1>7, <2>1, SaveTypes DEF WorkerStarts
<1>8. ASSUME NEW j \in Requests, NEW v \in Terminal, NEW a \in {0, wage[j]},
             WorkerFinishes(j, v, a)
      PROVE  TypeOK'
  <2>1. PICK o \in WorkerOutcomes(j) : Save(j, v, a, o)
    BY <1>8 DEF WorkerFinishes
  <2>2. slots' \in Nat
    BY <1>8 DEF WorkerFinishes, ReleaseSlot
  <2> QED
    BY <1>8, <2>1, <2>2, SaveTypes DEF WorkerFinishes
<1>9. ASSUME NEW j \in Requests, SweepStale(j) PROVE TypeOK'
  BY <1>9 DEF SweepStale
<1>10. ASSUME NEW j \in Requests, Reap(j) PROVE TypeOK'
  BY <1>10 DEF Reap
<1>11. ASSUME NEW s \in Streams, StreamOpens(s) \/ StreamCloses(s) PROVE TypeOK'
  BY <1>11 DEF StreamOpens, StreamCloses, AcquireSlot, ReleaseSlot
<1>12. ASSUME NEW p \in Pollers, PollReadsMongo(p) PROVE TypeOK'
  BY <1>12 DEF PollReadsMongo, Idle
<1>13. ASSUME NEW p \in Pollers, PollRepopulates(p) PROVE TypeOK'
  <2>1. PICK j \in Requests, d \in JobStatus : poll[p] = [job |-> j, doc |-> d]
    BY <1>13 DEF PollRepopulates
  <2>2. /\ cached' \in [Requests -> JobStatus \cup {"none"}]
        /\ cttl' \in [Requests -> 0 .. RedisTTL]
    BY <1>13, <2>1 DEF PollRepopulates
  <2>3. poll' \in [Pollers -> [job : Requests, doc : JobStatus] \cup {Idle}]
    BY <1>13 DEF PollRepopulates
  <2> QED
    BY <1>13, <2>2, <2>3 DEF PollRepopulates
<1>14. CASE Crash
  <2>1. pc' \in [Requests -> {"idle", "acquire", "save", "launch", "accepted", "busy", "error"}]
    BY <1>14 DEF Crash
  <2>2. \A r \in Requests : pc'[r] = "accepted" => answer'[r] # NoJob
    BY <1>14 DEF Crash
  <2>3. worker' \in [Requests -> {"none", "starting", "generating", "exited", "killed"}]
    BY <1>14 DEF Crash
  <2>4. sse' \in [Streams -> {"idle", "streaming", "closed"}]
    BY <1>14 DEF Crash
  <2>5. crashes' \in 0 .. MaxCrashes
    BY <1>14 DEF Crash
  <2>6. poll' \in [Pollers -> [job : Requests, doc : JobStatus] \cup {Idle}]
    BY <1>14 DEF Crash
  <2> QED
    BY <1>14, <2>1, <2>2, <2>3, <2>4, <2>5, <2>6 DEF Crash
<1>15. CASE Boot
  BY <1>15 DEF Boot
<1>16. CASE RedisFlush
  BY <1>16 DEF RedisFlush
<1>17. CASE Tick
  BY <1>17 DEF Tick, Older, Less
<1>18. CASE UNCHANGED vars
  BY <1>18
<1> QED
  BY <1>1, <1>2, <1>3, <1>4, <1>5, <1>6, <1>7, <1>8, <1>9, <1>10, <1>11, <1>12,
     <1>13, <1>14, <1>15, <1>16, <1>17, <1>18
     DEF Next, Submit, Work, WorkerCompletes, WorkerFails, WorkerPanics

THEOREM TypeCorrect == Spec => []TypeOK
  BY TypeInit, TypeStep, PTL DEF Spec

-----------------------------------------------------------------------------
(***************************************************************************)
(* Progress is preserved: one step per action, for an arbitrary request q. *)
(***************************************************************************)
LEMMA ProgressStep ==
  ASSUME TypeOK, \A r \in Requests : Progress(r), [Next]_vars
  PROVE  \A r \in Requests : Progress(r)'
<1> SUFFICES ASSUME NEW q \in Requests PROVE Progress(q)'
  OBVIOUS
<1> USE TimesAssumption DEF TypeOK, JobStatus, Terminal, Progress, CtxLive
<1> USE DEF vars, procVars, reqVars, slotVars, workVars, rowVars, cacheVars, idemVars
<1>1. ASSUME NEW r \in Requests, Replay(r) PROVE Progress(q)'
  BY <1>1 DEF Replay
<1>2. ASSUME NEW r \in Requests, LookupMisses(r) PROVE Progress(q)'
  BY <1>2 DEF LookupMisses
<1>3. ASSUME NEW r \in Requests, TakeSlot(r) PROVE Progress(q)'
  BY <1>3 DEF TakeSlot
<1>4. ASSUME NEW r \in Requests, ServerBusy(r) PROVE Progress(q)'
  BY <1>4 DEF ServerBusy
<1>5. ASSUME NEW r \in Requests, SavePending(r) PROVE Progress(q)'
  BY <1>5 DEF SavePending, Save, SaveOutcomes, RedisOutcomes, Saved
<1>6. ASSUME NEW r \in Requests, BindAndLaunch(r) PROVE Progress(q)'
  BY <1>6 DEF BindAndLaunch
<1>7. ASSUME NEW j \in Requests, WorkerStarts(j) PROVE Progress(q)'
  BY <1>7 DEF WorkerStarts, Save
<1>8. ASSUME NEW j \in Requests, NEW v \in Terminal, NEW a \in {0, wage[j]},
             WorkerFinishes(j, v, a)
      PROVE  Progress(q)'
  BY <1>8 DEF WorkerFinishes, Save
<1>9. ASSUME NEW j \in Requests, SweepStale(j) PROVE Progress(q)'
  BY <1>9 DEF SweepStale, IsStale
<1>10. ASSUME NEW j \in Requests, Reap(j) PROVE Progress(q)'
  BY <1>10 DEF Reap, InFlight
<1>11. ASSUME NEW s \in Streams, StreamOpens(s) \/ StreamCloses(s) PROVE Progress(q)'
  BY <1>11 DEF StreamOpens, StreamCloses
<1>12. ASSUME NEW p \in Pollers, PollReadsMongo(p) \/ PollRepopulates(p)
       PROVE  Progress(q)'
  BY <1>12 DEF PollReadsMongo, PollRepopulates
<1>13. CASE Crash
  BY <1>13 DEF Crash
<1>14. CASE Boot
  BY <1>14 DEF Boot, IsStale
<1>15. CASE RedisFlush
  BY <1>15 DEF RedisFlush
<1>16. CASE Tick
  BY <1>16 DEF Tick, Older
<1>17. CASE UNCHANGED vars
  BY <1>17
<1> QED
  BY <1>1, <1>2, <1>3, <1>4, <1>5, <1>6, <1>7, <1>8, <1>9, <1>10, <1>11, <1>12,
     <1>13, <1>14, <1>15, <1>16, <1>17
     DEF Next, Submit, Work, WorkerCompletes, WorkerFails, WorkerPanics

(***************************************************************************)
(* The only way a row moves: along an edge of the abstract lifecycle.      *)
(***************************************************************************)
LEMMA SaveAdvances ==
  ASSUME TypeOK, NEW j \in Requests, NEW s \in JobStatus, NEW a, NEW o, Save(j, s, a, o),
         status[j] # s => <<status[j], s>> \in Lifecycle!Edge
  PROVE  \A q \in Requests :
           status'[q] # status[q] => <<status[q], status'[q]>> \in Lifecycle!Edge
  BY DEF TypeOK, Save, rowVars

LEMMA StepAdvances ==
  ASSUME TypeOK, \A r \in Requests : Progress(r), [Next]_vars
  PROVE  \A q \in Requests :
           status'[q] # status[q] => <<status[q], status'[q]>> \in Lifecycle!Edge
<1> DEFINE Goal == \A q \in Requests :
                     status'[q] # status[q] => <<status[q], status'[q]>> \in Lifecycle!Edge
<1> USE DEF rowVars
<1>1. ASSUME NEW r \in Requests, SavePending(r) PROVE Goal
  <2>1. status[r] = "absent"
    BY <1>1 DEF SavePending, Progress
  <2>2. PICK o \in SaveOutcomes : Save(r, "pending", 0, o)
    BY <1>1 DEF SavePending
  <2>3. <<status[r], "pending">> \in Lifecycle!Edge
    BY <2>1 DEF Lifecycle!Edge
  <2> QED
    BY <2>2, <2>3, SaveAdvances DEF JobStatus
<1>2. ASSUME NEW j \in Requests, WorkerStarts(j) PROVE Goal
  <2>1. status[j] = "pending"
    BY <1>2 DEF WorkerStarts, Progress
  <2>2. PICK o \in SaveOutcomes : Save(j, "processing", 0, o)
    BY <1>2 DEF WorkerStarts
  <2>3. <<status[j], "processing">> \in Lifecycle!Edge
    BY <2>1 DEF Lifecycle!Edge
  <2> QED
    BY <2>2, <2>3, SaveAdvances DEF JobStatus
<1>3. ASSUME NEW j \in Requests, NEW v \in Terminal, NEW a \in {0, wage[j]},
             WorkerFinishes(j, v, a)
      PROVE  Goal
  <2>1. PICK o \in WorkerOutcomes(j) : Save(j, v, a, o)
    BY <1>3 DEF WorkerFinishes
  <2>2. CASE CtxLive(j)
    <3>1. status[j] \in {"pending", "processing"}
      BY <1>3, <2>2 DEF WorkerFinishes, Progress
    <3>2. <<status[j], v>> \in Lifecycle!Edge
      BY <3>1 DEF Lifecycle!Edge, Terminal, Lifecycle!Terminal
    <3> QED
      BY <2>1, <3>2, SaveAdvances DEF JobStatus
  <2>3. CASE ~CtxLive(j)
    BY <2>1, <2>3 DEF WorkerOutcomes, Save
  <2> QED
    BY <2>2, <2>3
<1>4. ASSUME NEW j \in Requests, SweepStale(j) PROVE Goal
  BY <1>4 DEF SweepStale, IsStale, TypeOK, Lifecycle!Edge, Lifecycle!Terminal
<1>5. ASSUME NEW j \in Requests, Reap(j) PROVE Goal
  BY <1>5 DEF Reap, TypeOK, JobStatus, Terminal, Lifecycle!Edge, Lifecycle!Rows, Lifecycle!Terminal
<1>6. CASE Boot
  BY <1>6 DEF Boot, IsStale, TypeOK, Lifecycle!Edge, Lifecycle!Terminal
<1>7. CASE UNCHANGED status
  BY <1>7
<1> QED
  BY <1>1, <1>2, <1>3, <1>4, <1>5, <1>6, <1>7
     DEF Next, Submit, Work, WorkerCompletes, WorkerFails, WorkerPanics, Terminal,
         Replay, LookupMisses, TakeSlot, ServerBusy, BindAndLaunch, StreamOpens, StreamCloses,
         PollReadsMongo, PollRepopulates, Crash, RedisFlush, Tick, vars

-----------------------------------------------------------------------------
(***************************************************************************)
(* Copies keep lagging: along an edge of the lifecycle a lagging copy      *)
(* stays behind, and new copies are taken from the row itself.             *)
(***************************************************************************)
LEMMA EdgeKeepsLag ==
  ASSUME NEW c \in JobStatus, NEW s, NEW t, Lags(c, s),
         s # t => <<s, t>> \in Lifecycle!Edge
  PROVE  Lags(c, t)
  BY DEF Lags, JobStatus, Terminal, Lifecycle!Edge, Lifecycle!Rows, Lifecycle!Terminal

LEMMA EdgeNeverBack ==
  ASSUME NEW s, NEW t, s # "absent", s # t => <<s, t>> \in Lifecycle!Edge
  PROVE  t # "absent"
  BY DEF Lifecycle!Edge, Lifecycle!Rows, Lifecycle!Terminal

\* A step either keeps a copy, drops it, or takes it from the row or from a
\* document a poll had read.
LEMMA CopiesComeFromRows ==
  ASSUME TypeOK, \A r \in Requests : Progress(r), [Next]_vars
  PROVE  /\ \A j \in Requests :
              \/ cached'[j] \in {cached[j], "none"}
              \/ cached'[j] = status'[j]
              \/ \E p \in Pollers : poll[p] # Idle /\ poll[p].job = j /\ cached'[j] = poll[p].doc
         /\ \A p \in Pollers :
              \/ poll'[p] \in {poll[p], Idle}
              \/ poll'[p] # Idle /\ poll'[p].doc = status'[poll'[p].job]
<1> DEFINE Copies == \A j \in Requests :
              \/ cached'[j] \in {cached[j], "none"}
              \/ cached'[j] = status'[j]
              \/ \E p \in Pollers : poll[p] # Idle /\ poll[p].job = j /\ cached'[j] = poll[p].doc
           Docs == \A p \in Pollers :
              \/ poll'[p] \in {poll[p], Idle}
              \/ poll'[p] # Idle /\ poll'[p].doc = status'[poll'[p].job]
<1> USE DEF rowVars, cacheVars
<1>1. ASSUME NEW j \in Requests, NEW s \in JobStatus, NEW a, NEW o, Save(j, s, a, o)
      PROVE  Copies
  BY <1>1 DEF Save, TypeOK
<1>2. ASSUME NEW p \in Pollers, PollReadsMongo(p) PROVE Copies /\ Docs
  BY <1>2 DEF PollReadsMongo, TypeOK, Idle
<1>3. ASSUME NEW p \in Pollers, PollRepopulates(p) PROVE Copies /\ Docs
  <2>1. Copies
    BY <1>3 DEF PollRepopulates, TypeOK
  <2>2. Docs
    BY <1>3 DEF PollRepopulates, TypeOK
  <2> QED
    BY <2>1, <2>2
<1>4. CASE Crash
  BY <1>4 DEF Crash
<1>5. CASE RedisFlush \/ Tick
  BY <1>5 DEF RedisFlush, Tick
<1>6. CASE UNCHANGED <<cached, poll>>
  BY <1>6
<1>7. ASSUME NEW r \in Requests, SavePending(r) PROVE Copies /\ Docs
  BY <1>7, <1>1 DEF SavePending, JobStatus
<1>8. ASSUME NEW j \in Requests, WorkerStarts(j) PROVE Copies /\ Docs
  BY <1>8, <1>1 DEF WorkerStarts, JobStatus
<1>9. ASSUME NEW j \in Requests, NEW v \in Terminal, NEW a \in {0, wage[j]},
             WorkerFinishes(j, v, a)
      PROVE  Copies /\ Docs
  BY <1>9, <1>1 DEF WorkerFinishes, JobStatus
<1> QED
  BY <1>2, <1>3, <1>4, <1>5, <1>6, <1>7, <1>8, <1>9
     DEF Next, Submit, Work, WorkerCompletes, WorkerFails, WorkerPanics, Terminal,
         Replay, LookupMisses, TakeSlot, ServerBusy, BindAndLaunch, StreamOpens, StreamCloses,
         SweepStale, Reap, Boot, vars

LEMMA CacheStep ==
  ASSUME TypeOK, TypeOK', \A r \in Requests : Progress(r), CacheNeverAhead, [Next]_vars
  PROVE  CacheNeverAhead'
<1>1. \A j \in Requests : status'[j] # status[j] => <<status[j], status'[j]>> \in Lifecycle!Edge
  BY StepAdvances
<1>2. ASSUME NEW j \in Requests, cached'[j] # "none" PROVE Lags(cached'[j], status'[j])
  <2>1. CASE cached'[j] = cached[j]
    BY <1>1, <1>2, <2>1, EdgeKeepsLag DEF CacheNeverAhead, TypeOK
  <2>2. CASE cached'[j] = status'[j]
    BY <2>2 DEF Lags
  <2>3. ASSUME NEW p \in Pollers, poll[p] # Idle, poll[p].job = j, cached'[j] = poll[p].doc
        PROVE  Lags(cached'[j], status'[j])
    <3>1. Lags(poll[p].doc, status[j]) /\ poll[p].doc \in JobStatus
      BY <2>3 DEF CacheNeverAhead, TypeOK
    <3> QED
      BY <1>1, <2>3, <3>1, EdgeKeepsLag
  <2> QED
    BY <1>2, <2>1, <2>2, <2>3, CopiesComeFromRows
<1>3. ASSUME NEW p \in Pollers, poll'[p] # Idle PROVE Lags(poll'[p].doc, status'[poll'[p].job])
  <2>1. CASE poll'[p] = poll[p]
    <3>1. /\ Lags(poll[p].doc, status[poll[p].job])
          /\ poll[p].doc \in JobStatus /\ poll[p].job \in Requests
      BY <1>3, <2>1 DEF CacheNeverAhead, TypeOK
    <3> QED
      BY <1>1, <2>1, <3>1, EdgeKeepsLag
  <2>2. CASE poll'[p].doc = status'[poll'[p].job]
    BY <2>2 DEF Lags
  <2> QED
    BY <1>3, <2>1, <2>2, CopiesComeFromRows
<1> QED
  BY <1>2, <1>3 DEF CacheNeverAhead

-----------------------------------------------------------------------------
(***************************************************************************)
(* Every job id in an answer or bound to a key names a stored row.         *)
(***************************************************************************)
LEMMA ReplayedIdNamesARow ==
  ASSUME TypeOK, IdsNameRows, NEW r \in Requests, Replay(r)
  PROVE  /\ idem[KeyOf[r]] \in Requests
         /\ status[idem[KeyOf[r]]] # "absent"
<1>1. KeyOf[r] \in Keys
  BY NamesAssumption DEF Replay
<1>2. idem[KeyOf[r]] \in Requests \cup {NoJob} /\ idem[KeyOf[r]] # NoJob
  BY <1>1 DEF Replay, TypeOK
<1> QED
  BY <1>1, <1>2 DEF IdsNameRows

LEMMA IdsStep ==
  ASSUME TypeOK, TypeOK', \A r \in Requests : Progress(r), IdsNameRows, [Next]_vars
  PROVE  IdsNameRows'
<1> USE DEF TypeOK, IdsNameRows
<1> USE DEF vars, procVars, reqVars, slotVars, workVars, rowVars, cacheVars, idemVars
<1>1. \A j \in Requests : status[j] # "absent" => status'[j] # "absent"
  BY StepAdvances, EdgeNeverBack
<1>2. ASSUME NEW r \in Requests, Replay(r) PROVE IdsNameRows'
  <2>1. /\ idem[KeyOf[r]] \in Requests
        /\ status[idem[KeyOf[r]]] # "absent"
    BY <1>2, ReplayedIdNamesARow
  <2>2. \A q \in Requests :
          /\ pc'[q] = IF q = r THEN "accepted" ELSE pc[q]
          /\ answer'[q] = IF q = r THEN idem[KeyOf[r]] ELSE answer[q]
    BY <1>2 DEF Replay
  <2>3. status' = status /\ idem' = idem
    BY <1>2 DEF Replay
  <2> QED
    BY <2>1, <2>2, <2>3
<1>3. ASSUME NEW r \in Requests, LookupMisses(r) \/ TakeSlot(r) \/ ServerBusy(r) PROVE IdsNameRows'
  BY <1>1, <1>3 DEF LookupMisses, TakeSlot, ServerBusy
<1>4. ASSUME NEW r \in Requests, SavePending(r) PROVE IdsNameRows'
  BY <1>1, <1>4 DEF SavePending
<1>5. ASSUME NEW r \in Requests, BindAndLaunch(r) PROVE IdsNameRows'
  BY <1>1, <1>5, NamesAssumption DEF BindAndLaunch, Progress
<1>6. CASE Crash
  BY <1>1, <1>6 DEF Crash
<1>7. CASE RedisFlush
  BY <1>1, <1>7 DEF RedisFlush
<1>8. CASE Tick
  BY <1>1, <1>8 DEF Tick
<1>9. CASE UNCHANGED <<pc, answer, idem>>
  BY <1>1, <1>9
<1> QED
  BY <1>2, <1>3, <1>4, <1>5, <1>6, <1>7, <1>8, <1>9
     DEF Next, Submit, Work, WorkerStarts, WorkerCompletes, WorkerFails, WorkerPanics,
         WorkerFinishes, StreamOpens, StreamCloses, SweepStale, Reap, Boot,
         PollReadsMongo, PollRepopulates

-----------------------------------------------------------------------------
(***************************************************************************)
(* The inductive invariant, and what follows from it.                      *)
(***************************************************************************)
LEMMA IInvInit == Init => IInv
<1> SUFFICES ASSUME Init PROVE IInv
  OBVIOUS
<1>1. \A r \in Requests : Progress(r)
  BY DEF Init, Progress
<1>2. IdsNameRows
  BY DEF Init, IdsNameRows
<1>3. CacheNeverAhead
  BY DEF Init, CacheNeverAhead
<1> QED
  BY <1>1, <1>2, <1>3, TypeInit DEF IInv

LEMMA IInvStep == IInv /\ [Next]_vars => IInv'
  BY TypeStep, ProgressStep, IdsStep, CacheStep DEF IInv

LEMMA IInvAlways == Spec => []IInv
  BY IInvInit, IInvStep, PTL DEF Spec

(***************************************************************************)
(* Redis and the polls in flight never run ahead of Mongo.                 *)
(***************************************************************************)
THEOREM CacheCorrect == Spec => []CacheNeverAhead
<1>1. IInv => CacheNeverAhead
  BY DEF IInv
<1> QED
  BY <1>1, IInvAlways, PTL

(***************************************************************************)
(* The sweeper never fails a job whose worker still has a live context.    *)
(***************************************************************************)
THEOREM LiveJobsAreSpared == Spec => []NeverFalselyFailed
<1>1. IInv => NeverFalselyFailed
  BY DEF IInv, NeverFalselyFailed, Progress
<1> QED
  BY <1>1, IInvAlways, PTL

-----------------------------------------------------------------------------
(***************************************************************************)
(* Refinement.  Rows move along edges of the abstract lifecycle; the set   *)
(* of accepted ids changes only when a 202 is written, which adds the id   *)
(* of a stored row and moves no row.                                       *)
(***************************************************************************)
Accepted == {answer[r] : r \in Requests} \ {NoJob}

LEMMA AnswerAccepts ==
  ASSUME TypeOK, IdsNameRows, NEW r \in Requests, NEW j \in Requests,
         pc[r] # "accepted", answer' = [answer EXCEPT ![r] = j]
  PROVE  Accepted' = Accepted \cup {j}
<1>1. answer[r] = NoJob
  BY DEF IdsNameRows
<1>2. \A q \in Requests : answer'[q] = IF q = r THEN j ELSE answer[q]
  BY DEF TypeOK
<1>3. j # NoJob
  BY NamesAssumption
<1> QED
  BY <1>1, <1>2, <1>3 DEF Accepted

LEMMA StepRefines == IInv /\ [Next]_vars => [Lifecycle!Next]_(Lifecycle!vars)
<1> SUFFICES ASSUME IInv, [Next]_vars PROVE [Lifecycle!Next]_(Lifecycle!vars)
  OBVIOUS
<1> USE DEF IInv, Lifecycle!Next, Lifecycle!vars, Accepted
<1> USE DEF vars, procVars, reqVars, slotVars, workVars, rowVars, cacheVars, idemVars
<1>1. ASSUME NEW r \in Requests, Replay(r) PROVE Lifecycle!Next
  <2>1. PICK j \in Requests : j = idem[KeyOf[r]] /\ status[j] # "absent"
    BY <1>1, ReplayedIdNamesARow
  <2>2. Accepted' = Accepted \cup {j}
    BY <1>1, <2>1, AnswerAccepts DEF Replay
  <2>3. Lifecycle!Accept(j)
    BY <1>1, <2>1, <2>2 DEF Replay, Lifecycle!Accept
  <2> QED
    BY <2>3
<1>2. ASSUME NEW r \in Requests, BindAndLaunch(r) PROVE Lifecycle!Accept(r)
  <2>1. status[r] # "absent"
    BY <1>2 DEF BindAndLaunch, Progress
  <2>2. Accepted' = Accepted \cup {r}
    BY <1>2, AnswerAccepts DEF BindAndLaunch
  <2> QED
    BY <1>2, <2>1, <2>2 DEF BindAndLaunch, Lifecycle!Accept
<1>3. ASSUME answer' = answer PROVE [Lifecycle!Next]_(Lifecycle!vars)
  <2>1. Accepted' = Accepted
    BY <1>3
  <2>2. \A j \in Requests : status'[j] # status[j] => <<status[j], status'[j]>> \in Lifecycle!Edge
    BY StepAdvances
  <2>3. status' \in [Requests -> Lifecycle!Statuses]
    BY TypeStep DEF TypeOK, JobStatus, Terminal, Lifecycle!Statuses, Lifecycle!Rows,
                    Lifecycle!Terminal
  <2>4. Lifecycle!Advance
    BY <2>1, <2>2, <2>3 DEF Lifecycle!Advance
  <2> QED
    BY <2>4
<1>4. CASE UNCHANGED vars
  BY <1>3, <1>4
<1> QED
  <2>1. ASSUME NEW r \in Requests, Submit(r) PROVE [Lifecycle!Next]_(Lifecycle!vars)
    <3>1. ASSUME LookupMisses(r) \/ TakeSlot(r) \/ ServerBusy(r) \/ SavePending(r)
          PROVE  UNCHANGED answer
      BY <3>1 DEF LookupMisses, TakeSlot, ServerBusy, SavePending
    <3> QED
      BY <1>1, <1>2, <1>3, <2>1, <3>1 DEF Submit
  <2>2. ASSUME NEW j \in Requests, Work(j) \/ SweepStale(j) \/ Reap(j) PROVE UNCHANGED answer
    BY <2>2 DEF Work, WorkerStarts, WorkerCompletes, WorkerFails, WorkerPanics, WorkerFinishes,
                SweepStale, Reap
  <2>3. ASSUME NEW s \in Streams, StreamOpens(s) \/ StreamCloses(s) PROVE UNCHANGED answer
    BY <2>3 DEF StreamOpens, StreamCloses
  <2>4. ASSUME NEW p \in Pollers, PollReadsMongo(p) \/ PollRepopulates(p) PROVE UNCHANGED answer
    BY <2>4 DEF PollReadsMongo, PollRepopulates
  <2>5. ASSUME Crash \/ Boot \/ RedisFlush \/ Tick PROVE UNCHANGED answer
    BY <2>5 DEF Crash, Boot, RedisFlush, Tick
  <2> QED
    BY <1>3, <1>4, <2>1, <2>2, <2>3, <2>4, <2>5 DEF Next

(***************************************************************************)
(* The service implements the abstract lifecycle of its job rows.          *)
(***************************************************************************)
THEOREM ServiceImplementsLifecycle == Spec => ImplementsLifecycle
<1>1. Init => Lifecycle!Init
  BY DEF Init, Lifecycle!Init
<1> QED
  BY <1>1, StepRefines, IInvAlways, PTL DEF Spec, ImplementsLifecycle, Lifecycle!Spec

-----------------------------------------------------------------------------
(***************************************************************************)
(* The semaphore.  Every action leaves the set of slot holders alone, adds *)
(* the one that acquires, or removes the one that releases.                *)
(***************************************************************************)
LEMMA HoldersFinite == IsFiniteSet(SlotHolders)
<1>1. IsFiniteSet(Requests \cup Streams)
  BY NamesAssumption, FS_Union
<1>2. SlotHolders \subseteq Requests \cup Streams
  BY DEF SlotHolders
<1> QED
  BY <1>1, <1>2, FS_Subset

LEMMA HolderTakes ==
  ASSUME TypeOK, SlotsAccounted, AcquireSlot, NEW x, x \notin SlotHolders,
         SlotHolders' = SlotHolders \cup {x}
  PROVE  SlotsAccounted'
<1>1. Cardinality(SlotHolders \cup {x}) = Cardinality(SlotHolders) + 1
  BY HoldersFinite, FS_AddElement
<1> QED
  BY <1>1, TimesAssumption DEF TypeOK, SlotsAccounted, AcquireSlot

LEMMA HolderReleases ==
  ASSUME TypeOK, SlotsAccounted, ReleaseSlot, NEW x, x \in SlotHolders,
         SlotHolders' = SlotHolders \ {x}
  PROVE  SlotsAccounted'
<1>1. Cardinality(SlotHolders \ {x}) = Cardinality(SlotHolders) - 1
  BY HoldersFinite, FS_RemoveElement
<1>2. Cardinality(SlotHolders) \in Nat /\ Cardinality(SlotHolders) # 0
  BY HoldersFinite, FS_CardinalityType, FS_EmptySet
<1> QED
  BY <1>1, <1>2, TimesAssumption DEF TypeOK, SlotsAccounted, ReleaseSlot

LEMMA HoldersStay ==
  ASSUME SlotsAccounted, UNCHANGED slots, UNCHANGED sse,
         \A q \in Requests : HoldsSlot(q)' = HoldsSlot(q)
  PROVE  SlotsAccounted'
<1>1. SlotHolders' = SlotHolders
  BY DEF SlotHolders
<1> QED
  BY <1>1 DEF SlotsAccounted

LEMMA SlotsStep ==
  ASSUME IInv, SlotsAccounted, [Next]_vars
  PROVE  SlotsAccounted'
<1> USE DEF IInv
<1> USE DEF vars, procVars, reqVars, slotVars, workVars, rowVars, cacheVars, idemVars
<1>1. ASSUME NEW r \in Requests, Replay(r) \/ LookupMisses(r) \/ ServerBusy(r)
      PROVE  SlotsAccounted'
  BY <1>1, HoldersStay DEF Replay, LookupMisses, ServerBusy, TypeOK, HoldsSlot
<1>2. ASSUME NEW r \in Requests, TakeSlot(r) PROVE SlotsAccounted'
  <2>1. r \notin SlotHolders
    BY <1>2, NamesAssumption DEF TakeSlot, SlotHolders, HoldsSlot, Progress
  <2>2. \A q \in Requests : HoldsSlot(q)' = (HoldsSlot(q) \/ q = r)
    BY <1>2 DEF TakeSlot, HoldsSlot, TypeOK
  <2>3. SlotHolders' = SlotHolders \cup {r}
    BY <1>2, <2>2 DEF TakeSlot, SlotHolders
  <2> QED
    BY <1>2, <2>1, <2>3, HolderTakes DEF TakeSlot
<1>3. ASSUME NEW r \in Requests, SavePending(r) PROVE SlotsAccounted'
  <2>1. CASE pc'[r] = "launch" /\ UNCHANGED slots
    BY <1>3, <2>1, HoldersStay DEF SavePending, HoldsSlot, TypeOK
  <2>2. CASE pc'[r] = "error" /\ ReleaseSlot
    <3>1. r \in SlotHolders
      BY <1>3 DEF SavePending, SlotHolders, HoldsSlot
    <3>2. \A q \in Requests : HoldsSlot(q)' = (HoldsSlot(q) /\ q # r)
      BY <1>3, <2>2 DEF SavePending, HoldsSlot, TypeOK, Progress
    <3>3. SlotHolders' = SlotHolders \ {r}
      BY <1>3, <3>2, NamesAssumption DEF SavePending, SlotHolders
    <3> QED
      BY <2>2, <3>1, <3>3, HolderReleases
  <2> QED
    BY <1>3, <2>1, <2>2 DEF SavePending, TypeOK
<1>4. ASSUME NEW r \in Requests, BindAndLaunch(r) PROVE SlotsAccounted'
  BY <1>4, HoldersStay DEF BindAndLaunch, HoldsSlot, TypeOK
<1>5. ASSUME NEW j \in Requests, WorkerStarts(j) PROVE SlotsAccounted'
  BY <1>5, HoldersStay DEF WorkerStarts, HoldsSlot, TypeOK
<1>6. ASSUME NEW j \in Requests, NEW v \in Terminal, NEW a \in {0, wage[j]},
             WorkerFinishes(j, v, a)
      PROVE  SlotsAccounted'
  <2>1. j \in SlotHolders
    BY <1>6 DEF WorkerFinishes, SlotHolders, HoldsSlot
  <2>2. \A q \in Requests : HoldsSlot(q)' = (HoldsSlot(q) /\ q # j)
    BY <1>6 DEF WorkerFinishes, HoldsSlot, TypeOK, Progress
  <2>3. SlotHolders' = SlotHolders \ {j}
    BY <1>6, <2>2, NamesAssumption DEF WorkerFinishes, SlotHolders
  <2> QED
    BY <1>6, <2>1, <2>3, HolderReleases DEF WorkerFinishes
<1>7. ASSUME NEW s \in Streams, StreamOpens(s) PROVE SlotsAccounted'
  <2>1. \A q \in Requests : HoldsSlot(q)' = HoldsSlot(q)
    BY <1>7 DEF StreamOpens, HoldsSlot
  <2>2. CASE AcquireSlot /\ sse' = [sse EXCEPT ![s] = "streaming"]
    <3>1. s \notin SlotHolders
      BY <1>7, NamesAssumption DEF StreamOpens, SlotHolders
    <3>2. SlotHolders' = SlotHolders \cup {s}
      BY <2>1, <2>2 DEF SlotHolders, TypeOK
    <3> QED
      BY <2>2, <3>1, <3>2, HolderTakes
  <2>3. CASE UNCHANGED slots /\ sse' = [sse EXCEPT ![s] = "closed"]
    <3>1. SlotHolders' = SlotHolders
      BY <1>7, <2>1, <2>3 DEF StreamOpens, SlotHolders, TypeOK
    <3> QED
      BY <2>3, <3>1 DEF SlotsAccounted
  <2> QED
    BY <1>7, <2>2, <2>3 DEF StreamOpens
<1>8. ASSUME NEW s \in Streams, StreamCloses(s) PROVE SlotsAccounted'
  <2>1. \A q \in Requests : HoldsSlot(q)' = HoldsSlot(q)
    BY <1>8 DEF StreamCloses, HoldsSlot
  <2>2. s \in SlotHolders
    BY <1>8 DEF StreamCloses, SlotHolders
  <2>3. SlotHolders' = SlotHolders \ {s}
    BY <1>8, <2>1, NamesAssumption DEF StreamCloses, SlotHolders, TypeOK
  <2> QED
    BY <1>8, <2>2, <2>3, HolderReleases DEF StreamCloses
<1>9. CASE Crash
  <2>1. SlotHolders' = {}
    <3>1. \A q \in Requests : ~HoldsSlot(q)'
      BY <1>9 DEF Crash, HoldsSlot, TypeOK
    <3>2. \A s \in Streams : sse'[s] # "streaming"
      BY <1>9 DEF Crash, TypeOK
    <3> QED
      BY <3>1, <3>2 DEF SlotHolders
  <2> QED
    BY <1>9, <2>1, FS_EmptySet, TimesAssumption DEF Crash, SlotsAccounted
<1>10. ASSUME UNCHANGED <<pc, worker, sse, slots>> PROVE SlotsAccounted'
  BY <1>10, HoldersStay DEF HoldsSlot
<1> QED
  BY <1>1, <1>2, <1>3, <1>4, <1>5, <1>6, <1>7, <1>8, <1>9, <1>10
     DEF Next, Submit, Work, WorkerCompletes, WorkerFails, WorkerPanics, Terminal,
         SweepStale, Reap, PollReadsMongo, PollRepopulates, Boot, RedisFlush, Tick

(***************************************************************************)
(* The tokens in the semaphore are exactly the generations in progress,    *)
(* and there are never more of those than OUTFIT_MAX_CONCURRENT.           *)
(***************************************************************************)
THEOREM SemaphoreCorrect == Spec => []SlotsAccounted
<1>1. ASSUME Init PROVE SlotsAccounted
  <2>1. \A q \in Requests : ~HoldsSlot(q)
    BY <1>1 DEF Init, HoldsSlot
  <2>2. SlotHolders = {}
    BY <1>1, <2>1 DEF Init, SlotHolders
  <2> QED
    BY <1>1, <2>2, FS_EmptySet, TimesAssumption DEF Init, SlotsAccounted
<1>2. IInv /\ SlotsAccounted /\ [Next]_vars => SlotsAccounted'
  BY SlotsStep
<1> QED
  BY <1>1, <1>2, IInvAlways, PTL DEF Spec
=============================================================================
