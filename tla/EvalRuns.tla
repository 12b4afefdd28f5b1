------------------------------ MODULE EvalRuns ------------------------------
(***************************************************************************)
(* One eval run (backend/internal/admin/evals.go): Start creates the row   *)
(* and a goroutine that fans the cases out to a bounded number of workers, *)
(* each writing its result and a snapshot of the totals, and finalizes the *)
(* row once all have ended.                                                *)
(*                                                                         *)
(* The totals are shared under a mutex; a snapshot is taken under it and   *)
(* written after it is released.  The row of the run lives in MongoDB and  *)
(* survives a crash, which nothing repairs.  Scores and costs are          *)
(* abstracted to whether a case passed.                                    *)
(***************************************************************************)
EXTENDS Integers, FiniteSets

CONSTANTS
  Cases,         \* the cases of the eval set
  Parallelism,   \* evalRunnerParallelism
  MaxEvalFaults  \* bound: failed writes, panics, the hard timeout, a crash

ASSUME EvalAssumption ==
  /\ IsFiniteSet(Cases) /\ Parallelism \in Nat \ {0} /\ MaxEvalFaults \in Nat

VARIABLES
  row,        \* the eval_runs document: status, cases, aggregate
  exec,       \* the goroutine: "none", "marking", "fanning", "gone"
  work,       \* work[c]: where the worker of case c is, its result, its snapshot
  totals,     \* completed and passed, under the mutex
  evalCtx,    \* the run's own context lives
  evalFaults,
  unwritten   \* history: a write of the row failed

evalVars == <<row, exec, work, totals, evalCtx, evalFaults, unwritten>>

EvalFault   == evalFaults < MaxEvalFaults /\ evalFaults' = evalFaults + 1
NoEvalFault == UNCHANGED evalFaults
Results == {"pending", "passed", "missed", "failed"}   \* success is passed or missed
Counts == [completed : 0 .. Cardinality(Cases), passed : 0 .. Cardinality(Cases)]
Zero == [completed |-> 0, passed |-> 0]

Working == {c \in Cases : work[c].at \notin {"waiting", "ended"}}

\* No more cases are under way than the semaphore has slots.
EvalTypeOK ==
  /\ row \in [status : {"none", "pending", "processing", "completed"},
              cases : [Cases -> Results], agg : Counts]
  /\ exec \in {"none", "marking", "fanning", "gone"}
  /\ work \in [Cases -> [at : {"waiting", "generating", "counting", "upserting", "reporting",
                               "ended"},
                         res : Results, snap : Counts]]
  /\ totals \in Counts /\ evalCtx \in BOOLEAN
  /\ evalFaults \in 0 .. MaxEvalFaults /\ unwritten \in BOOLEAN
  /\ Cardinality(Working) <= Parallelism

EvalInit ==
  /\ row = [status |-> "none", cases |-> [c \in Cases |-> "pending"], agg |-> Zero]
  /\ exec = "none" /\ totals = Zero /\ evalCtx = TRUE /\ evalFaults = 0 /\ unwritten = FALSE
  /\ work = [c \in Cases |-> [at |-> "waiting", res |-> "pending", snap |-> Zero]]

\* A write of the row with the run's context: it happens, or fails and is logged.
Writes(new) ==
  \/ evalCtx /\ row' = new /\ NoEvalFault /\ UNCHANGED unwritten
  \/ evalCtx /\ EvalFault /\ unwritten' = TRUE /\ UNCHANGED row
  \/ ~evalCtx /\ unwritten' = TRUE /\ NoEvalFault /\ UNCHANGED row

WorkGoes(c, at) == work' = [work EXCEPT ![c].at = at]

-----------------------------------------------------------------------------
StartsRun ==
  /\ exec = "none" /\ row.status = "none"
  /\ row' = [row EXCEPT !.status = "pending"] /\ exec' = "marking"
  /\ NoEvalFault /\ UNCHANGED <<work, totals, evalCtx, unwritten>>

\* UpdateProgress: status and aggregate together.
MarksProcessing ==
  /\ exec = "marking" /\ exec' = "fanning"
  /\ Writes([row EXCEPT !.status = "processing", !.agg = Zero])
  /\ UNCHANGED <<work, totals, evalCtx>>

\* Mutant: the cases do not queue for a slot.
TakesCaseAtOnce(c) ==
  /\ exec = "fanning" /\ work[c].at = "waiting" /\ WorkGoes(c, "generating")
  /\ NoEvalFault /\ UNCHANGED <<row, exec, totals, evalCtx, unwritten>>

\* A case gets a slot of the semaphore.
TakesCase(c) ==
  /\ exec = "fanning" /\ work[c].at = "waiting" /\ Cardinality(Working) < Parallelism
  /\ WorkGoes(c, "generating")
  /\ NoEvalFault /\ UNCHANGED <<row, exec, totals, evalCtx, unwritten>>

\* GenerateForEval and the judge.
Generates(c) ==
  /\ work[c].at = "generating"
  /\ \E r \in Results \ {"pending"} :
       /\ evalCtx \/ r = "failed"
       /\ work' = [work EXCEPT ![c].at = "counting", ![c].res = r]
  /\ NoEvalFault /\ UNCHANGED <<row, exec, totals, evalCtx, unwritten>>

\* A panic is recovered: the worker ends, its case is not counted.
Panics(c) ==
  /\ work[c].at = "generating" /\ EvalFault /\ WorkGoes(c, "ended")
  /\ UNCHANGED <<row, exec, totals, evalCtx, unwritten>>

\* The section under the mutex.
CountsCase(c) ==
  /\ work[c].at = "counting"
  /\ totals' = [completed |-> totals.completed + 1,
                passed |-> totals.passed + (IF work[c].res = "passed" THEN 1 ELSE 0)]
  /\ work' = [work EXCEPT ![c].at = "upserting", ![c].snap = totals']
  /\ NoEvalFault /\ UNCHANGED <<row, exec, evalCtx, unwritten>>

\* UpsertCase: Start wrote an entry for every case, so it is set in place.
UpsertsCase(c) ==
  /\ work[c].at = "upserting" /\ WorkGoes(c, "reporting")
  /\ Writes([row EXCEPT !.cases[c] = work[c].res])
  /\ UNCHANGED <<exec, totals, evalCtx>>

\* UpdateProgress with the snapshot, which may be older than the row's.
ReportsProgress(c) ==
  /\ work[c].at = "reporting" /\ WorkGoes(c, "ended")
  /\ Writes([row EXCEPT !.status = "processing", !.agg = work[c].snap])
  /\ UNCHANGED <<exec, totals, evalCtx>>

\* Mutant: the goroutine waits for the counts, not for the workers.
FinalizesEarly ==
  /\ exec = "fanning" /\ \A c \in Cases : work[c].at \in {"upserting", "reporting", "ended"}
  /\ exec' = "gone"
  /\ Writes([row EXCEPT !.status = "completed", !.agg = totals])
  /\ UNCHANGED <<work, totals, evalCtx>>

\* wg.Wait, then Finalize on the run's own context.
Finalizes ==
  /\ exec = "fanning" /\ \A c \in Cases : work[c].at = "ended"
  /\ exec' = "gone"
  /\ Writes([row EXCEPT !.status = "completed", !.agg = totals])
  /\ UNCHANGED <<work, totals, evalCtx>>

\* evalRunHardTimeout.
HardTimeout ==
  /\ evalCtx /\ exec \in {"marking", "fanning"} /\ EvalFault /\ evalCtx' = FALSE
  /\ UNCHANGED <<row, exec, work, totals, unwritten>>

\* The server stops; nothing resumes the run.
EvalCrash ==
  /\ exec \in {"marking", "fanning"} /\ EvalFault /\ exec' = "gone"
  /\ work' = [c \in Cases |-> [work[c] EXCEPT !.at = "ended"]]
  /\ UNCHANGED <<row, totals, evalCtx, unwritten>>

EvalNext ==
  \/ StartsRun \/ MarksProcessing \/ Finalizes \/ HardTimeout \/ EvalCrash
  \/ \E c \in Cases : \/ TakesCase(c) \/ Generates(c) \/ CountsCase(c)
                      \/ UpsertsCase(c) \/ ReportsProgress(c) \/ Panics(c)

EvalSpec == EvalInit /\ [][EvalNext]_evalVars

-----------------------------------------------------------------------------
With(R) == {c \in Cases : row.cases[c] \in R}

\* A completed run shows the totals of its cases and no late snapshot: the aggregate
\* counts every case that has a result, the passed ones as passed, and what it leaves
\* out are cases that panicked (a failed write is logged and shows).
CompletedAddsUp ==
  row.status = "completed" =>
    /\ row.agg = totals
    /\ ~unwritten => /\ row.agg.completed = Cardinality(With(Results \ {"pending"}))
                     /\ row.agg.passed = Cardinality(With({"passed"}))
                     /\ Cardinality(With({"pending"})) <= evalFaults
=============================================================================
