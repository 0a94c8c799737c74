----------------------------- MODULE EvalWorker -----------------------------
(***************************************************************************)
(* The evaluation the console starts in the background: POST /eval/run and *)
(* _eval_worker (app/main.py), run_evaluation (app/eval/runner.py), and    *)
(* the clock they share with every request of the process (app/clock.py).  *)
(* What one simulation does is the module Harness.                         *)
(***************************************************************************)
EXTENDS Naturals

CONSTANTS
    Threads,     \* background threads that may come to life
    RealClock,   \* the clock the process starts with
    MaxBatches   \* bound: batches started

ASSUME WorkerAssumption == RealClock \notin Threads /\ MaxBatches \in Nat

VARIABLES
    clock,       \* whose clock now() reads: RealClock, or that of a thread's simulation
    evalState,   \* _eval_state, guarded by its lock
    worker,      \* [Threads -> what the thread is doing]
    batches      \* how many batches were started

workerVars == <<clock, evalState, worker, batches>>

\* A batch evaluates both agents by rules and the real one with its reader.
RunsPerBatch == 3

Stages == {"free", "starting", "simulating", "persisting", "ended", "failed"}

Free == [at |-> "free", run |-> 1]

WorkerTypeOK ==
    /\ clock \in Threads \cup {RealClock}
    /\ evalState \in [running : BOOLEAN, error : BOOLEAN]
    /\ worker \in [Threads -> [at : Stages, run : 1 .. RunsPerBatch]]
    /\ batches \in 0 .. MaxBatches

WorkerInit ==
    /\ clock = RealClock
    /\ evalState = [running |-> FALSE, error |-> FALSE]
    /\ worker = [w \in Threads |-> Free]
    /\ batches = 0

\* Faulty variant: a batch is started whatever is running.
MayStart_Always == TRUE

MayStart == ~evalState.running

\* evaluation_run: the flag is tested and set under its lock, then the thread
\* is started.  While a batch runs the request only says so.
EvaluationRun(w) ==
    /\ MayStart /\ batches < MaxBatches
    /\ worker[w].at = "free"
    /\ evalState' = [running |-> TRUE, error |-> FALSE]
    /\ worker' = [worker EXCEPT ![w].at = "starting"]
    /\ batches' = batches + 1
    /\ UNCHANGED clock

\* run_evaluation builds a database for the run; simulate_case installs a
\* virtual clock for each case of the corpus ...
SimulateCase(w) ==
    /\ worker[w].at \in {"starting", "simulating"}
    /\ clock' = w
    /\ worker' = [worker EXCEPT ![w].at = "simulating"]
    /\ UNCHANGED <<evalState, batches>>

\* Faulty variant: the real clock is not put back.
ClockAfterRun_Virtual == clock

ClockAfterRun == RealClock

\* ... the real clock is put back when all are done ...
EndSimulation(w) ==
    /\ worker[w].at = "simulating"
    /\ clock' = ClockAfterRun
    /\ worker' = [worker EXCEPT ![w].at = "persisting"]
    /\ UNCHANGED <<evalState, batches>>

\* ... and _persist replaces the rows of the run in one transaction.
Persist(w) ==
    /\ worker[w].at = "persisting"
    /\ worker' = [worker EXCEPT ![w] =
          IF @.run < RunsPerBatch THEN [at |-> "starting", run |-> @.run + 1]
          ELSE [@ EXCEPT !.at = "ended"]]
    /\ UNCHANGED <<clock, evalState, batches>>

\* An exception anywhere leaves run_evaluation, past its reset of the clock.
RunRaises(w) ==
    /\ worker[w].at \in {"starting", "simulating", "persisting"}
    /\ worker' = [worker EXCEPT ![w].at = "failed"]
    /\ UNCHANGED <<clock, evalState, batches>>

\* Faulty variant: the exception is reported and the flag stays.
RunningAfter_Failure(w) == worker[w].at = "failed"

RunningAfter(w) == FALSE

\* The end of _eval_worker, on either path.
EndBatch(w) ==
    /\ worker[w].at \in {"ended", "failed"}
    /\ evalState' = [running |-> RunningAfter(w), error |-> worker[w].at = "failed"]
    /\ worker' = [worker EXCEPT ![w] = Free]
    /\ UNCHANGED <<clock, batches>>

\* What the scheduler owes a thread: its run goes from case to case to its end.
WorkerStep(w) ==
    \/ SimulateCase(w) /\ worker[w].at = "starting"
    \/ EndSimulation(w)
    \/ Persist(w)
    \/ EndBatch(w)

WorkerNext ==
    \E w \in Threads :
        \/ EvaluationRun(w)
        \/ SimulateCase(w)
        \/ EndSimulation(w)
        \/ Persist(w)
        \/ RunRaises(w)
        \/ EndBatch(w)

-----------------------------------------------------------------------------
\* A simulation reads its own virtual clock from its first case to its last:
\* no other batch resets or replaces it underneath (the test and set of
\* evaluation_run).
SimulationOwnsClock ==
    \A w \in Threads : worker[w].at = "simulating" => clock = w
=============================================================================
