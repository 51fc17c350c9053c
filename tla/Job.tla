---------------------------------- MODULE Job ----------------------------------
(*****************************************************************************)
(* One job of the step-runner service (pkg/api/internal/jobs/jobs.go): the   *)
(* goroutine that executes its steps and the goroutines that close it.       *)
(*                                                                           *)
(* Every critical section of Job.mux is one step, except the timeout branch  *)
(* of Close, which keeps the mutex until it has removed TmpDir (the Unlock   *)
(* is deferred).  A panic in Run runs the deferred calls and then takes the  *)
(* whole process down, because Run executes in a goroutine of its own.       *)
(*****************************************************************************)
EXTENDS Naturals, StepResult

CONSTANTS
    Runners,    \* goroutines that call Job.Run
    Closers     \* goroutines that call Job.Close

ASSUME ActorsAssumption == Runners \cap Closers = {}

(*****************************************************************************)
(* Values                                                                    *)
(*****************************************************************************)
Terminal == {"success", "failure", "cancelled"}
Statuses == {"unspecified", "running"} \cup Terminal

\* What j.err holds: nothing, the (wrapped) error of the steps, or the
\* context.Canceled that Close writes when its timer fires.
JobErrors == {"nil", "steps", "context.Canceled"}

VARIABLES
    status,     \* j.status
    err,        \* j.err
    finished,   \* j.finishTime is set
    cancelled,  \* j.Ctx is cancelled
    logs,       \* j.logs: "open" or "closed"
    tmpDir,     \* j.TmpDir exists
    stepFiles,  \* the output and export files of the steps context exist
    finishC,    \* number of values in the channel j.finishC
    mux,        \* holder of j.mux between two steps, or "free"
    runOnce, closeOnce,     \* state of the two sync.Once
    runPc, closePc,         \* where each goroutine is
    result,     \* result and err of step.Run, local to Run
    panicking,  \* a panic is unwinding Run
    crashed,    \* the process has died of it
    timedOut    \* Close took the branch of its timer

runVars   == <<runOnce, runPc, result, panicking, crashed, stepFiles>>
closeVars == <<closeOnce, closePc, timedOut, cancelled, tmpDir>>
recorded  == <<status, err, finished>>
vars == <<runVars, closeVars, recorded, logs, finishC, mux>>

RunSteps   == {"call", "lock", "steps", "record", "report", "cleanup",
               "closeLogs", "send", "returned"}
CloseSteps == {"call", "select", "timer", "remove", "returned"}

\* The job as jobs.New returns it.
Init ==
    /\ status = "unspecified" /\ err = "nil" /\ finished = FALSE
    /\ cancelled = FALSE
    /\ logs = "open" /\ tmpDir = TRUE /\ stepFiles = TRUE
    /\ finishC = 0
    /\ mux = "free"
    /\ runOnce = "new" /\ closeOnce = "new"
    /\ runPc = [r \in Runners |-> "call"]
    /\ closePc = [c \in Closers |-> "call"]
    /\ result = NoResult
    /\ panicking = FALSE /\ crashed = FALSE /\ timedOut = FALSE

Moves(r, from, to) == runPc[r] = from /\ runPc' = [runPc EXCEPT ![r] = to]

CloseMoves(c, from, to) ==
    closePc[c] = from /\ closePc' = [closePc EXCEPT ![c] = to]

-------------------------------------------------------------------------------
(*****************************************************************************)
(* Job.Run                                                                   *)
(*****************************************************************************)

\* Mutant of RunOnce: Run without the sync.Once.
RunOnce_Repeated(r) ==
    /\ runOnce' = "busy" /\ Moves(r, "call", "lock")
    /\ UNCHANGED <<closeVars, recorded, logs, finishC, mux, result, panicking,
                   crashed, stepFiles>>

\* runOnce.Do: the first caller executes the body, a caller that arrives when
\* the body is done returns at once, and any other waits.
RunOnce(r) ==
    /\ \/ runOnce = "new" /\ runOnce' = "busy" /\ Moves(r, "call", "lock")
       \/ runOnce = "done" /\ UNCHANGED runOnce /\ Moves(r, "call", "returned")
    /\ UNCHANGED <<closeVars, recorded, logs, finishC, mux, result, panicking,
                   crashed, stepFiles>>

\* Mutant of StartRunning: the Unlock before step.Run is missing.
StartRunning_KeepsLock(r) ==
    /\ mux = "free" /\ mux' = r
    /\ Moves(r, "lock", "steps")
    /\ status' = "running"
    /\ UNCHANGED <<closeVars, err, finished, logs, finishC, runOnce, result,
                   panicking, crashed, stepFiles>>

\* startTime and status under the lock.
StartRunning(r) ==
    /\ mux = "free"
    /\ Moves(r, "lock", "steps")
    /\ status' = "running"
    /\ UNCHANGED <<closeVars, err, finished, logs, finishC, mux, runOnce,
                   result, panicking, crashed, stepFiles>>

\* Mutant of StepRun: an early return when the context is cancelled.
StepRun_SkipsRecording(r) ==
    /\ Moves(r, "steps", IF cancelled THEN "cleanup" ELSE "record")
    /\ result' \in StepResults
    /\ UNCHANGED <<closeVars, recorded, logs, finishC, mux, runOnce, panicking,
                   crashed, stepFiles>>

\* step.Run returns.  Its error may wrap context.Canceled or DeadlineExceeded
\* although j.Ctx is not cancelled: a network timeout of a clone does.
StepRun(r) ==
    /\ Moves(r, "steps", "record")
    /\ result' \in StepResults
    /\ UNCHANGED <<closeVars, recorded, logs, finishC, mux, runOnce, panicking,
                   crashed, stepFiles>>

\* Mutant of FinalStatus: any killed process counts as cancelled.
FinalStatus_IgnoresContext(res, ctxDone) ==
    IF res.err \in {"context", "killed"} THEN "cancelled" ELSE res.status

\* The switch of onRunCompletion.
FinalStatus(res, ctxDone) ==
    CASE res.status \in {"unspecified", "running"} -> "failure"
      [] /\ res.status = "failure"
         /\ res.err = "context" \/ (ctxDone /\ res.err = "killed") -> "cancelled"
      [] OTHER -> res.status

\* Mutant of FinalErr: the cancelled branch forgets j.err.
FinalErr_ForgetsCancel(res) == IF res.err = "other" THEN "steps" ELSE "nil"

FinalErr(res) ==
    IF res.err = "nil" /\ res.status \notin {"unspecified", "running"}
    THEN "nil" ELSE "steps"

\* onRunCompletion, under the lock.  The access to the status of a nil result
\* panics after finishTime is set.
OnRunCompletion(r) ==
    /\ mux = "free"
    /\ finished' = TRUE
    /\ \/ /\ result # NoResult
          /\ Moves(r, "record", "report")
          /\ status' = FinalStatus(result, cancelled)
          /\ err' = FinalErr(result)
          /\ UNCHANGED panicking
       \/ /\ result = NoResult
          /\ Moves(r, "record", "cleanup")
          /\ panicking' = TRUE
          /\ UNCHANGED <<status, err>>
    /\ UNCHANGED <<closeVars, logs, finishC, mux, runOnce, result, crashed,
                   stepFiles>>

\* Reports j.err, read without the lock, by calling Error on the local err.
ReportError(r) ==
    /\ Moves(r, "report", "cleanup")
    /\ panicking' = (err # "nil" /\ result.err = "nil")
    /\ UNCHANGED <<closeVars, recorded, logs, finishC, mux, runOnce, result,
                   crashed, stepFiles>>

\* The deferred calls: remove the step files, close the logs, signal the end.
Cleanup(r) ==
    /\ Moves(r, "cleanup", "closeLogs")
    /\ stepFiles' = FALSE
    /\ UNCHANGED <<closeVars, recorded, logs, finishC, mux, runOnce, result,
                   panicking, crashed>>

CloseLogs(r) ==
    /\ Moves(r, "closeLogs", "send")
    /\ logs' = "closed"
    /\ UNCHANGED <<closeVars, recorded, finishC, mux, runOnce, result,
                   panicking, crashed, stepFiles>>

SendFinish(r) ==
    /\ finishC < 1
    /\ Moves(r, "send", "returned")
    /\ finishC' = finishC + 1
    /\ runOnce' = "done"
    /\ crashed' = panicking
    /\ UNCHANGED <<closeVars, recorded, logs, mux, result, panicking, stepFiles>>

-------------------------------------------------------------------------------
(*****************************************************************************)
(* Job.Close                                                                 *)
(*****************************************************************************)

\* Mutant of CloseOnce: a Close that is already going on is not waited for.
CloseOnce_NoWait(c) ==
    /\ \/ /\ closeOnce = "new" /\ closeOnce' = "busy"
          /\ cancelled' = TRUE
          /\ CloseMoves(c, "call", "select")
       \/ /\ closeOnce # "new"
          /\ CloseMoves(c, "call", "returned")
          /\ UNCHANGED <<closeOnce, cancelled>>
    /\ UNCHANGED <<runVars, recorded, logs, finishC, mux, timedOut, tmpDir>>

\* closeOnce.Do: the first caller cancels the context and goes on to wait.
CloseOnce(c) ==
    /\ \/ /\ closeOnce = "new" /\ closeOnce' = "busy"
          /\ cancelled' = TRUE
          /\ CloseMoves(c, "call", "select")
       \/ /\ closeOnce = "done"
          /\ CloseMoves(c, "call", "returned")
          /\ UNCHANGED <<closeOnce, cancelled>>
    /\ UNCHANGED <<runVars, recorded, logs, finishC, mux, timedOut, tmpDir>>

\* The select: Run has ended ...
ReceiveFinish(c) ==
    /\ finishC > 0
    /\ CloseMoves(c, "select", "remove")
    /\ finishC' = finishC - 1
    /\ UNCHANGED <<runVars, recorded, logs, mux, closeOnce, timedOut, cancelled,
                   tmpDir>>

\* Mutant of TimerFires: the timer only guards against a job that never ran.
TimerFires_IfNeverRun(c) ==
    /\ status = "unspecified"
    /\ CloseMoves(c, "select", "timer")
    /\ timedOut' = TRUE
    /\ UNCHANGED <<runVars, recorded, logs, finishC, mux, closeOnce, cancelled,
                   tmpDir>>

\* ... or the timer has fired; with both ready Go picks either.
TimerFires(c) ==
    /\ CloseMoves(c, "select", "timer")
    /\ timedOut' = TRUE
    /\ UNCHANGED <<runVars, recorded, logs, finishC, mux, closeOnce, cancelled,
                   tmpDir>>

\* Mutant of RecordTimeout: the status is overwritten whatever it is.
RecordTimeout_Overwrites(c) ==
    /\ mux = "free" /\ mux' = c
    /\ CloseMoves(c, "timer", "remove")
    /\ status' = "cancelled"
    /\ err' = IF err = "nil" THEN "context.Canceled" ELSE err
    /\ UNCHANGED <<runVars, finished, logs, finishC, closeOnce, timedOut,
                   cancelled, tmpDir>>

RecordTimeout(c) ==
    /\ mux = "free" /\ mux' = c
    /\ CloseMoves(c, "timer", "remove")
    /\ status' = IF status = "unspecified" THEN "cancelled" ELSE status
    /\ err' = IF err = "nil" THEN "context.Canceled" ELSE err
    /\ UNCHANGED <<runVars, finished, logs, finishC, closeOnce, timedOut,
                   cancelled, tmpDir>>

\* Mutant of RemoveTmpDir: the Unlock of the timer's branch is missing.
RemoveTmpDir_KeepsLock(c) ==
    /\ CloseMoves(c, "remove", "returned")
    /\ tmpDir' = FALSE
    /\ closeOnce' = "done"
    /\ UNCHANGED <<runVars, recorded, logs, finishC, timedOut, cancelled, mux>>

\* os.RemoveAll(j.TmpDir), then the deferred Unlock of the timer's branch.
RemoveTmpDir(c) ==
    /\ CloseMoves(c, "remove", "returned")
    /\ tmpDir' = FALSE
    /\ closeOnce' = "done"
    /\ mux' = IF mux = c THEN "free" ELSE mux
    /\ UNCHANGED <<runVars, recorded, logs, finishC, timedOut, cancelled>>

-------------------------------------------------------------------------------
RunNext(r) ==
    \/ RunOnce(r) \/ StartRunning(r) \/ StepRun(r) \/ OnRunCompletion(r)
    \/ ReportError(r) \/ Cleanup(r) \/ CloseLogs(r) \/ SendFinish(r)

CloseNext(c) ==
    \/ CloseOnce(c) \/ ReceiveFinish(c) \/ TimerFires(c) \/ RecordTimeout(c)
    \/ RemoveTmpDir(c)

Next ==
    /\ ~crashed
    /\ \/ \E r \in Runners : RunNext(r)
       \/ \E c \in Closers : CloseNext(c)

\* Goroutines that can run are scheduled, and a timer that was started fires.
\* Nothing is assumed of the steps: step.Run may never return, so the step
\* StepRun is not among the fair ones.
Fairness ==
    /\ \A r \in Runners :
          WF_vars(~crashed /\ (\/ RunOnce(r) \/ StartRunning(r)
                               \/ OnRunCompletion(r) \/ ReportError(r)
                               \/ Cleanup(r) \/ CloseLogs(r) \/ SendFinish(r)))
    /\ \A c \in Closers : WF_vars(~crashed /\ CloseNext(c))

Spec == Init /\ [][Next]_vars
FairSpec == Spec /\ Fairness

-------------------------------------------------------------------------------
(*****************************************************************************)
(* Properties                                                                *)
(*****************************************************************************)

\* The type of every variable of the job; in particular Run holds the mutex
\* between no two of its steps, so a Close never waits for the steps to get it.
TypeOK ==
    /\ status \in Statuses
    /\ err \in JobErrors
    /\ finished \in BOOLEAN /\ cancelled \in BOOLEAN
    /\ logs \in {"open", "closed"}
    /\ tmpDir \in BOOLEAN /\ stepFiles \in BOOLEAN
    /\ finishC \in 0..1
    /\ mux \in {"free"} \cup Closers
    /\ runOnce \in {"new", "busy", "done"}
    /\ closeOnce \in {"new", "busy", "done"}
    /\ runPc \in [Runners -> RunSteps]
    /\ closePc \in [Closers -> CloseSteps]
    /\ result \in StepResults
    /\ panicking \in BOOLEAN /\ crashed \in BOOLEAN /\ timedOut \in BOOLEAN

\* A job is only reported as cancelled when Close cancelled it or its steps
\* ended with an error of a context, of whatever context: a step killed by
\* somebody else, such as the OOM killer, is a failure (onRunCompletion).
CancelledHasACause ==
    status = "cancelled" => cancelled \/ result.err = "context"

\* Whoever sees the end of the log stream finds a final status: Run closes the
\* logs only after onRunCompletion.  This is what lets a client follow the logs
\* to the end and then ask for the status once (extended.Follow).
EndOfLogsMeansFinal == logs = "closed" /\ ~panicking => status \in Terminal

\* The send that ends Run never blocks, although nobody may ever receive it:
\* the one place in the buffer of finishC is free.
FinishSendNeverBlocks == \A r \in Runners : runPc[r] = "send" => finishC = 0

\* When any Close returns, TmpDir is gone; and unless the timer fired, Run has
\* ended too, with the logs closed and the step files removed.
OrderlyClose ==
    \A c \in Closers : closePc[c] = "returned" =>
        /\ ~tmpDir
        /\ timedOut \/ (runOnce = "done" /\ logs = "closed" /\ ~stepFiles)

\* Status() never reports a failed or cancelled job without a message.
FailureHasMessage == status \in {"failure", "cancelled"} => err # "nil"

\* Once onRunCompletion has recorded the outcome of the steps, nothing changes
\* the status, in particular not a Close whose timer fires late.
OutcomeIsFinal == [][finished => status' = status]_vars

\* Every Close that has cancelled the job returns, whatever the steps do.
CloseReturns ==
    \A c \in Closers :
        closePc[c] = "select" ~> (closePc[c] = "returned" \/ crashed)

\* When the steps return, Run ends: it never waits for a Close for good, not
\* even for one that holds the mutex while it removes TmpDir.
RunReturns ==
    \A r \in Runners : runPc[r] = "record" ~> runPc[r] = "returned"

(*****************************************************************************)
(* Refinement                                                                *)
(*****************************************************************************)

\* What JobLifecycle calls a job that has not started.
NotStarted == runOnce = "new" \/ \E r \in Runners : runPc[r] = "lock"

Lifecycle == INSTANCE JobLifecycle WITH
    phase   <- IF NotStarted THEN "new"
               ELSE IF runOnce = "busy" THEN "running" ELSE "ended",
    closing <- CASE closeOnce = "new"  -> "open"
                 [] closeOnce = "busy" -> "closing"
                 [] OTHER              -> "closed",
    late    <- timedOut /\ closeOnce = "done",
    alive   <- ~panicking

\* The job keeps the promises of JobLifecycle: steps start once, the outcome is
\* recorded once and before the log stream ends, the job ends after that, and a
\* Close that returns in time returns after the end.
KeepsLifecycle == Lifecycle!Spec

(*****************************************************************************)
(* What comments and tests say and the code does not do                      *)
(*****************************************************************************)

\* Run "captures the result" of the steps (jobs.go): a result of the steps
\* that is not nil never makes Run itself panic.
RunCapturesResult == result # NoResult => ~panicking
===============================================================================
