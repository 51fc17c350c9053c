------------------------------- MODULE JobProofs -------------------------------
(*****************************************************************************)
(* The safety properties of Job, proved for any number of goroutines that    *)
(* call Run and Close.                                                       *)
(*****************************************************************************)
EXTENDS Job, TLAPS

\* A goroutine that executes the body of runOnce.Do.
Active(r) == runPc[r] \notin {"call", "returned"}

\* At most one goroutine executes the body of Run; until it has sent its signal
\* the channel is empty.
RunExclusive ==
    /\ \A r \in Runners : Active(r) => runOnce = "busy" /\ finishC = 0
    /\ \A r, q \in Runners : Active(r) /\ Active(q) => r = q
    /\ runOnce = "busy" => \E r \in Runners : Active(r)
    /\ runOnce = "new" => finishC = 0

\* What has been recorded, closed and removed at each place of Run.
RunProgress ==
    /\ runOnce = "new" => logs = "open" /\ ~finished
    /\ finished => status # "unspecified"
    /\ \A r \in Runners :
        /\ runPc[r] \in {"lock", "steps", "record"} => ~finished
        /\ runPc[r] \in {"steps", "record"} => status = "running"
        /\ Active(r) /\ runPc[r] # "lock" => status # "unspecified"
        /\ Active(r) /\ runPc[r] # "send" => logs = "open"
        /\ runPc[r] = "report" => status \in Terminal
        /\ runPc[r] \in {"cleanup", "closeLogs", "send"} =>
              status \in Terminal \/ panicking
        /\ runPc[r] \in {"closeLogs", "send"} => ~stepFiles
        /\ runPc[r] = "send" => logs = "closed"
    /\ runOnce = "done" =>
        /\ logs = "closed" /\ ~stepFiles
        /\ status # "unspecified"
        /\ status \in Terminal \/ panicking

\* The places inside closeOnce.Do.
InClose == {"select", "timer", "remove"}

\* What a Close has done at each place, and that one at most is inside.
CloseProgress ==
    /\ closeOnce # "new" => cancelled
    /\ closeOnce = "done" => ~tmpDir /\ (timedOut \/ runOnce = "done")
    /\ \A c \in Closers :
        /\ closePc[c] \in InClose => closeOnce = "busy"
        /\ closePc[c] = "timer" => timedOut
        /\ closePc[c] = "remove" => timedOut \/ runOnce = "done"
        /\ closePc[c] = "returned" => closeOnce = "done"
    /\ \A c, d \in Closers :
        closePc[c] \in InClose /\ closePc[d] \in InClose => c = d

\* The inductive invariant.
IInv ==
    /\ TypeOK
    /\ RunExclusive
    /\ RunProgress
    /\ CloseProgress
    /\ CancelledHasACause
    /\ FailureHasMessage

-------------------------------------------------------------------------------
(*****************************************************************************)
(* Type correctness                                                          *)
(*****************************************************************************)

\* The final status is one of the five statuses and terminal for every result
\* the steps return, and it is "cancelled" only when the context is or when the
\* error is that of a context.
LEMMA FinalStatusLemma ==
    ASSUME NEW ctxDone \in BOOLEAN, NEW res \in StepResults, res # NoResult
    PROVE  /\ FinalStatus(res, ctxDone) \in Terminal
           /\ FinalStatus(res, ctxDone) = "cancelled" =>
                 ctxDone \/ res.err = "context"
           /\ FinalStatus(res, ctxDone) # "success" => FinalErr(res) = "steps"
           /\ FinalErr(res) \in JobErrors
  BY DEF StepResults, NoResult, FinalStatus, FinalErr, Terminal, JobErrors

\* A step of a goroutine in Run keeps every variable in its type.
LEMMA RunTypes ==
    ASSUME TypeOK, NEW r \in Runners, RunNext(r)
    PROVE  TypeOK'
  <1>1. CASE RunOnce(r)
    BY <1>1 DEF RunOnce, Moves, TypeOK, closeVars, RunSteps, recorded
  <1>2. CASE StartRunning(r)
    BY <1>2 DEF StartRunning, Moves, TypeOK, closeVars, RunSteps, Statuses
  <1>3. CASE StepRun(r)
    BY <1>3 DEF StepRun, Moves, TypeOK, closeVars, RunSteps, recorded
  <1>4. CASE OnRunCompletion(r)
    BY <1>4, FinalStatusLemma
       DEF OnRunCompletion, Moves, TypeOK, closeVars, RunSteps, Statuses
  <1>5. CASE ReportError(r)
    BY <1>5 DEF ReportError, Moves, TypeOK, closeVars, RunSteps, recorded
  <1>6. CASE Cleanup(r)
    BY <1>6 DEF Cleanup, Moves, TypeOK, closeVars, RunSteps, recorded
  <1>7. CASE CloseLogs(r)
    BY <1>7 DEF CloseLogs, Moves, TypeOK, closeVars, RunSteps, recorded
  <1>8. CASE SendFinish(r)
    BY <1>8 DEF SendFinish, Moves, TypeOK, closeVars, RunSteps, recorded
  <1>9. QED
    BY <1>1, <1>2, <1>3, <1>4, <1>5, <1>6, <1>7, <1>8 DEF RunNext

\* A step of a goroutine in Close keeps every variable in its type.
LEMMA CloseTypes ==
    ASSUME TypeOK, NEW c \in Closers, CloseNext(c)
    PROVE  TypeOK'
  <1>1. CASE CloseOnce(c)
    BY <1>1 DEF CloseOnce, CloseMoves, TypeOK, runVars, CloseSteps, recorded
  <1>2. CASE ReceiveFinish(c)
    BY <1>2 DEF ReceiveFinish, CloseMoves, TypeOK, runVars, CloseSteps, recorded
  <1>3. CASE TimerFires(c)
    BY <1>3 DEF TimerFires, CloseMoves, TypeOK, runVars, CloseSteps, recorded
  <1>4. CASE RecordTimeout(c)
    BY <1>4
       DEF RecordTimeout, CloseMoves, TypeOK, runVars, CloseSteps, Statuses,
           Terminal, JobErrors
  <1>5. CASE RemoveTmpDir(c)
    BY <1>5 DEF RemoveTmpDir, CloseMoves, TypeOK, runVars, CloseSteps, recorded
  <1>6. QED
    BY <1>1, <1>2, <1>3, <1>4, <1>5 DEF CloseNext

\* Nothing changes in a stuttering step.
LEMMA StutterTypes == TypeOK /\ UNCHANGED vars => TypeOK'
  BY DEF TypeOK, vars, runVars, closeVars, recorded

\* The initial state is well-typed.
LEMMA InitTypes == Init => TypeOK
  <1> SUFFICES ASSUME Init PROVE TypeOK
    OBVIOUS
  <1>1. result \in StepResults
    BY DEF Init, StepResults
  <1>2. /\ runPc \in [Runners -> RunSteps]
        /\ closePc \in [Closers -> CloseSteps]
    BY DEF Init, RunSteps, CloseSteps
  <1>3. /\ status \in Statuses /\ err \in JobErrors
        /\ mux \in {"free"} \cup Closers
        /\ finishC \in 0..1
    BY DEF Init, Statuses, JobErrors
  <1>4. /\ finished \in BOOLEAN /\ cancelled \in BOOLEAN
        /\ tmpDir \in BOOLEAN /\ stepFiles \in BOOLEAN
        /\ panicking \in BOOLEAN /\ crashed \in BOOLEAN /\ timedOut \in BOOLEAN
    BY Zenon DEF Init
  <1>5. QED
    BY <1>1, <1>2, <1>3, <1>4, Zenon DEF Init, TypeOK

\* Job keeps its types: the status stays one of the five of the protocol, and
\* the channel finishC never holds more than the one value it has room for.
THEOREM JobTypeCorrect == Spec => []TypeOK
  <1>1. Init => TypeOK
    BY InitTypes
  <1>2. TypeOK /\ [Next]_vars => TypeOK'
    BY RunTypes, CloseTypes, StutterTypes DEF Next
  <1>3. QED
    BY <1>1, <1>2, PTL DEF Spec

-------------------------------------------------------------------------------
(*****************************************************************************)
(* The inductive invariant                                                   *)
(*****************************************************************************)

\* A step of a goroutine in Run keeps the invariant.
LEMMA RunInvariant ==
    ASSUME IInv, NEW r \in Runners, RunNext(r)
    PROVE  IInv'
  <1> USE DEF IInv, CancelledHasACause, FailureHasMessage
  <1>0. TypeOK'
    BY RunTypes
  <1>1. CASE RunOnce(r)
    BY <1>1, <1>0
       DEF RunOnce, Moves, TypeOK, closeVars, recorded, RunExclusive,
           RunProgress, CloseProgress, Active
  <1>2. CASE StartRunning(r)
    BY <1>2, <1>0
       DEF StartRunning, Moves, TypeOK, closeVars, recorded, RunExclusive,
           RunProgress, CloseProgress, Active
  <1>3. CASE StepRun(r)
    BY <1>3, <1>0
       DEF StepRun, Moves, TypeOK, closeVars, recorded, RunExclusive,
           RunProgress, CloseProgress, Active
  <1>4. CASE OnRunCompletion(r)
    <2>1. CASE result # NoResult
      <3>1. /\ FinalStatus(result, cancelled) \in Terminal
            /\ FinalStatus(result, cancelled) = "cancelled" =>
                  cancelled \/ result.err = "context"
            /\ FinalStatus(result, cancelled) # "success" =>
                  FinalErr(result) = "steps"
        BY <2>1, FinalStatusLemma DEF TypeOK, RunProgress
      <3>2. QED
        BY <1>4, <2>1, <3>1, <1>0
           DEF OnRunCompletion, Moves, TypeOK, closeVars, RunExclusive, RunProgress, CloseProgress, Active, Terminal
    <2>2. CASE result = NoResult
      BY <1>4, <2>2, <1>0
         DEF OnRunCompletion, Moves, TypeOK, closeVars, RunExclusive, RunProgress, CloseProgress, Active
    <2>3. QED
      BY <2>1, <2>2
  <1>5. CASE ReportError(r)
    BY <1>5, <1>0
       DEF ReportError, Moves, TypeOK, closeVars, recorded, RunExclusive,
           RunProgress, CloseProgress, Active
  <1>6. CASE Cleanup(r)
    BY <1>6, <1>0
       DEF Cleanup, Moves, TypeOK, closeVars, recorded, RunExclusive,
           RunProgress, CloseProgress, Active
  <1>7. CASE CloseLogs(r)
    BY <1>7, <1>0
       DEF CloseLogs, Moves, TypeOK, closeVars, recorded, RunExclusive,
           RunProgress, CloseProgress, Active
  <1>8. CASE SendFinish(r)
    BY <1>8, <1>0
       DEF SendFinish, Moves, TypeOK, closeVars, recorded, RunExclusive,
           RunProgress, CloseProgress, Active
  <1>9. QED
    BY <1>1, <1>2, <1>3, <1>4, <1>5, <1>6, <1>7, <1>8 DEF RunNext

\* A step of a goroutine in Close keeps the invariant.
LEMMA CloseInvariant ==
    ASSUME IInv, NEW c \in Closers, CloseNext(c)
    PROVE  IInv'
  <1> USE DEF IInv, CancelledHasACause, FailureHasMessage
  <1>0. TypeOK'
    BY CloseTypes
  <1>1. CASE CloseOnce(c)
    BY <1>1, <1>0
       DEF CloseOnce, CloseMoves, TypeOK, runVars, recorded, RunExclusive,
           RunProgress, CloseProgress, Active, InClose
  <1>2. CASE ReceiveFinish(c)
    BY <1>2, <1>0
       DEF ReceiveFinish, CloseMoves, TypeOK, runVars, recorded, RunExclusive,
           RunProgress, CloseProgress, Active, InClose
  <1>3. CASE TimerFires(c)
    BY <1>3, <1>0
       DEF TimerFires, CloseMoves, TypeOK, runVars, recorded, RunExclusive,
           RunProgress, CloseProgress, Active, InClose
  <1>4. CASE RecordTimeout(c)
    <2> USE <1>4 DEF RecordTimeout, CloseMoves, TypeOK, runVars
    <2>1. cancelled /\ cancelled'
      BY DEF CloseProgress, InClose
    <2>2. RunExclusive'
      BY DEF RunExclusive, Active
    <2>3. RunProgress'
      BY <2>1 DEF RunProgress, RunExclusive, Active, Terminal
    <2>4. CloseProgress'
      BY DEF CloseProgress, InClose
    <2>5. FailureHasMessage'
      OBVIOUS
    <2>6. CancelledHasACause'
      BY <2>1
    <2>7. QED
      BY <1>0, <2>2, <2>3, <2>4, <2>5, <2>6
  <1>5. CASE RemoveTmpDir(c)
    BY <1>5, <1>0
       DEF RemoveTmpDir, CloseMoves, TypeOK, runVars, recorded, RunExclusive,
           RunProgress, CloseProgress, Active, InClose
  <1>6. QED
    BY <1>1, <1>2, <1>3, <1>4, <1>5 DEF CloseNext

\* IInv is inductive.
LEMMA Inductive == IInv /\ [Next]_vars => IInv'
  <1>1. IInv /\ UNCHANGED vars => IInv'
    BY DEF IInv, TypeOK, RunExclusive, RunProgress, CloseProgress, Active,
           CancelledHasACause, FailureHasMessage,
           vars, runVars, closeVars, recorded
  <1>2. QED
    BY <1>1, RunInvariant, CloseInvariant DEF Next

\* The invariant holds in every reachable state.
LEMMA Invariance == Spec => []IInv
  <1>1. Init => IInv
    BY InitTypes
       DEF Init, IInv, RunExclusive, RunProgress, CloseProgress, Active,
           InClose, CancelledHasACause, FailureHasMessage, NoResult
  <1>2. QED
    BY <1>1, Inductive, PTL DEF Spec

-------------------------------------------------------------------------------
(*****************************************************************************)
(* The theorems                                                              *)
(*****************************************************************************)

\* Whoever sees the end of the logs of a job finds a final status.
THEOREM JobEndOfLogs == Spec => []EndOfLogsMeansFinal
  <1>1. IInv => EndOfLogsMeansFinal
    BY DEF IInv, EndOfLogsMeansFinal, RunProgress, RunExclusive, Active, TypeOK
  <1>2. QED
    BY <1>1, Invariance, PTL

\* Only a job that was closed, or whose steps ended with an error of a context,
\* is reported as cancelled: the guard of onRunCompletion on "signal: killed".
THEOREM JobCancelledHasACause == Spec => []CancelledHasACause
  <1>1. IInv => CancelledHasACause
    BY DEF IInv
  <1>2. QED
    BY <1>1, Invariance, PTL

\* A failed or cancelled job has a message.
THEOREM JobFailureHasMessage == Spec => []FailureHasMessage
  <1>1. IInv => FailureHasMessage
    BY DEF IInv
  <1>2. QED
    BY <1>1, Invariance, PTL

\* Run's last send finds room in finishC.
THEOREM JobFinishSend == Spec => []FinishSendNeverBlocks
  <1>1. IInv => FinishSendNeverBlocks
    BY DEF IInv, FinishSendNeverBlocks, RunExclusive, Active
  <1>2. QED
    BY <1>1, Invariance, PTL

\* A Close that returns has removed TmpDir, and has waited for Run to clean up
\* unless its timer fired.
THEOREM JobOrderlyClose == Spec => []OrderlyClose
  <1>1. IInv => OrderlyClose
    BY DEF IInv, OrderlyClose, RunProgress, CloseProgress
  <1>2. QED
    BY <1>1, Invariance, PTL

\* No step changes the status once the outcome of the steps is recorded.
THEOREM JobOutcomeIsFinal == Spec => OutcomeIsFinal
  <1>1. ASSUME IInv, finished, [Next]_vars
        PROVE  status' = status
    <2>1. ASSUME NEW r \in Runners, RunNext(r)
          PROVE  status' = status
      BY <1>1, <2>1
         DEF IInv, RunProgress, RunNext, RunOnce, StartRunning, StepRun,
             OnRunCompletion, ReportError, Cleanup, CloseLogs, SendFinish,
             Moves, recorded
    <2>2. ASSUME NEW c \in Closers, CloseNext(c)
          PROVE  status' = status
      BY <1>1, <2>2
         DEF IInv, RunProgress, CloseNext, CloseOnce, ReceiveFinish, TimerFires,
             RecordTimeout, RemoveTmpDir, recorded
    <2>3. CASE UNCHANGED vars
      BY <2>3 DEF vars, recorded
    <2>4. QED
      BY <1>1, <2>1, <2>2, <2>3 DEF Next
  <1>2. IInv /\ [Next]_vars => [finished => status' = status]_vars
    BY <1>1
  <1>3. QED
    BY <1>2, Invariance, PTL DEF Spec, OutcomeIsFinal

-------------------------------------------------------------------------------
(*****************************************************************************)
(* The job implements JobLifecycle                                           *)
(*****************************************************************************)

\* What the refinement needs beyond IInv: which steps can still follow a panic or
\* a timer.
LifecycleProgress ==
    /\ closeOnce = "new" => ~timedOut
    /\ runOnce = "new" => ~panicking
    /\ \A r \in Runners :
        runPc[r] \in {"lock", "steps", "record", "report"} => ~panicking
    /\ \A c \in Closers :
        /\ closePc[c] = "select" => ~timedOut
        /\ closePc[c] = "remove" /\ timedOut => status # "unspecified"

\* A step of a goroutine in Run keeps it.
LEMMA RunLifecycleProgress ==
    ASSUME IInv, LifecycleProgress, NEW r \in Runners, RunNext(r)
    PROVE  LifecycleProgress'
  <1> USE DEF LifecycleProgress, IInv, TypeOK, RunExclusive, Active
  <1>1. CASE RunOnce(r)
    BY <1>1 DEF RunOnce, Moves, closeVars, recorded
  <1>2. CASE StartRunning(r)
    BY <1>2 DEF StartRunning, Moves, closeVars
  <1>3. CASE StepRun(r)
    BY <1>3 DEF StepRun, Moves, closeVars, recorded
  <1>4. CASE OnRunCompletion(r)
    <2>1. status' # "unspecified"
      BY <1>4, FinalStatusLemma DEF OnRunCompletion, Moves, Terminal, RunProgress
    <2>2. QED
      BY <1>4, <2>1 DEF OnRunCompletion, Moves, closeVars
  <1>5. CASE ReportError(r)
    BY <1>5 DEF ReportError, Moves, closeVars, recorded
  <1>6. CASE Cleanup(r)
    BY <1>6 DEF Cleanup, Moves, closeVars, recorded
  <1>7. CASE CloseLogs(r)
    BY <1>7 DEF CloseLogs, Moves, closeVars, recorded
  <1>8. CASE SendFinish(r)
    BY <1>8 DEF SendFinish, Moves, closeVars, recorded
  <1>9. QED
    BY <1>1, <1>2, <1>3, <1>4, <1>5, <1>6, <1>7, <1>8 DEF RunNext

\* A step of a goroutine in Close keeps it.
LEMMA CloseLifecycleProgress ==
    ASSUME IInv, LifecycleProgress, NEW c \in Closers, CloseNext(c)
    PROVE  LifecycleProgress'
  <1> USE DEF LifecycleProgress, IInv, TypeOK, CloseProgress, InClose
  <1>1. CASE CloseOnce(c)
    BY <1>1 DEF CloseOnce, CloseMoves, runVars, recorded
  <1>2. CASE ReceiveFinish(c)
    BY <1>2 DEF ReceiveFinish, CloseMoves, runVars, recorded
  <1>3. CASE TimerFires(c)
    BY <1>3 DEF TimerFires, CloseMoves, runVars, recorded
  <1>4. CASE RecordTimeout(c)
    BY <1>4 DEF RecordTimeout, CloseMoves, runVars
  <1>5. CASE RemoveTmpDir(c)
    BY <1>5 DEF RemoveTmpDir, CloseMoves, runVars, recorded
  <1>6. QED
    BY <1>1, <1>2, <1>3, <1>4, <1>5 DEF CloseNext

\* It holds in every reachable state.
LEMMA LifecycleInvariance == Spec => [](IInv /\ LifecycleProgress)
  <1>1. Init => LifecycleProgress
    BY DEF Init, LifecycleProgress
  <1>2. IInv /\ LifecycleProgress /\ [Next]_vars => LifecycleProgress'
    <2>1. LifecycleProgress /\ UNCHANGED vars => LifecycleProgress'
      BY DEF LifecycleProgress, vars, runVars, closeVars, recorded
    <2>2. QED
      BY <2>1, RunLifecycleProgress, CloseLifecycleProgress DEF Next
  <1>3. QED
    BY <1>1, <1>2, Invariance, PTL DEF Spec

\* Whatever leads to or follows a panic is a step of Dying.
LEMMA PanicIsDying ==
    ASSUME panicking' PROVE Lifecycle!Next
  BY DEF Lifecycle!Next, Lifecycle!Dying

\* A step of a goroutine in Run is a step of the lifecycle, or leaves what it
\* sees of the job as it is.
LEMMA RunRefines ==
    ASSUME IInv, LifecycleProgress, NEW r \in Runners, RunNext(r)
    PROVE  [Lifecycle!Next]_Lifecycle!vars
  <1> USE DEF IInv, TypeOK, RunExclusive, Active, NotStarted, Lifecycle!vars
  <1>1. CASE RunOnce(r)
    BY <1>1 DEF RunOnce, Moves, closeVars, recorded
  <1>2. CASE StartRunning(r)
    BY <1>2 DEF StartRunning, Moves, closeVars, LifecycleProgress,
                Lifecycle!Next, Lifecycle!Live, Lifecycle!Start
  <1>3. CASE StepRun(r)
    BY <1>3 DEF StepRun, Moves, closeVars, recorded
  <1>4. CASE OnRunCompletion(r)
    <2>1. CASE result = NoResult
      BY <1>4, <2>1, PanicIsDying DEF OnRunCompletion
    <2>2. CASE result # NoResult
      <3>1. FinalStatus(result, cancelled) \in Terminal
        BY <2>2, FinalStatusLemma
      <3>2. QED
        BY <1>4, <2>2, <3>1
           DEF OnRunCompletion, Moves, closeVars, LifecycleProgress, Terminal,
               RunProgress,
               Lifecycle!Next, Lifecycle!Live, Lifecycle!Record,
               Lifecycle!Terminal
    <2>3. QED
      BY <2>1, <2>2
  <1>5. CASE ReportError(r)
    <2>1. CASE panicking'
      BY <2>1, PanicIsDying
    <2>2. CASE ~panicking'
      BY <1>5, <2>2 DEF ReportError, Moves, closeVars, recorded, LifecycleProgress
    <2>3. QED
      BY <2>1, <2>2
  <1>6. CASE Cleanup(r)
    BY <1>6 DEF Cleanup, Moves, closeVars, recorded
  <1>7. CASE CloseLogs(r)
    <2>1. CASE panicking
      BY <1>7, <2>1, PanicIsDying DEF CloseLogs
    <2>2. CASE ~panicking
      BY <1>7, <2>2
         DEF CloseLogs, Moves, closeVars, recorded, RunProgress, Terminal,
             Lifecycle!Next, Lifecycle!Live, Lifecycle!EndLogs,
             Lifecycle!Terminal
    <2>3. QED
      BY <2>1, <2>2
  <1>8. CASE SendFinish(r)
    <2>1. CASE panicking
      BY <1>8, <2>1, PanicIsDying DEF SendFinish
    <2>2. CASE ~panicking
      BY <1>8, <2>2
         DEF SendFinish, Moves, closeVars, recorded, RunProgress,
             Lifecycle!Next, Lifecycle!Live, Lifecycle!End
    <2>3. QED
      BY <2>1, <2>2
  <1>9. QED
    BY <1>1, <1>2, <1>3, <1>4, <1>5, <1>6, <1>7, <1>8 DEF RunNext

\* So is a step of a goroutine in Close.
LEMMA CloseRefines ==
    ASSUME IInv, LifecycleProgress, NEW c \in Closers, CloseNext(c)
    PROVE  [Lifecycle!Next]_Lifecycle!vars
  <1> USE DEF IInv, TypeOK, NotStarted, Lifecycle!vars
  <1>0. UNCHANGED <<runOnce, runPc, panicking, logs>>
    BY DEF CloseNext, CloseOnce, ReceiveFinish, TimerFires, RecordTimeout,
           RemoveTmpDir, runVars
  <1>1. CASE panicking
    BY <1>0, <1>1, PanicIsDying
  <1>2. ASSUME ~panicking, CloseOnce(c) PROVE [Lifecycle!Next]_Lifecycle!vars
    BY <1>0, <1>2 DEF CloseOnce, CloseMoves, recorded, LifecycleProgress,
                Lifecycle!Next, Lifecycle!Live, Lifecycle!Cancel
  <1>3. CASE ReceiveFinish(c)
    BY <1>0, <1>3 DEF ReceiveFinish, recorded
  <1>4. CASE TimerFires(c)
    BY <1>0, <1>4 DEF TimerFires, CloseMoves, recorded, CloseProgress, InClose
  <1>5. ASSUME ~panicking, RecordTimeout(c)
        PROVE  [Lifecycle!Next]_Lifecycle!vars
    BY <1>0, <1>5 DEF RecordTimeout, CloseMoves, CloseProgress, InClose,
                Lifecycle!Next, Lifecycle!Live, Lifecycle!Expire
  <1>6. ASSUME ~panicking, RemoveTmpDir(c)
        PROVE  [Lifecycle!Next]_Lifecycle!vars
    BY <1>0, <1>6
       DEF RemoveTmpDir, CloseMoves, recorded, RunExclusive, Active,
           CloseProgress, InClose, LifecycleProgress,
           Lifecycle!Next, Lifecycle!Live, Lifecycle!Closed
  <1>7. QED
    BY <1>1, <1>2, <1>3, <1>4, <1>5, <1>6 DEF CloseNext

\* The job implements JobLifecycle, for any number of callers: the steps start
\* once, the outcome is recorded once and before the logs end, and a Close that
\* returns in time returns after the end.
THEOREM JobKeepsLifecycle == Spec => KeepsLifecycle
  <1>1. Init => Lifecycle!Init
    BY DEF Init, Lifecycle!Init, NotStarted
  <1>2. IInv /\ LifecycleProgress /\ [Next]_vars
           => [Lifecycle!Next]_Lifecycle!vars
    <2>1. UNCHANGED vars => UNCHANGED Lifecycle!vars
      BY DEF vars, runVars, closeVars, recorded, Lifecycle!vars, NotStarted
    <2>2. QED
      BY <2>1, RunRefines, CloseRefines DEF Next
  <1>3. QED
    BY <1>1, <1>2, LifecycleInvariance, PTL DEF Spec, KeepsLifecycle, Lifecycle!Spec
===============================================================================
