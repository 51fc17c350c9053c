-------------------------------- MODULE Service --------------------------------
(*****************************************************************************)
(* The gRPC service (pkg/api/service/service.go): the handlers of Run,       *)
(* Close, FollowLogs and Status, the map of jobs they share                  *)
(* (pkg/internal/syncmap) and the directory in which each job keeps its log  *)
(* and its file variables.  The map is locked for one operation at a time,   *)
(* so handlers interleave between any two of them.                           *)
(*                                                                           *)
(* The job that a Run creates is named after that Run.  Jobs behave as       *)
(* JobLifecycle says; a panic, which would end the service, is left out.     *)
(*****************************************************************************)
CONSTANTS
    Ids,        \* job ids
    Runs,       \* calls of Run
    Closes,     \* calls of Close
    Follows,    \* calls of FollowLogs, each followed by one of Status
    IdOf,       \* the id each call names
    None        \* no job

Calls == Runs \cup Closes \cup Follows

ASSUME ServiceAssumption ==
    /\ IdOf \in [Calls -> Ids]
    /\ None \notin Runs
    /\ Runs \cap Closes = {} /\ Runs \cap Follows = {} /\ Closes \cap Follows = {}

VARIABLES
    jobs,       \* s.jobs: the job registered under each id, or None
    dir,        \* the ids whose directory (TmpDir of the job) exists
    pc,         \* where each call is
    found,      \* the job a Close or FollowLogs got from the map
    seen,       \* the status a client got at the end of the logs
    phase, status, logs, closing, late      \* the state of each job

callVars == <<pc, found, seen>>
jobVars  == <<phase, status, logs, closing, late>>
vars == <<jobs, dir, callVars, jobVars>>

Terminal == {"success", "failure", "cancelled"}

Init ==
    /\ jobs = [i \in Ids |-> None]
    /\ dir = {}
    /\ pc = [c \in Calls |-> "start"]
    /\ found = [c \in Closes \cup Follows |-> None]
    /\ seen = [f \in Follows |-> "none"]
    /\ phase = [r \in Runs |-> "new"]
    /\ status = [r \in Runs |-> "unspecified"]
    /\ logs = [r \in Runs |-> "none"]
    /\ closing = [r \in Runs |-> "open"]
    /\ late = [r \in Runs |-> FALSE]

Moves(c, from, to) == pc[c] = from /\ pc' = [pc EXCEPT ![c] = to]

-------------------------------------------------------------------------------
(*****************************************************************************)
(* Run                                                                       *)
(*****************************************************************************)

\* A registered job with that id answers the call; steps that cannot be read or
\* compiled end it with an error.
RunGet(r) ==
    /\ \/ jobs[IdOf[r]] # None /\ Moves(r, "start", "exists")
       \/ jobs[IdOf[r]] = None /\ Moves(r, "start", "new")
       \/ jobs[IdOf[r]] = None /\ Moves(r, "start", "error")
    /\ UNCHANGED <<jobs, dir, found, seen, jobVars>>

\* jobs.New creates the directory, which may exist, and the log in it.  When
\* the log cannot be created the directory is removed again.
RunNewJob(r) ==
    /\ \/ /\ Moves(r, "new", "prepare")
          /\ dir' = dir \cup {IdOf[r]}
          /\ logs' = [logs EXCEPT ![r] = "open"]
       \/ /\ Moves(r, "new", "error")
          /\ dir' \in {dir, dir \ {IdOf[r]}}
          /\ UNCHANGED logs
    /\ UNCHANGED <<jobs, found, seen, phase, status, closing, late>>

\* Mutant of RunPrepare: the deferred call does not see the error (another err).
RunPrepare_NoClose(r) ==
    /\ \/ Moves(r, "prepare", "put")
       \/ Moves(r, "prepare", "error")
    /\ UNCHANGED <<jobs, dir, found, seen, jobVars>>

\* Variables, environment, parsing and the steps context; any of them may fail,
\* and then the deferred call closes the job.
RunPrepare(r) ==
    /\ \/ Moves(r, "prepare", "put")
       \/ Moves(r, "prepare", "abort")
    /\ UNCHANGED <<jobs, dir, found, seen, jobVars>>

\* Mutant of RunPut: the job is started, and registered in the next step.
RunPut_StartsFirst(r) ==
    /\ pc[r] = "put"
    /\ \/ /\ phase[r] = "new"
          /\ phase' = [phase EXCEPT ![r] = "running"]
          /\ status' = [status EXCEPT ![r] = "running"]
          /\ UNCHANGED <<jobs, pc>>
       \/ /\ phase[r] # "new"
          /\ jobs' = [jobs EXCEPT ![IdOf[r]] = r]
          /\ pc' = [pc EXCEPT ![r] = "done"]
          /\ UNCHANGED <<phase, status>>
    /\ UNCHANGED <<dir, found, seen, logs, closing, late>>

\* Register the job ...
RunPut(r) ==
    /\ Moves(r, "put", "execute")
    /\ jobs' = [jobs EXCEPT ![IdOf[r]] = r]
    /\ UNCHANGED <<dir, found, seen, jobVars>>

\* ... start the goroutine that executes it, and return.
RunExecute(r) ==
    /\ Moves(r, "execute", "done")
    /\ UNCHANGED <<jobs, dir, found, seen, jobVars>>

-------------------------------------------------------------------------------
(*****************************************************************************)
(* The goroutine of a job: Job.Run                                           *)
(*****************************************************************************)

JobStart(r) ==
    /\ pc[r] = "done" /\ phase[r] = "new"
    /\ phase' = [phase EXCEPT ![r] = "running"]
    /\ status' = [status EXCEPT ![r] = "running"]
    /\ UNCHANGED <<jobs, dir, callVars, logs, closing, late>>

JobRecord(r) ==
    /\ phase[r] = "running" /\ status[r] = "running"
    /\ \E st \in Terminal : status' = [status EXCEPT ![r] = st]
    /\ UNCHANGED <<jobs, dir, callVars, phase, logs, closing, late>>

\* Mutant of JobEndLogs: the logs are closed before the outcome is recorded.
JobEndLogs_Early(r) ==
    /\ phase[r] = "running" /\ logs[r] = "open"
    /\ logs' = [logs EXCEPT ![r] = "closed"]
    /\ UNCHANGED <<jobs, dir, callVars, phase, status, closing, late>>

JobEndLogs(r) ==
    /\ phase[r] = "running" /\ status[r] \in Terminal /\ logs[r] = "open"
    /\ logs' = [logs EXCEPT ![r] = "closed"]
    /\ UNCHANGED <<jobs, dir, callVars, phase, status, closing, late>>

\* Mutant of JobEnd: the job removes its directory.
JobEnd_RemovesDir(r) ==
    /\ phase[r] = "running" /\ logs[r] = "closed"
    /\ phase' = [phase EXCEPT ![r] = "ended"]
    /\ dir' = dir \ {IdOf[r]}
    /\ UNCHANGED <<jobs, callVars, status, logs, closing, late>>

JobEnd(r) ==
    /\ phase[r] = "running" /\ logs[r] = "closed"
    /\ phase' = [phase EXCEPT ![r] = "ended"]
    /\ UNCHANGED <<jobs, dir, callVars, status, logs, closing, late>>

-------------------------------------------------------------------------------
(*****************************************************************************)
(* Job.Close of job j, called by c                                           *)
(*****************************************************************************)

\* The first Close cancels the job and waits; it ends when the job has ended or
\* its timer has fired, and removes the directory.  Any other Close waits for
\* the first.
CloseBegin(c, j, from, wait, to) ==
    /\ \/ /\ Moves(c, from, wait)
          /\ closing[j] = "open"
          /\ closing' = [closing EXCEPT ![j] = "closing"]
       \/ /\ Moves(c, from, to)
          /\ closing[j] = "closed"
          /\ UNCHANGED closing
    /\ UNCHANGED <<jobs, dir, found, seen, phase, status, logs, late>>

\* Mutant of CloseEnd: no timer.
CloseEnd_NoTimer(c, j, wait, to) ==
    /\ Moves(c, wait, to)
    /\ phase[j] = "ended"
    /\ closing' = [closing EXCEPT ![j] = "closed"]
    /\ dir' = dir \ {IdOf[j]}
    /\ UNCHANGED <<jobs, found, seen, phase, status, logs, late>>

CloseEnd(c, j, wait, to) ==
    /\ Moves(c, wait, to)
    /\ \/ /\ phase[j] = "ended"
          /\ UNCHANGED <<late, status>>
       \/ /\ late' = [late EXCEPT ![j] = TRUE]
          /\ status' = [status EXCEPT ![j] =
                           IF @ = "unspecified" THEN "cancelled" ELSE @]
    /\ closing' = [closing EXCEPT ![j] = "closed"]
    /\ dir' = dir \ {IdOf[j]}
    /\ UNCHANGED <<jobs, found, seen, phase, logs>>

\* The deferred Close of a Run that fails.
RunAbort(r) ==
    \/ CloseBegin(r, r, "abort", "aborting", "error")
    \/ CloseEnd(r, r, "aborting", "error")

-------------------------------------------------------------------------------
(*****************************************************************************)
(* Close                                                                     *)
(*****************************************************************************)

CloseGet(c) ==
    /\ LET j == jobs[IdOf[c]] IN
       /\ Moves(c, "start", IF j = None THEN "done" ELSE "close")
       /\ found' = [found EXCEPT ![c] = j]
    /\ UNCHANGED <<jobs, dir, seen, jobVars>>

CloseJob(c) ==
    \/ CloseBegin(c, found[c], "close", "closing", "remove")
    \/ CloseEnd(c, found[c], "closing", "remove")

\* Mutant of CloseRemove: the job stays registered.
CloseRemove_Keeps(c) ==
    /\ Moves(c, "remove", "done")
    /\ UNCHANGED <<jobs, dir, found, seen, jobVars>>

\* The entry of the id is removed, whichever job it holds by now.
CloseRemove(c) ==
    /\ Moves(c, "remove", "done")
    /\ jobs' = [jobs EXCEPT ![IdOf[c]] = None]
    /\ UNCHANGED <<dir, found, seen, jobVars>>

-------------------------------------------------------------------------------
(*****************************************************************************)
(* FollowLogs, and the Status that the clients ask for after it              *)
(*****************************************************************************)

FollowGet(f) ==
    /\ LET j == jobs[IdOf[f]] IN
       /\ Moves(f, "start", IF j = None THEN "failed" ELSE "open")
       /\ found' = [found EXCEPT ![f] = j]
    /\ UNCHANGED <<jobs, dir, seen, jobVars>>

FollowOpen(f) ==
    /\ Moves(f, "open", IF IdOf[f] \in dir THEN "follow" ELSE "failed")
    /\ UNCHANGED <<jobs, dir, found, seen, jobVars>>

\* The stream ends with the logs of the job, or earlier with an error: the
\* client is gone or its context is cancelled.
FollowEnd(f) ==
    /\ \/ Moves(f, "follow", "followed") /\ logs[found[f]] = "closed"
       \/ Moves(f, "follow", "failed")
    /\ UNCHANGED <<jobs, dir, found, seen, jobVars>>

\* Status by id, of whichever job is registered by now, whether or not the logs
\* could be followed.  The call may fail.
StatusGet(f) ==
    /\ LET j == jobs[IdOf[f]] IN
       /\ \/ Moves(f, "followed", IF j = None THEN "error" ELSE "done")
          \/ Moves(f, "followed", "error")
          \/ Moves(f, "failed", "error")
       /\ seen' = [seen EXCEPT ![f] = IF j = None THEN @ ELSE status[j]]
    /\ UNCHANGED <<jobs, dir, found, jobVars>>

-------------------------------------------------------------------------------
RunStep(r) ==
    \/ RunGet(r) \/ RunNewJob(r) \/ RunPrepare(r) \/ RunPut(r) \/ RunExecute(r)
    \/ RunAbort(r)
JobStep(r) == JobStart(r) \/ JobRecord(r) \/ JobEndLogs(r) \/ JobEnd(r)
CloseStep(c) == CloseGet(c) \/ CloseJob(c) \/ CloseRemove(c)
FollowStep(f) ==
    FollowGet(f) \/ FollowOpen(f) \/ FollowEnd(f) \/ StatusGet(f)

Next ==
    \/ \E r \in Runs : RunStep(r) \/ JobStep(r)
    \/ \E c \in Closes : CloseStep(c)
    \/ \E f \in Follows : FollowStep(f)

\* Handlers that can run are scheduled.  The arrival of a call is not assumed,
\* and neither is that the steps of a job ever end.
Fairness ==
    /\ \A r \in Runs : WF_vars(pc[r] # "start" /\ RunStep(r))
    /\ \A c \in Closes : WF_vars(pc[c] # "start" /\ CloseStep(c))

Spec == Init /\ [][Next]_vars
FairSpec == Spec /\ Fairness

-------------------------------------------------------------------------------
(*****************************************************************************)
(* Properties                                                                *)
(*****************************************************************************)

\* Another Run of the same id went on although r is one, too: it had looked for the
\* id before r registered its job, or after a Close removed it.
Contended(r) ==
    \E q \in Runs \ {r} : IdOf[q] = IdOf[r] /\ pc[q] \notin {"start", "exists"}

\* Another Run of the same id has registered its job, too.
Replaced(r) ==
    \E q \in Runs \ {r} : IdOf[q] = IdOf[r] /\ pc[q] \in {"execute", "done"}

\* A job whose steps run can be found, and therefore closed, until a Close of it
\* has waited for it.  It loses its entry only when another Run of the same id
\* registers its job as well, to that one or to a Close of that one; a Run that is
\* answered "exists" or fails never takes it away, and neither does the Close of a
\* job that failed to start (Run, Close).
RunningJobsAreRegistered ==
    \A r \in Runs :
        phase[r] = "running" /\ closing[r] # "closed" =>
            jobs[IdOf[r]] = r \/ Replaced(r)

\* The directory with the log and the file variables of a job exists as long as
\* the job is in use: nothing removes it but its own Close, or what another Run
\* of the same id does that passed the check of the map.
RunningJobsHaveDir ==
    \A r \in Runs :
        pc[r] \in {"prepare", "put", "execute", "done"} /\ closing[r] = "open" =>
            IdOf[r] \in dir \/ Contended(r)

\* A Close that returns after it found a job leaves nothing of it: it is no
\* longer registered, it is closed, and it has ended unless Close gave up waiting.
ClosedJobsAreGone ==
    \A c \in Closes :
        pc[c] = "done" /\ found[c] # None =>
            /\ closing[found[c]] = "closed"
            /\ jobs[IdOf[c]] # found[c]
            /\ phase[found[c]] = "ended" \/ late[found[c]]

\* Every Run and every Close that arrives returns, even when the steps of the
\* job never end and when several of them close the same job.
CallsReturn ==
    \A c \in Runs \cup Closes :
        pc[c] # "start" ~> pc[c] \in {"exists", "done", "error"}

\* No directory is forgotten, wherever a Run fails and whoever closes its job: one
\* that exists belongs to a job that is not closed and that its own Run has in hand
\* or that is registered, so that a Close finds it.  Only when two Runs of an id
\* have registered their jobs may it belong to one that nobody can reach any more.
DirsCanBeRemoved ==
    \A i \in dir : \E r \in Runs :
        /\ IdOf[r] = i /\ closing[r] # "closed"
        /\ \/ pc[r] \in {"prepare", "put", "abort", "aborting"}
           \/ jobs[i] = r
           \/ Replaced(r)
===============================================================================
