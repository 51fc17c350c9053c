------------------------------ MODULE ClientProofs ------------------------------
(*****************************************************************************)
(* The safety properties of Service, proved for any ids and any number of    *)
(* calls, whichever ids they name, and those of Client, for any number of    *)
(* clients and any ids, as long as clients that share an id take turns.      *)
(*****************************************************************************)
EXTENDS Client, TLAPS

(*****************************************************************************)
(* The service                                                               *)
(*****************************************************************************)

RunPlaces == {"start", "exists", "new", "prepare", "put", "execute", "done",
              "abort", "aborting", "error"}
ClosePlaces == {"start", "close", "closing", "remove", "done"}
FollowPlaces == {"start", "open", "follow", "followed", "failed", "done", "error"}

\* The places at which the job of a Run is or has been registered.
Published == {"execute", "done"}

\* The type of every variable that the proofs are about.
Types ==
    /\ jobs \in [Ids -> Runs \cup {None}]
    /\ dir \subseteq Ids
    /\ pc \in [Calls -> RunPlaces \cup ClosePlaces \cup FollowPlaces]
    /\ found \in [Closes \cup Follows -> Runs \cup {None}]
    /\ phase \in [Runs -> {"new", "running", "ended"}]
    /\ status \in [Runs -> Terminal \cup {"unspecified", "running"}]
    /\ logs \in [Runs -> {"none", "open", "closed"}]
    /\ closing \in [Runs -> {"open", "closing", "closed"}]
    /\ late \in [Runs -> BOOLEAN]

\* The map, and what a handler got from it, lead to jobs of the id that were
\* registered; only such a job executes.
MapIsSound ==
    /\ \A i \in Ids : jobs[i] # None =>
          IdOf[jobs[i]] = i /\ pc[jobs[i]] \in Published
    /\ \A c \in Closes \cup Follows : found[c] # None =>
          IdOf[found[c]] = IdOf[c] /\ pc[found[c]] \in Published
    /\ \A r \in Runs : phase[r] # "new" => pc[r] = "done"
    /\ \A r \in Runs : logs[r] = "closed" => phase[r] # "new"

\* One call at most is inside the closeOnce of a job: a Close that found it, or
\* the Run that gives it up.
ClosingIsExclusive ==
    /\ \A c \in Closes : pc[c] \in {"close", "closing", "remove"} => found[c] # None
    /\ \A c \in Closes : pc[c] = "closing" => closing[found[c]] = "closing"
    /\ \A c, d \in Closes :
          pc[c] = "closing" /\ pc[d] = "closing" /\ found[c] = found[d] => c = d
    /\ \A r \in Runs : pc[r] = "aborting" => closing[r] = "closing"

\* What a job that is closed has behind it, and who may say that it is.
ClosedIsOver ==
    /\ \A r \in Runs : closing[r] = "closed" => phase[r] = "ended" \/ late[r]
    /\ \A c \in Closes :
          pc[c] \in {"remove", "done"} /\ found[c] # None =>
             closing[found[c]] = "closed"
    /\ \A c \in Closes :
          pc[c] = "done" /\ found[c] # None => jobs[IdOf[c]] # found[c]

\* A job that was registered stays so until it is closed, unless another one of
\* its id was registered, too.
PublishedIsRegistered ==
    \A r \in Runs :
        pc[r] \in Published /\ closing[r] # "closed" =>
            jobs[IdOf[r]] = r \/ Replaced(r)

\* The inductive invariant.
IInv ==
    /\ Types
    /\ MapIsSound
    /\ ClosingIsExclusive
    /\ ClosedIsOver
    /\ PublishedIsRegistered
    /\ RunningJobsHaveDir

-------------------------------------------------------------------------------
(*****************************************************************************)
(* Lemmas                                                                    *)
(*****************************************************************************)

\* What the provers need of the constants.
LEMMA CallFacts ==
    /\ \A c \in Calls : IdOf[c] \in Ids
    /\ Runs \subseteq Calls /\ Closes \subseteq Calls /\ Follows \subseteq Calls
    /\ None \notin Runs
    /\ \A r \in Runs : r \notin Closes /\ r \notin Follows
    /\ \A c \in Closes : c \notin Follows
  BY ServiceAssumption DEF Calls

\* The end of Job.Close keeps the types.
LEMMA CloseEndTypes ==
    ASSUME Types, NEW c \in Calls, NEW j \in Runs, NEW wait,
           NEW to \in RunPlaces \cup ClosePlaces, CloseEnd(c, j, wait, to)
    PROVE  Types'
  <1> USE DEF Types, CloseEnd
  <1>1. late' \in [Runs -> BOOLEAN]
    <2>1. CASE UNCHANGED late
      BY <2>1, Zenon
    <2>2. CASE late' = [late EXCEPT ![j] = TRUE]
      BY <2>2, Zenon
    <2>3. QED
      BY <2>1, <2>2
  <1>2. status' \in [Runs -> Terminal \cup {"unspecified", "running"}]
    BY DEF Terminal
  <1>3. pc' \in [Calls -> RunPlaces \cup ClosePlaces \cup FollowPlaces]
    BY DEF Moves
  <1>4. QED
    BY <1>1, <1>2, <1>3

-------------------------------------------------------------------------------
(*****************************************************************************)
(* The inductive invariant                                                   *)
(*****************************************************************************)

\* A step of the handler of Run, up to the deferred Close, keeps the invariant.
LEMMA RunInvariant ==
    ASSUME IInv, NEW r \in Runs,
           \/ RunGet(r) \/ RunNewJob(r) \/ RunPrepare(r) \/ RunPut(r)
           \/ RunExecute(r)
    PROVE  IInv'
  <1> USE CallFacts
      DEF IInv, Types, MapIsSound, ClosingIsExclusive, ClosedIsOver,
          PublishedIsRegistered, RunningJobsHaveDir, Contended, Replaced,
          Published, RunPlaces, ClosePlaces, FollowPlaces, Moves
  <1>1. CASE RunGet(r)
    BY <1>1 DEF RunGet, jobVars
  <1>2. CASE RunNewJob(r)
    BY <1>2 DEF RunNewJob
  <1>3. CASE RunPrepare(r)
    BY <1>3 DEF RunPrepare, jobVars
  <1>4. CASE RunPut(r)
    BY <1>4 DEF RunPut, jobVars
  <1>5. CASE RunExecute(r)
    BY <1>5 DEF RunExecute, jobVars
  <1>6. QED
    BY <1>1, <1>2, <1>3, <1>4, <1>5

\* A Run that fails closes its own job, which nobody can have found.
LEMMA AbortInvariant ==
    ASSUME IInv, NEW r \in Runs, RunAbort(r)
    PROVE  IInv'
  <1> USE CallFacts
      DEF IInv, Types, MapIsSound, ClosingIsExclusive, ClosedIsOver,
          PublishedIsRegistered, RunningJobsHaveDir, Contended, Replaced,
          Published, RunPlaces, ClosePlaces, FollowPlaces, Moves
  <1>1. CASE CloseBegin(r, r, "abort", "aborting", "error")
    BY <1>1 DEF CloseBegin
  <1>2. CASE CloseEnd(r, r, "aborting", "error")
    <2>1. Types'
      BY <1>2, CloseEndTypes
    <2> USE <1>2 DEF CloseEnd
    <2>2. MapIsSound' /\ ClosingIsExclusive'
      OBVIOUS
    <2>3. ClosedIsOver'
      OBVIOUS
    <2>4. PublishedIsRegistered'
      OBVIOUS
    <2>5. RunningJobsHaveDir'
      OBVIOUS
    <2>6. QED
      BY <2>1, <2>2, <2>3, <2>4, <2>5
  <1>3. QED
    BY <1>1, <1>2 DEF RunAbort

\* A step of the goroutine of a job keeps the invariant.
LEMMA JobInvariant ==
    ASSUME IInv, NEW r \in Runs, JobStep(r)
    PROVE  IInv'
  <1> USE CallFacts
      DEF IInv, Types, MapIsSound, ClosingIsExclusive, ClosedIsOver,
          PublishedIsRegistered, RunningJobsHaveDir, Contended, Replaced, Published,
          callVars
  <1>1. CASE JobStart(r)
    BY <1>1 DEF JobStart
  <1>2. CASE JobRecord(r)
    BY <1>2 DEF JobRecord
  <1>3. CASE JobEndLogs(r)
    BY <1>3 DEF JobEndLogs
  <1>4. CASE JobEnd(r)
    BY <1>4 DEF JobEnd
  <1>5. QED
    BY <1>1, <1>2, <1>3, <1>4 DEF JobStep

\* A step of the handler of Close keeps the invariant.
LEMMA CloseInvariant ==
    ASSUME IInv, NEW c \in Closes, CloseStep(c)
    PROVE  IInv'
  <1> USE CallFacts
      DEF IInv, Types, MapIsSound, ClosingIsExclusive, ClosedIsOver,
          PublishedIsRegistered, RunningJobsHaveDir, Contended, Replaced,
          Published, RunPlaces, ClosePlaces, FollowPlaces, Moves
  <1>1. CASE CloseGet(c)
    BY <1>1 DEF CloseGet, jobVars
  <1>2. CASE CloseBegin(c, found[c], "close", "closing", "remove")
    BY <1>2 DEF CloseBegin
  <1>3. CASE CloseEnd(c, found[c], "closing", "remove")
    <2>0. found[c] \in Runs
      BY <1>3 DEF CloseEnd
    <2>1. Types'
      BY <1>3, <2>0, CloseEndTypes
    <2> USE <1>3 DEF CloseEnd
    <2>2. MapIsSound' /\ ClosingIsExclusive'
      OBVIOUS
    <2>3. ClosedIsOver'
      OBVIOUS
    <2>4. PublishedIsRegistered'
      OBVIOUS
    <2>5. RunningJobsHaveDir'
      OBVIOUS
    <2>6. QED
      BY <2>1, <2>2, <2>3, <2>4, <2>5
  <1>4. CASE CloseRemove(c)
    BY <1>4 DEF CloseRemove, jobVars
  <1>5. QED
    BY <1>1, <1>2, <1>3, <1>4 DEF CloseStep, CloseJob

\* A step of the handlers of FollowLogs and Status keeps the invariant.
LEMMA FollowInvariant ==
    ASSUME IInv, NEW f \in Follows, FollowStep(f)
    PROVE  IInv'
  <1> USE CallFacts
      DEF IInv, Types, MapIsSound, ClosingIsExclusive, ClosedIsOver,
          PublishedIsRegistered, RunningJobsHaveDir, Contended, Replaced,
          Published, RunPlaces, ClosePlaces, FollowPlaces, Moves, jobVars
  <1>1. CASE FollowGet(f)
    BY <1>1 DEF FollowGet
  <1>2. CASE FollowOpen(f)
    BY <1>2 DEF FollowOpen
  <1>3. CASE FollowEnd(f)
    BY <1>3 DEF FollowEnd
  <1>4. CASE StatusGet(f)
    BY <1>4 DEF StatusGet
  <1>5. QED
    BY <1>1, <1>2, <1>3, <1>4 DEF FollowStep

\* The invariant holds initially.
LEMMA InitInvariant == Init => IInv
  BY CallFacts
     DEF Init, IInv, Types, MapIsSound, ClosingIsExclusive, ClosedIsOver,
         PublishedIsRegistered, RunningJobsHaveDir, Published, RunPlaces,
         ClosePlaces, FollowPlaces

\* IInv is inductive.
LEMMA Inductive == IInv /\ [Next]_vars => IInv'
  <1>1. IInv /\ UNCHANGED vars => IInv'
    BY DEF IInv, Types, MapIsSound, ClosingIsExclusive, ClosedIsOver,
           PublishedIsRegistered, RunningJobsHaveDir, Contended, Replaced,
           vars, callVars, jobVars
  <1>2. QED
    BY <1>1, RunInvariant, AbortInvariant, JobInvariant, CloseInvariant,
       FollowInvariant
       DEF Next, RunStep

\* The invariant holds in every reachable state.
LEMMA Invariance == Spec => []IInv
  BY InitInvariant, Inductive, PTL DEF Spec

-------------------------------------------------------------------------------
(*****************************************************************************)
(* The theorems                                                              *)
(*****************************************************************************)

\* A job whose steps run is found under its id until it is closed, unless another
\* Run of the id has registered its job, too.
THEOREM ServiceRunningJobsAreRegistered == Spec => []RunningJobsAreRegistered
  <1>1. IInv => RunningJobsAreRegistered
    BY DEF IInv, RunningJobsAreRegistered, PublishedIsRegistered, MapIsSound,
           Published
  <1>2. QED
    BY <1>1, Invariance, PTL

\* The directory of a job that is not closed exists, unless another Run of the id
\* passed the check of the map.
THEOREM ServiceRunningJobsHaveDir == Spec => []RunningJobsHaveDir
  <1>1. IInv => RunningJobsHaveDir
    BY DEF IInv
  <1>2. QED
    BY <1>1, Invariance, PTL

\* A Close that returns leaves nothing of the job that it found.
THEOREM ServiceClosedJobsAreGone == Spec => []ClosedJobsAreGone
  <1>1. IInv => ClosedJobsAreGone
    BY DEF IInv, ClosedJobsAreGone, ClosedIsOver, Types
  <1>2. QED
    BY <1>1, Invariance, PTL

-------------------------------------------------------------------------------
(*****************************************************************************)
(* Directories                                                               *)
(*****************************************************************************)

\* Nobody closes a job before it is registered, but the Run that gives it up.
NewJobsAreOpen ==
    \A r \in Runs :
        pc[r] \in {"start", "new", "prepare", "put", "abort"} => closing[r] = "open"

\* A directory was made for a job that is not closed.
DirsHaveAJob ==
    \A i \in dir : \E r \in Runs :
        /\ IdOf[r] = i /\ closing[r] # "closed"
        /\ pc[r] \in {"prepare", "put", "abort", "aborting"} \cup Published

\* Jobs are still open until they are registered or given up.
LEMMA NewJobsInvariant ==
    ASSUME IInv, NewJobsAreOpen, Next
    PROVE  NewJobsAreOpen'
  <1> USE CallFacts DEF IInv, Types, NewJobsAreOpen, Moves, MapIsSound, Published
  <1>1. ASSUME NEW r \in Runs, RunStep(r) PROVE NewJobsAreOpen'
    BY <1>1 DEF RunStep, RunGet, RunNewJob, RunPrepare, RunPut, RunExecute,
                RunAbort, CloseBegin, CloseEnd, jobVars
  <1>2. ASSUME NEW r \in Runs, JobStep(r) PROVE NewJobsAreOpen'
    BY <1>2 DEF JobStep, JobStart, JobRecord, JobEndLogs, JobEnd, callVars
  <1>3. ASSUME NEW c \in Closes, CloseStep(c) PROVE NewJobsAreOpen'
    BY <1>3 DEF CloseStep, CloseGet, CloseJob, CloseBegin, CloseEnd, CloseRemove,
                jobVars, ClosingIsExclusive
  <1>4. ASSUME NEW f \in Follows, FollowStep(f) PROVE NewJobsAreOpen'
    BY <1>4 DEF FollowStep, FollowGet, FollowOpen, FollowEnd, StatusGet, jobVars
  <1>5. QED
    BY <1>1, <1>2, <1>3, <1>4 DEF Next

\* Directories still have their jobs: the Close that ends one removes the directory.
LEMMA DirsInvariant ==
    ASSUME IInv, NewJobsAreOpen, DirsHaveAJob, Next
    PROVE  DirsHaveAJob'
  <1> USE CallFacts DEF IInv, Types, DirsHaveAJob, Moves, Published
  <1>1. ASSUME NEW r \in Runs, RunStep(r) PROVE DirsHaveAJob'
    <2>1. CASE RunGet(r) \/ RunPrepare(r) \/ RunPut(r) \/ RunExecute(r)
      BY <2>1 DEF RunGet, RunPrepare, RunPut, RunExecute, jobVars
    <2>2. CASE RunNewJob(r)
      BY <2>2 DEF RunNewJob, NewJobsAreOpen
    <2>3. CASE CloseBegin(r, r, "abort", "aborting", "error")
      BY <2>3 DEF CloseBegin
    <2>4. CASE CloseEnd(r, r, "aborting", "error")
      BY <2>4 DEF CloseEnd
    <2>5. QED
      BY <1>1, <2>1, <2>2, <2>3, <2>4 DEF RunStep, RunAbort
  <1>2. ASSUME NEW r \in Runs, JobStep(r) PROVE DirsHaveAJob'
    BY <1>2 DEF JobStep, JobStart, JobRecord, JobEndLogs, JobEnd, callVars
  <1>3. ASSUME NEW c \in Closes, CloseStep(c) PROVE DirsHaveAJob'
    <2>1. CASE CloseGet(c) \/ CloseRemove(c)
      BY <2>1 DEF CloseGet, CloseRemove, jobVars
    <2>2. CASE CloseBegin(c, found[c], "close", "closing", "remove")
      BY <2>2 DEF CloseBegin
    <2>3. CASE CloseEnd(c, found[c], "closing", "remove")
      <3>1. found[c] \in Runs
        BY <2>3 DEF CloseEnd, ClosingIsExclusive
      <3>2. QED
        BY <2>3, <3>1 DEF CloseEnd
    <2>4. QED
      BY <1>3, <2>1, <2>2, <2>3 DEF CloseStep, CloseJob
  <1>4. ASSUME NEW f \in Follows, FollowStep(f) PROVE DirsHaveAJob'
    BY <1>4 DEF FollowStep, FollowGet, FollowOpen, FollowEnd, StatusGet, jobVars
  <1>5. QED
    BY <1>1, <1>2, <1>3, <1>4 DEF Next

\* No directory is forgotten: its job is in the hands of its Run, or registered,
\* unless two jobs of the id were.
THEOREM ServiceDirsCanBeRemoved == Spec => []DirsCanBeRemoved
  <1> DEFINE Inv == IInv /\ NewJobsAreOpen /\ DirsHaveAJob
  <1>1. Init => Inv
    BY InitInvariant DEF Init, NewJobsAreOpen, DirsHaveAJob
  <1>2. Inv /\ [Next]_vars => Inv'
    <2>1. Inv /\ UNCHANGED vars => Inv'
      BY Inductive DEF NewJobsAreOpen, DirsHaveAJob, vars, callVars, jobVars
    <2>2. QED
      BY <2>1, Inductive, NewJobsInvariant, DirsInvariant
  <1>3. Inv => DirsCanBeRemoved
    BY DEF IInv, DirsHaveAJob, DirsCanBeRemoved, PublishedIsRegistered
  <1>4. QED
    BY <1>1, <1>2, <1>3, PTL DEF Spec

-------------------------------------------------------------------------------
(*****************************************************************************)
(* Clients                                                                   *)
(*****************************************************************************)

\* Clients that use one id do so one after the other, each makes calls of its own,
\* with its id, and nobody else calls Close.  Run client_resent_close shows that the
\* last condition cannot be dropped.
ClientsTakeTurns ==
    /\ \A k \in Runs : IdOf[FollowOf[k]] = IdOf[k] /\ IdOf[CloseOf[k]] = IdOf[k]
    /\ \A c \in Closes : \E k \in Runs : c = CloseOf[k]
    /\ \A k, m \in Runs : k # m => FollowOf[k] # FollowOf[m] /\ CloseOf[k] # CloseOf[m]
    /\ \A k, m \in Runs : k # m /\ IdOf[k] = IdOf[m] =>
          <<k, m>> \in Before \/ <<m, k>> \in Before

\* Nobody who used the id of k has given up during Run ...
NoneGone(k) == \A m \in gone : IdOf[m] # IdOf[k]

\* ... or had a Close that failed.
Clean(k) == \A m \in gone \cup lost : IdOf[m] # IdOf[k]

\* The calls of a client follow each other, and so do the clients.
CallOrder ==
    /\ gone \subseteq Runs /\ lost \subseteq Runs
    /\ \A k \in Runs :
        /\ pc[FollowOf[k]] # "start" => pc[k] \in {"exists", "done"}
        /\ pc[CloseOf[k]] # "start" => pc[FollowOf[k]] \in {"done", "error"}
        /\ k \in gone => pc[k] # "start"
        /\ k \in lost => pc[FollowOf[k]] \in {"done", "error"}
        /\ \A m \in Runs : <<m, k>> \in Before /\ pc[k] # "start" => Returned(m)

\* The logs of a job end after its status is final, and a client that saw them end
\* saw those of the job it found.
LogsEndLast ==
    /\ seen \in [Follows -> Terminal \cup {"none", "unspecified", "running"}]
    /\ \A r \in Runs : logs[r] = "closed" => status[r] \in Terminal
    /\ \A f \in Follows :
          pc[f] \in {"open", "follow", "followed"} => found[f] # None
    /\ \A f \in Follows : pc[f] = "followed" => logs[found[f]] = "closed"

\* A client deals with the job that it started, which is registered until its own
\* Close has begun.
OwnJob(k) ==
    /\ pc[k] # "exists"
    /\ pc[k] \in Published /\ pc[CloseOf[k]] = "start" =>
          jobs[IdOf[k]] = k /\ closing[k] = "open"
    /\ pc[k] \in Published /\ pc[CloseOf[k]] # "start" => found[CloseOf[k]] = k

\* While a client follows, its id leads to the job it found or to none, and the
\* status it gets at the end of the logs is final.
FollowedJob(k) ==
    /\ pc[FollowOf[k]] # "start" /\ ~Returned(k) =>
          jobs[IdOf[k]] \in {None, found[FollowOf[k]]}
    /\ pc[FollowOf[k]] = "done" => seen[FollowOf[k]] \in Terminal

\* The inductive invariant, over that of the service.
ClientInv ==
    /\ IInv
    /\ CallOrder
    /\ LogsEndLast
    /\ NewJobsAreOpen
    /\ \A k \in Runs : Clean(k) => OwnJob(k)
    /\ \A k \in Runs : NoneGone(k) => FollowedJob(k)

-------------------------------------------------------------------------------
(*****************************************************************************)
(* Lemmas                                                                    *)
(*****************************************************************************)

\* The calls of a client are calls of the service.
LEMMA ClientFacts ==
    /\ \A k \in Runs : FollowOf[k] \in Follows /\ CloseOf[k] \in Closes
    /\ \A k \in Runs : FollowOf[k] \in Calls /\ CloseOf[k] \in Calls
  BY ClientAssumption DEF Calls

\* Where a call ends, it stays, and no call begins twice.
CallsStay ==
    /\ \A r \in Runs : pc[r] \in {"exists", "done", "error"} => pc'[r] = pc[r]
    /\ \A f \in Follows : pc[f] \in {"done", "error"} => pc'[f] = pc[f]
    /\ \A c \in Closes : pc[c] = "done" => pc'[c] = pc[c]
    /\ \A c \in Calls : pc'[c] = "start" => pc[c] = "start"

\* Calls that have returned stay so, and no call begins twice.
LEMMA CallsEndOnce ==
    ASSUME IInv, Next
    PROVE  CallsStay
  <1>1. ASSUME NEW r \in Runs, RunStep(r) PROVE CallsStay
    BY <1>1, CallFacts
       DEF RunStep, RunGet, RunNewJob, RunPrepare, RunPut, RunExecute,
           RunAbort, CloseBegin, CloseEnd, CallsStay, IInv, Types, Moves
  <1>2. ASSUME NEW r \in Runs, JobStep(r) PROVE CallsStay
    BY <1>2 DEF JobStep, JobStart, JobRecord, JobEndLogs, JobEnd, callVars, CallsStay
  <1>3. ASSUME NEW c \in Closes, CloseStep(c) PROVE CallsStay
    BY <1>3, CallFacts
       DEF CloseStep, CloseGet, CloseJob, CloseRemove, CloseBegin, CloseEnd,
           CallsStay, IInv, Types, Moves
  <1>4. ASSUME NEW f \in Follows, FollowStep(f) PROVE CallsStay
    BY <1>4, CallFacts
       DEF FollowStep, FollowGet, FollowOpen, FollowEnd, StatusGet, CallsStay,
           IInv, Types, Moves
  <1>5. QED
    BY <1>1, <1>2, <1>3, <1>4 DEF Next

\* A client that has returned does not come back.
LEMMA ReturnedStays ==
    ASSUME IInv, ServiceStep, NEW k \in Runs, Returned(k)
    PROVE  Returned(k)'
  BY CallsEndOnce, ClientFacts DEF ServiceStep, Returned, CallsStay

\* The order of the calls is kept.
LEMMA CallOrderInvariant ==
    ASSUME IInv, CallOrder, ServiceStep
    PROVE  CallOrder'
  <1>1. UNCHANGED <<gone, lost>> /\ \A k \in Runs : RunAndFollow(k)
    BY DEF ServiceStep
  <1>2. CallsStay
    BY CallsEndOnce DEF ServiceStep
  <1>3. ASSUME NEW k \in Runs, pc'[FollowOf[k]] # "start"
        PROVE  pc'[k] \in {"exists", "done"}
    BY <1>1, <1>2, <1>3, ClientFacts DEF CallOrder, CallsStay, RunAndFollow, Begins
  <1>4. ASSUME NEW k \in Runs, pc'[CloseOf[k]] # "start"
        PROVE  pc'[FollowOf[k]] \in {"done", "error"}
    BY <1>1, <1>2, <1>4, ClientFacts DEF CallOrder, CallsStay, RunAndFollow, Begins
  <1>5. ASSUME NEW k \in gone PROVE pc'[k] # "start"
    BY <1>2, <1>5, CallFacts DEF CallOrder, CallsStay
  <1>5a. ASSUME NEW k \in lost PROVE pc'[FollowOf[k]] \in {"done", "error"}
    BY <1>2, <1>5a, ClientFacts DEF CallOrder, CallsStay
  <1>6. ASSUME NEW k \in Runs, NEW m \in Runs, <<m, k>> \in Before,
               pc'[k] # "start"
        PROVE  Returned(m)'
    <2>1. Returned(m)
      BY <1>1, <1>6 DEF CallOrder, RunAndFollow, Begins
    <2>2. QED
      BY <2>1, ReturnedStays
  <1>7. QED
    BY <1>1, <1>3, <1>4, <1>5, <1>5a, <1>6 DEF CallOrder

\* While one client is at work, the others of its id have not begun or are done.
LEMMA OthersAreIdle ==
    ASSUME ClientsTakeTurns, CallOrder, NEW k \in Runs, NEW m \in Runs, k # m,
           IdOf[k] = IdOf[m], NoneGone(k), pc[k] # "start", ~Returned(k)
    PROVE  /\ pc[m] \in {"start", "error", "exists", "done"}
           /\ m \notin lost => pc[CloseOf[m]] \in {"start", "done"}
  <1>1. m \notin gone
    BY DEF NoneGone
  <1>2. pc[m] = "start" \/ Returned(m)
    BY DEF ClientsTakeTurns, CallOrder
  <1>3. QED
    BY <1>1, <1>2 DEF CallOrder, Returned

\* A client that begins finds its id free.
LEMMA IdIsFree ==
    ASSUME ClientsTakeTurns, ClientInv, NEW k \in Runs, pc[k] = "start", Clean(k),
           \A m \in Runs : <<m, k>> \in Before => Returned(m)
    PROVE  jobs[IdOf[k]] = None
  <1> SUFFICES ASSUME jobs[IdOf[k]] # None PROVE FALSE
    OBVIOUS
  <1>1. PICK j \in Runs : j = jobs[IdOf[k]]
    BY CallFacts DEF ClientInv, IInv, Types
  <1>2. IdOf[j] = IdOf[k] /\ pc[j] \in Published
    BY <1>1, CallFacts DEF ClientInv, IInv, MapIsSound
  <1>3. ~Returned(k)
    BY DEF ClientInv, CallOrder, Returned
  <1>4. Returned(j)
    BY <1>2, <1>3 DEF ClientsTakeTurns, ClientInv, CallOrder, Published
  <1>5. pc[CloseOf[j]] = "done" /\ Clean(j)
    BY <1>2, <1>4 DEF Returned, Clean, Published
  <1>6. found[CloseOf[j]] = j
    BY <1>2, <1>5 DEF ClientInv, OwnJob
  <1>7. QED
    BY <1>1, <1>2, <1>5, <1>6, CallFacts, ClientFacts
       DEF ClientInv, IInv, ClosedIsOver, ClientsTakeTurns

-------------------------------------------------------------------------------
(*****************************************************************************)
(* The inductive invariant                                                   *)
(*****************************************************************************)

\* The logs of a job still end last.
LEMMA LogsInvariant ==
    ASSUME IInv, LogsEndLast, Next
    PROVE  LogsEndLast'
  <1> USE CallFacts DEF IInv, Types, LogsEndLast, Moves, Terminal
  <1>1. ASSUME NEW r \in Runs, RunStep(r) PROVE LogsEndLast'
    <2>1. CASE RunGet(r) \/ RunPrepare(r) \/ RunPut(r) \/ RunExecute(r)
      BY <2>1 DEF RunGet, RunPrepare, RunPut, RunExecute, jobVars
    <2>2. CASE RunNewJob(r)
      BY <2>2 DEF RunNewJob, MapIsSound, Published
    <2>3. CASE RunAbort(r)
      BY <2>3 DEF RunAbort, CloseBegin, CloseEnd
    <2>4. QED
      BY <1>1, <2>1, <2>2, <2>3 DEF RunStep
  <1>2. ASSUME NEW r \in Runs, JobStep(r) PROVE LogsEndLast'
    BY <1>2 DEF JobStep, JobStart, JobRecord, JobEndLogs, JobEnd, callVars, MapIsSound
  <1>3. ASSUME NEW c \in Closes, CloseStep(c) PROVE LogsEndLast'
    <2>1. CASE CloseGet(c) \/ CloseRemove(c)
      BY <2>1 DEF CloseGet, CloseRemove, jobVars
    <2>2. CASE CloseJob(c)
      BY <2>2 DEF CloseJob, CloseBegin, CloseEnd, ClosingIsExclusive
    <2>3. QED
      BY <1>3, <2>1, <2>2 DEF CloseStep
  <1>4. ASSUME NEW f \in Follows, FollowStep(f) PROVE LogsEndLast'
    BY <1>4 DEF FollowStep, FollowGet, FollowOpen, FollowEnd, StatusGet, jobVars
  <1>5. QED
    BY <1>1, <1>2, <1>3, <1>4 DEF Next

\* What the service does in a Run leaves a client that nobody disturbs its job.
LEMMA RunKeepsOwnJob ==
    ASSUME ClientsTakeTurns, ClientInv, ServiceStep, NEW k \in Runs, Clean(k),
           NEW r \in Runs, RunStep(r)
    PROVE  OwnJob(k)'
  <1> USE CallFacts, ClientFacts
      DEF ClientInv, IInv, Types, OwnJob, Moves, Published
  <1>1. CASE RunGet(r)
    <2>1. CASE r = k
      <3>1. jobs[IdOf[k]] = None
        BY <1>1, <2>1, IdIsFree DEF RunGet, ServiceStep, RunAndFollow, Begins
      <3>2. QED
        BY <1>1, <2>1, <3>1 DEF RunGet, jobVars
    <2>2. CASE r # k
      BY <1>1, <2>2 DEF RunGet, jobVars
    <2>3. QED
      BY <2>1, <2>2
  <1>2. CASE RunNewJob(r) \/ RunPrepare(r) \/ RunExecute(r)
    BY <1>2 DEF RunNewJob, RunPrepare, RunExecute, jobVars
  <1>3. CASE RunPut(r)
    <2>1. CASE r = k
      BY <1>3, <2>1 DEF RunPut, jobVars, NewJobsAreOpen, CallOrder
    <2>2. CASE r # k /\ IdOf[r] = IdOf[k] /\ pc[k] \in Published
      BY <1>3, <2>2, OthersAreIdle
         DEF RunPut, Returned, CallOrder, Clean, NoneGone, ClientsTakeTurns
    <2>3. CASE r # k /\ ~(IdOf[r] = IdOf[k] /\ pc[k] \in Published)
      BY <1>3, <2>3 DEF RunPut, jobVars
    <2>4. QED
      BY <2>1, <2>2, <2>3
  <1>4. CASE RunAbort(r)
    BY <1>4 DEF RunAbort, CloseBegin, CloseEnd
  <1>5. QED
    BY <1>1, <1>2, <1>3, <1>4 DEF RunStep

\* So does the goroutine of a job.
LEMMA JobKeepsOwnJob ==
    ASSUME ClientInv, NEW k \in Runs, Clean(k), NEW r \in Runs, JobStep(r)
    PROVE  OwnJob(k)'
  BY DEF ClientInv, OwnJob, JobStep, JobStart, JobRecord, JobEndLogs, JobEnd, callVars

\* The Close that reaches the job of a client is its own.
LEMMA CloseKeepsOwnJob ==
    ASSUME ClientsTakeTurns, ClientInv, ServiceStep, NEW k \in Runs, Clean(k),
           NEW c \in Closes, CloseStep(c)
    PROVE  OwnJob(k)'
  <1> USE CallFacts, ClientFacts
      DEF ClientInv, IInv, Types, OwnJob, Moves, Published
  <1>1. PICK m \in Runs : c = CloseOf[m]
    BY DEF ClientsTakeTurns
  <1>2. CASE m = k
    <2>1. IdOf[c] = IdOf[k]
      BY <1>1, <1>2 DEF ClientsTakeTurns
    <2>2. QED
      BY <1>1, <1>2, <2>1 DEF CloseStep, CloseGet, CloseJob, CloseBegin, CloseEnd,
                              CloseRemove, jobVars
  <1>3. CASE m # k /\ IdOf[m] = IdOf[k] /\ pc[k] \in Published
                  /\ pc[CloseOf[k]] = "start"
    <2>1. pc[c] = "start"
      BY <1>1, <1>3, OthersAreIdle DEF CloseStep, CloseGet, CloseJob, CloseBegin,
           CloseEnd, CloseRemove, Returned, Clean, NoneGone, CallOrder
    <2>2. QED
      BY <1>1, <1>3, <2>1 DEF CloseStep, CloseGet, CloseJob, CloseBegin, CloseEnd,
           CloseRemove, jobVars, ClientsTakeTurns
  <1>4. CASE m # k /\ ~(IdOf[m] = IdOf[k] /\ pc[k] \in Published
                  /\ pc[CloseOf[k]] = "start")
    <2>1. CloseOf[k] # c /\ IdOf[c] = IdOf[m]
      BY <1>1, <1>4 DEF ClientsTakeTurns
    <2>2. CASE CloseGet(c) \/ CloseRemove(c)
      BY <1>1, <1>4, <2>1, <2>2 DEF CloseGet, CloseRemove, jobVars
    <2>3. CASE CloseJob(c)
      <3>1. found[c] \in Runs /\ IdOf[found[c]] = IdOf[m]
        BY <2>1, <2>3 DEF CloseJob, CloseBegin, CloseEnd, ClosingIsExclusive, MapIsSound
      <3>2. QED
        BY <1>1, <1>4, <2>1, <2>3, <3>1 DEF CloseJob, CloseBegin, CloseEnd
    <2>4. QED
      BY <2>2, <2>3 DEF CloseStep
  <1>5. QED
    BY <1>2, <1>3, <1>4

\* Following changes nothing of it.
LEMMA FollowKeepsOwnJob ==
    ASSUME ClientInv, NEW k \in Runs, Clean(k), NEW f \in Follows, FollowStep(f)
    PROVE  OwnJob(k)'
  BY CallFacts, ClientFacts
     DEF ClientInv, IInv, Types, OwnJob, Moves, Published, jobVars,
         FollowStep, FollowGet, FollowOpen, FollowEnd, StatusGet

\* The id of a client that follows leads to no other job than the one it found,
\* since nobody registers one meanwhile, and the status of that one is final.
LEMMA FollowedJobInvariant ==
    ASSUME ClientsTakeTurns, ClientInv, ServiceStep, NEW k \in Runs, NoneGone(k)
    PROVE  FollowedJob(k)'
  <1> USE CallFacts, ClientFacts DEF ClientInv, IInv, Types, FollowedJob, Moves
  <1>0. Returned(k) => Returned(k)'
    BY ReturnedStays
  <1>1. ASSUME NEW r \in Runs, RunStep(r) PROVE FollowedJob(k)'
    <2>1. CASE RunPut(r)
      <3>1. CASE pc[FollowOf[k]] # "start" /\ ~Returned(k) /\ IdOf[r] = IdOf[k]
        <4>1. pc[k] \in {"exists", "done"}
          BY <3>1 DEF CallOrder
        <4>2. r # k
          BY <2>1, <4>1 DEF RunPut
        <4>3. pc[r] \in {"start", "error", "exists", "done"}
          BY <3>1, <4>1, <4>2, OthersAreIdle
        <4>4. QED
          BY <2>1, <4>3 DEF RunPut
      <3>2. CASE ~(pc[FollowOf[k]] # "start" /\ ~Returned(k) /\ IdOf[r] = IdOf[k])
        BY <1>0, <2>1, <3>2 DEF RunPut
      <3>3. QED
        BY <3>1, <3>2
    <2>2. CASE ~RunPut(r)
      <3>1. jobs' = jobs /\ found' = found /\ seen' = seen
        BY <1>1, <2>2 DEF RunStep, RunGet, RunNewJob, RunPrepare, RunExecute,
                          RunAbort, CloseBegin, CloseEnd
      <3>2. pc'[FollowOf[k]] = pc[FollowOf[k]]
        BY <1>1, <2>2 DEF RunStep, RunGet, RunNewJob, RunPrepare, RunExecute,
                          RunAbort, CloseBegin, CloseEnd
      <3>3. QED
        BY <1>0, <3>1, <3>2
    <2>3. QED
      BY <2>1, <2>2
  <1>2. ASSUME NEW r \in Runs, JobStep(r) PROVE FollowedJob(k)'
    BY <1>0, <1>2 DEF JobStep, JobStart, JobRecord, JobEndLogs, JobEnd, callVars
  <1>3. ASSUME NEW c \in Closes, CloseStep(c) PROVE FollowedJob(k)'
    BY <1>0, <1>3 DEF CloseStep, CloseGet, CloseJob, CloseBegin, CloseEnd, CloseRemove
  <1>4. ASSUME NEW f \in Follows, FollowStep(f) PROVE FollowedJob(k)'
    <2>1. CASE f = FollowOf[k]
      <3>1. IdOf[f] = IdOf[k]
        BY <2>1 DEF ClientsTakeTurns
      <3>2. CASE FollowGet(f)
        BY <2>1, <3>1, <3>2 DEF FollowGet
      <3>3. CASE FollowOpen(f) \/ FollowEnd(f)
        BY <1>0, <2>1, <3>3 DEF FollowOpen, FollowEnd
      <3>4. CASE StatusGet(f)
        <4>1. pc[f] \in {"followed", "failed"} /\ UNCHANGED <<jobs, found>>
          BY <3>4 DEF StatusGet
        <4>2. ASSUME pc'[f] = "done" PROVE seen'[f] \in Terminal
          <5>1. pc[f] = "followed" /\ jobs[IdOf[k]] # None
            BY <3>1, <3>4, <4>2 DEF StatusGet
          <5>2. ~Returned(k)
            BY <2>1, <5>1 DEF CallOrder, Returned, NoneGone
          <5>3. jobs[IdOf[k]] = found[f]
            BY <2>1, <5>1, <5>2
          <5>4. found[f] \in Runs /\ status[found[f]] \in Terminal
            BY <5>1 DEF LogsEndLast
          <5>5. QED
            BY <3>1, <3>4, <5>1, <5>3, <5>4 DEF StatusGet, LogsEndLast
        <4>3. QED
          BY <1>0, <2>1, <4>1, <4>2
      <3>5. QED
        BY <1>4, <3>2, <3>3, <3>4 DEF FollowStep
    <2>2. CASE f # FollowOf[k]
      BY <1>0, <1>4, <2>2 DEF FollowStep, FollowGet, FollowOpen, FollowEnd, StatusGet,
                              LogsEndLast
    <2>3. QED
      BY <2>1, <2>2
  <1>5. QED
    BY <1>1, <1>2, <1>3, <1>4 DEF ServiceStep, Next

\* A call of Run or Close that fails changes nothing for clients of other ids.
LEMMA FailInvariant ==
    ASSUME ClientInv, NEW m \in Runs, CancelRun(m) \/ CloseFails(m)
    PROVE  ClientInv'
  <1>1. UNCHANGED vars /\ gone \subseteq gone' /\ lost \subseteq lost'
    BY DEF CancelRun, CloseFails
  <1>2. IInv'
    BY <1>1, Inductive DEF ClientInv
  <1>3. CallOrder'
    BY DEF CancelRun, CloseFails, ClientInv, CallOrder, Returned, vars, callVars
  <1>4. LogsEndLast' /\ NewJobsAreOpen'
    BY <1>1 DEF ClientInv, LogsEndLast, NewJobsAreOpen, vars, callVars, jobVars
  <1>5. ASSUME NEW k \in Runs, Clean(k)' PROVE OwnJob(k)'
    BY <1>1, <1>5 DEF ClientInv, Clean, OwnJob, vars, callVars, jobVars
  <1>6. ASSUME NEW k \in Runs, NoneGone(k)' PROVE FollowedJob(k)'
    BY <1>1, <1>6
       DEF ClientInv, NoneGone, FollowedJob, Returned, vars, callVars, jobVars
  <1>7. QED
    BY <1>2, <1>3, <1>4, <1>5, <1>6 DEF ClientInv

\* ClientInv is inductive when clients of one id take turns.
LEMMA ClientInductive ==
    ASSUME ClientsTakeTurns, ClientInv, [ClientNext]_clientVars
    PROVE  ClientInv'
  <1>1. CASE ServiceStep
    <2>1. IInv'
      BY <1>1, Inductive DEF ClientInv, ServiceStep
    <2>2. CallOrder'
      BY <1>1, CallOrderInvariant DEF ClientInv
    <2>3. LogsEndLast' /\ NewJobsAreOpen'
      BY <1>1, LogsInvariant, NewJobsInvariant DEF ClientInv, ServiceStep
    <2>4. ASSUME NEW k \in Runs, Clean(k)' PROVE OwnJob(k)'
      <3>1. Clean(k)
        BY <1>1, <2>4 DEF Clean, ServiceStep
      <3>2. QED
        BY <1>1, <3>1, RunKeepsOwnJob, JobKeepsOwnJob, CloseKeepsOwnJob,
           FollowKeepsOwnJob
           DEF ServiceStep, Next
    <2>5. ASSUME NEW k \in Runs, NoneGone(k)' PROVE FollowedJob(k)'
      <3>1. NoneGone(k)
        BY <1>1, <2>5 DEF NoneGone, ServiceStep
      <3>2. QED
        BY <1>1, <3>1, FollowedJobInvariant
    <2>6. QED
      BY <2>1, <2>2, <2>3, <2>4, <2>5 DEF ClientInv
  <1>2. CASE \E m \in Runs : CancelRun(m) \/ CloseFails(m)
    BY <1>2, FailInvariant
  <1>3. CASE UNCHANGED clientVars
    <2>1. IInv'
      BY <1>3, Inductive DEF ClientInv, clientVars
    <2>2. QED
      BY <1>3, <2>1 DEF ClientInv, CallOrder, LogsEndLast, NewJobsAreOpen, Clean,
                        NoneGone, OwnJob, FollowedJob, Returned,
                        clientVars, vars, callVars, jobVars
  <1>4. QED
    BY <1>1, <1>2, <1>3 DEF ClientNext

\* It holds initially.
LEMMA ClientInitInvariant == ClientInit => ClientInv
  <1> SUFFICES ASSUME ClientInit PROVE ClientInv
    OBVIOUS
  <1>1. IInv
    BY InitInvariant DEF ClientInit
  <1>2. QED
    BY <1>1, CallFacts, ClientFacts
       DEF ClientInit, Init, ClientInv, CallOrder, LogsEndLast, NewJobsAreOpen,
           OwnJob, FollowedJob, Published

-------------------------------------------------------------------------------
(*****************************************************************************)
(* The theorems                                                              *)
(*****************************************************************************)

\* When RunAndFollow returns, the job that it started is closed, for clients of
\* one id that take turns, unless a Run or a Close of one of them got no answer.
THEOREM ClientReturnedClientsHaveClosed ==
    ASSUME ClientsTakeTurns
    PROVE  ClientSpec => []ReturnedClientsHaveClosed
  <1>1. ClientInv => ReturnedClientsHaveClosed
    <2> SUFFICES ASSUME ClientInv, NEW k \in Runs, Returned(k),
                        phase[k] = "running", Clean(k)
                 PROVE  closing[k] = "closed"
      BY DEF ReturnedClientsHaveClosed, Clean
    <2>1. pc[k] = "done"
      BY DEF ClientInv, IInv, MapIsSound
    <2>2. pc[CloseOf[k]] = "done"
      BY <2>1 DEF Returned, Clean
    <2>3. found[CloseOf[k]] = k
      BY <2>1, <2>2 DEF ClientInv, OwnJob, Published
    <2>4. QED
      BY <2>2, <2>3, CallFacts, ClientFacts DEF ClientInv, IInv, ClosedIsOver
  <1>2. QED
    BY <1>1, ClientInitInvariant, ClientInductive, PTL DEF ClientSpec

\* A client that reports no error has seen a final status, for clients of one id
\* that take turns, unless one of them gave up during its Run; it does not matter
\* whether they could close their jobs.
THEOREM ClientClientsReportFinalStatus ==
    ASSUME ClientsTakeTurns
    PROVE  ClientSpec => []ClientsReportFinalStatus
  <1>1. ClientInv => ClientsReportFinalStatus
    BY DEF ClientInv, FollowedJob, NoneGone, ClientsReportFinalStatus
  <1>2. QED
    BY <1>1, ClientInitInvariant, ClientInductive, PTL DEF ClientSpec
===============================================================================
