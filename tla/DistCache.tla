------------------------------- MODULE DistCache -------------------------------
(*****************************************************************************)
(* The steps that are embedded in the program (dist/step_finder.go) and the  *)
(* fetcher that copies them to a directory of the process                    *)
(* (pkg/cache/dist).                                                         *)
(*****************************************************************************)
EXTENDS Naturals

CONSTANTS
    Fetches,        \* calls of Fetch, by the jobs of the process
    StepOf,         \* StepOf[f]: the step that call f fetches
    Distributed     \* the steps that are embedded

\* "" stands for a mutex that nobody holds.
ASSUME DistAssumption == "" \notin Fetches

Steps == { StepOf[f] : f \in Fetches }

VARIABLES
    workDir,    \* "" or the number of the directory
    copies,     \* copies[s]: the copy of step s in workDir
    workDirMu,  \* the call that holds the mutex
    distPc, fetched,
    botched     \* steps whose copy has failed half-way

distVars == <<workDir, copies, workDirMu, distPc, fetched, botched>>

DistInit ==
    /\ workDir = "" /\ workDirMu = ""
    /\ copies = [s \in Steps |-> "absent"]
    /\ distPc = [f \in Fetches |-> "call"]
    /\ fetched = [f \in Fetches |-> ""]
    /\ botched = {}

DistReturn(f, r) ==
    /\ distPc' = [distPc EXCEPT ![f] = "done"]
    /\ fetched' = [fetched EXCEPT ![f] = r]
    /\ workDirMu' = ""

\* Mutant of FetchLock: without the mutex.
FetchLock_None(f) ==
    /\ distPc[f] = "call"
    /\ workDirMu' = f
    /\ distPc' = [distPc EXCEPT ![f] = "stat"]
    /\ UNCHANGED <<workDir, copies, fetched, botched>>

FetchLock(f) ==
    /\ distPc[f] = "call" /\ workDirMu = ""
    /\ workDirMu' = f
    /\ distPc' = [distPc EXCEPT ![f] = "stat"]
    /\ UNCHANGED <<workDir, copies, fetched, botched>>

\* FindDistributedStep.
Finds(s) == s \in Distributed

\* The directory is created once.  A step that is there is not copied again.
FetchStat(f) ==
    /\ distPc[f] = "stat"
    /\ \/ DistReturn(f, "error") /\ UNCHANGED <<workDir, copies>>
       \/ /\ workDir' = "dir"
          /\ \/ ~Finds(StepOf[f]) /\ DistReturn(f, "error") /\ UNCHANGED copies
             \/ /\ Finds(StepOf[f]) /\ copies[StepOf[f]] # "absent"
                /\ DistReturn(f, "ok")
                /\ UNCHANGED copies
             \/ /\ Finds(StepOf[f]) /\ copies[StepOf[f]] = "absent"
                /\ copies' = [copies EXCEPT ![StepOf[f]] = "partial"]
                /\ distPc' = [distPc EXCEPT ![f] = "copy"]
                /\ UNCHANGED <<workDirMu, fetched>>
    /\ UNCHANGED botched

\* The files are copied and get their permissions.  Either may fail, and what has
\* been copied stays.
FetchCopy(f) ==
    /\ distPc[f] = "copy"
    /\ \/ /\ copies' = [copies EXCEPT ![StepOf[f]] = "whole"]
          /\ DistReturn(f, "ok")
          /\ UNCHANGED botched
       \/ /\ botched' = botched \cup {StepOf[f]}
          /\ DistReturn(f, "error")
          /\ UNCHANGED copies
    /\ UNCHANGED workDir

CleanUp ==
    /\ workDirMu = "" /\ workDir # ""
    /\ workDir' = "" /\ copies' = [s \in Steps |-> "absent"] /\ botched' = {}
    /\ UNCHANGED <<workDirMu, distPc, fetched>>

DistNext ==
    \/ CleanUp
    \/ \E f \in Fetches : FetchLock(f) \/ FetchStat(f) \/ FetchCopy(f)

DistSpec == DistInit /\ [][DistNext]_distVars

-------------------------------------------------------------------------------
\* When Fetch of a step returns, the step is there as a whole, also when another
\* job fetches it at the same time; except for a step whose copy has failed
\* before: what there is of it is taken for the step.
FetchedStepsAreWhole ==
    [][\A f \in Fetches : fetched[f] = "" /\ fetched'[f] = "ok" =>
          StepOf[f] \in botched \/ copies'[StepOf[f]] = "whole"]_distVars
===============================================================================
