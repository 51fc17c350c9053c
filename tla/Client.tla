--------------------------------- MODULE Client ---------------------------------
(*****************************************************************************)
(* The clients of the service (pkg/api/client/extended/client.go).  Each     *)
(* executes RunAndFollow: it calls Run, follows the logs, asks for the       *)
(* status, and closes the job.  A client is named after its call of Run; the *)
(* calls of Close that belong to no client are those of others, such as one  *)
(* that is sent again.                                                       *)
(*****************************************************************************)
EXTENDS Service

CONSTANTS
    FollowOf, CloseOf,  \* the FollowLogs and Close of each client
    Before              \* pairs of clients, of which one waits for the other

ASSUME ClientAssumption ==
    /\ FollowOf \in [Runs -> Follows]
    /\ CloseOf \in [Runs -> Closes]
    /\ Before \subseteq Runs \X Runs

VARIABLES
    gone,   \* clients whose call of Run ended without the answer of the service
    lost    \* clients whose call of Close did

clientVars == <<vars, gone, lost>>

ClientInit == Init /\ gone = {} /\ lost = {}

\* Mutant of Returned: no Close when following fails.
Returned_FollowFails(k) ==
    \/ k \in gone \/ pc[k] = "error"
    \/ k \in lost \/ pc[CloseOf[k]] = "done" \/ pc[FollowOf[k]] = "error"

\* RunAndFollow returns: when Run fails, or when the deferred Close returns, whose
\* error it drops.
Returned(k) ==
    \/ k \in gone \/ pc[k] = "error"
    \/ k \in lost \/ pc[CloseOf[k]] = "done"

Begins(c) == pc[c] = "start" /\ pc'[c] # "start"

\* The order in which RunAndFollow makes its calls: following, and the Status in
\* it, once Run has returned, and Close once that is over, well or not.
RunAndFollow(k) ==
    /\ Begins(k) => \A m \in Runs : <<m, k>> \in Before => Returned(m)
    /\ Begins(FollowOf[k]) => pc[k] \in {"exists", "done"} /\ k \notin gone
    /\ Begins(CloseOf[k]) => pc[FollowOf[k]] \in {"done", "error"}

\* A step of the service, for calls that the clients have made.
ServiceStep ==
    /\ Next
    /\ \A k \in Runs : RunAndFollow(k)
    /\ UNCHANGED <<gone, lost>>

\* The context of a client is cancelled while it waits for Run, or the connection
\* breaks: the call ends with an error and RunAndFollow returns.  The service does
\* not look at the context of the call and goes on.
CancelRun(k) ==
    /\ pc[k] \notin {"start", "error"}
    /\ pc[FollowOf[k]] = "start" /\ k \notin gone
    /\ gone' = gone \cup {k}
    /\ UNCHANGED <<vars, lost>>

\* The call of Close fails.  The service may have taken it, may take it later, or
\* may never see it.
CloseFails(k) ==
    /\ pc[FollowOf[k]] \in {"done", "error"}
    /\ pc[CloseOf[k]] # "done" /\ k \notin lost
    /\ lost' = lost \cup {k}
    /\ UNCHANGED <<vars, gone>>

ClientNext == ServiceStep \/ \E k \in Runs : CancelRun(k) \/ CloseFails(k)

\* The handlers of calls that have reached the service are scheduled.  It is not
\* assumed that a call reaches it, nor that one that does not ever fails: those of
\* Status and Close have no deadline.
ClientFairness ==
    /\ \A r \in Runs : WF_clientVars(pc[r] # "start" /\ RunStep(r) /\ ServiceStep)
    /\ \A c \in Closes :
          WF_clientVars(pc[c] # "start" /\ CloseStep(c) /\ ServiceStep)

ClientSpec == ClientInit /\ [][ClientNext]_clientVars /\ ClientFairness

-------------------------------------------------------------------------------
(*****************************************************************************)
(* Properties                                                                *)
(*****************************************************************************)

\* When RunAndFollow returns, the job it started is closed, also when following
\* its logs failed or was cancelled: "Close will be called on the job,
\* effectively cancelling it on the server too" (client.go).  The exceptions are
\* calls of Run or Close, by the client or by others that use its id, that did not
\* get their answer.
ReturnedClientsHaveClosed ==
    \A k \in Runs :
        Returned(k) /\ phase[k] = "running" =>
            closing[k] = "closed" \/ \E m \in gone \cup lost : IdOf[m] = IdOf[k]

\* A client that reports no error has seen a final status, unless the Run of one
\* that gave up is still under way under the same id.  That others could not close
\* their jobs does not matter: the client then follows such a job to its end.
ClientsReportFinalStatus ==
    \A k \in Runs :
        pc[FollowOf[k]] = "done" =>
            seen[FollowOf[k]] \in Terminal \/ \E m \in gone : IdOf[m] = IdOf[k]

\* A client that has stopped following, at the end of the logs or with an error,
\* returns, whatever the steps do and whoever else closes the job, unless its call
\* of Status or Close neither reaches the service nor fails.
ClientsReturn ==
    \A k \in Runs :
        pc[FollowOf[k]] \in {"followed", "failed"} ~>
            \/ Returned(k)
            \/ [](pc[FollowOf[k]] \in {"followed", "failed"})
            \/ [](pc[CloseOf[k]] = "start")
===============================================================================
