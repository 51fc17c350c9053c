------------------------------ MODULE JobLifecycle ------------------------------
(*****************************************************************************)
(* What a job promises to the service and its clients: the order of its      *)
(* start, its outcome, the end of its log stream and its end, and what a     *)
(* Close that returns tells.  Job implements this specification, and Service *)
(* uses one such job per request.                                            *)
(*****************************************************************************)

VARIABLES
    phase,      \* "new", "running" or "ended"
    status,     \* the status the job reports
    logs,       \* "open" or "closed"
    closing,    \* "open", "closing" or "closed"
    late,       \* Close gave up waiting for the job to end
    alive       \* the process has not begun to die of a panic

vars == <<phase, status, logs, closing, late, alive>>

Terminal == {"success", "failure", "cancelled"}

Init ==
    /\ phase = "new" /\ status = "unspecified" /\ logs = "open"
    /\ closing = "open" /\ late = FALSE /\ alive = TRUE

\* The steps begin, even when the job is already being closed.
Start ==
    /\ phase = "new" /\ phase' = "running"
    /\ status' = "running"
    /\ UNCHANGED <<logs, closing, late>>

\* The outcome is recorded once; it may be "cancelled" although nobody called
\* Close, when the steps ended with the error of some other context.
Record ==
    /\ phase = "running" /\ status = "running"
    /\ status' \in Terminal
    /\ UNCHANGED <<phase, logs, closing, late>>

\* The log stream ends after the outcome is recorded ...
EndLogs ==
    /\ phase = "running" /\ status \in Terminal /\ logs = "open"
    /\ logs' = "closed"
    /\ UNCHANGED <<phase, status, closing, late>>

\* ... and the job ends after the log stream.
End ==
    /\ phase = "running" /\ logs = "closed"
    /\ phase' = "ended"
    /\ UNCHANGED <<status, logs, closing, late>>

Cancel ==
    /\ closing = "open" /\ closing' = "closing"
    /\ UNCHANGED <<phase, status, logs, late>>

\* A job that has not started when Close stops waiting reports "cancelled" ...
Expire ==
    /\ closing = "closing" /\ status = "unspecified"
    /\ status' = "cancelled"
    /\ UNCHANGED <<phase, logs, closing, late>>

\* ... at the latest when Close returns.  Close returns when the job has ended,
\* or late.
Closed ==
    /\ closing = "closing" /\ closing' = "closed"
    /\ \/ phase = "ended" /\ UNCHANGED <<late, status>>
       \/ /\ late' = TRUE
          /\ status' = IF status = "unspecified" THEN "cancelled" ELSE status
    /\ UNCHANGED <<phase, logs>>

\* A panic takes the process down; nothing is promised of what it still does.
Dying == alive' = FALSE

Live ==
    /\ alive /\ alive' = alive
    /\ \/ Start \/ Record \/ EndLogs \/ End \/ Cancel \/ Expire \/ Closed

Next == Live \/ Dying

Spec == Init /\ [][Next]_vars
===============================================================================
