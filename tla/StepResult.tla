------------------------------- MODULE StepResult -------------------------------
(*****************************************************************************)
(* What Step.Run of pkg/runner returns, as far as Job.onRunCompletion tells  *)
(* it apart.  Steps produces these values and Job consumes them.             *)
(*****************************************************************************)

NoResult == [status |-> "nil", err |-> "other"]

\* The pairs of result and error that the steps of pkg/runner return, with the
\* errors told apart as onRunCompletion does: none, one of the context, one that
\* ends in "signal: killed", any other.  A step whose first log line cannot be
\* written returns no result at all.
StepResults ==
    { [status |-> "success", err |-> "nil"],
      [status |-> "failure", err |-> "other"],
      [status |-> "failure", err |-> "killed"],
      [status |-> "failure", err |-> "context"],
      NoResult }
===============================================================================
