------------------------------- MODULE MCService -------------------------------
(*****************************************************************************)
(* Model checking of Service: two Runs and two Closes of one id.             *)
(*****************************************************************************)
EXTENDS Service

CONSTANT a

MCIdOf == [c \in Calls |-> a]
===============================================================================
