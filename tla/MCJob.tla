--------------------------------- MODULE MCJob ---------------------------------
(*****************************************************************************)
(* Model checking of Job: two goroutines call Run and two call Close, so     *)
(* that both sync.Once are contended.                                        *)
(*****************************************************************************)
EXTENDS Job
===============================================================================
