-------------------------------- MODULE MCCaches --------------------------------
(*****************************************************************************)
(* Model checking of the two caches.  They have nothing in common, so only   *)
(* one of them moves in a behaviour.  Two processes share the git cache, one *)
(* of them with two calls; the branch moves and the tag appears while they   *)
(* work.                                                                     *)
(*****************************************************************************)
EXTENDS GitCache, DistCache

MCProcessOf == [g \in Calls |-> IF g = "g3" THEN "q" ELSE "p"]
MCVersionOf == [g \in Calls |-> CASE g = "g1" -> "main" [] g = "g2" -> "c2" [] OTHER -> "v1"]
MCTags == [n \in Names |-> IF n = "v1" THEN "c1" ELSE None]
MCBranches == [n \in Names |-> IF n = "main" THEN <<"c1", "c2">> ELSE <<>>]
MCStepOf == [f \in Fetches |-> IF f = "f3" THEN "missing" ELSE "script"]

Init == GitInit /\ DistInit
Next == \/ DistInit /\ GitNext /\ UNCHANGED distVars
        \/ GitInit /\ DistNext /\ UNCHANGED gitVars
Spec == Init /\ [][Next]_<<gitVars, distVars>>
===============================================================================
