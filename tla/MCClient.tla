-------------------------------- MODULE MCClient --------------------------------
(*****************************************************************************)
(* Model checking of Client: two clients that use one id, one after the      *)
(* other.                                                                    *)
(*****************************************************************************)
EXTENDS Client

CONSTANTS a, r1, r2, f1, f2, c1, c2

MCFollowOf == [k \in Runs |-> IF k = r1 THEN f1 ELSE f2]
MCCloseOf  == [k \in Runs |-> IF k = r1 THEN c1 ELSE c2]
MCIdOf == [c \in Calls |-> a]
MCBefore == {<<r1, r2>>}
===============================================================================
