----------------------------- MODULE MCRuleFastPath -----------------------------
(* TLC instances of RuleFastPath: three replicas, where the fast quorum is  *)
(* all of them; one client runs two transactions one after the other, a     *)
(* second one runs a third, all on one key.                                 *)
EXTENDS RuleFastPath

CONSTANTS r1, r2, r3, k1, k2, w1, w2, w3, x

MCReplica == {r1, r2, r3}
MCCoord   == {k1, k2}
MCCmd     == {w1, w2, w3}
MCKey     == {x}
MCKeyOf   == [c \in MCCmd |-> x]
MCCoordOf == [c \in MCCmd |-> IF c = w3 THEN k2 ELSE k1]
MCAttempts == [c \in MCCmd |-> IF c = w2 THEN {FALSE} ELSE {TRUE}]
Followers == Permutations(MCReplica \ {r1})
================================================================================
