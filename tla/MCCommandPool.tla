----------------------------- MODULE MCCommandPool -----------------------------
(* TLC instances of CommandPool: three commands on one key and one on a     *)
(* second key, reads and writes, fast-path and original-path-only.          *)
EXTENDS CommandPool

CONSTANTS w1, w2, r1, o1, x1, k1, k2

MCCmd    == {w1, w2, r1, o1, x1}
MCKey    == {k1, k2}
MCKeyOf  == [c \in MCCmd |-> IF c = x1 THEN k2 ELSE k1]
MCWrites == {w1, w2, o1, x1}
MCOrigOnly == {o1}
================================================================================
