------------------------------- MODULE MCMencius -------------------------------
(* TLC instances of Mencius: three servers and four slots.  Server 0        *)
(* proposes c1 and then c3, server 1 proposes c2, and server 2, which owns  *)
(* slot 3, is idle.  c1 and c2 conflict.                                    *)
EXTENDS Mencius

CONSTANTS c1, c2, c3, x, y

Cmds     == {c1, c2, c3}
Keys     == {x, y}
OnKey    == [c \in Cmds |-> IF c = c3 THEN y ELSE x]
Proposes == [c \in Cmds |-> IF c = c2 THEN 1 ELSE 0]
================================================================================
