------------------------------ MODULE MCRaftLease ------------------------------
(* TLC instances of RaftLease: three servers on hosts of their own.  With   *)
(* no commands every AppendEntries is a heartbeat.                          *)
EXTENDS RaftLease

CONSTANTS a, b, c

Servers == {a, b, c}
OwnHost == [r \in Servers |-> r]
Rivals  == {<<a, 1>>, <<c, 2>>}
================================================================================
