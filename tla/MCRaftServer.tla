----------------------------- MODULE MCRaftServer -----------------------------
(* TLC instances of RaftServer: three servers, on one host each or on one.  *)
EXTENDS RaftLog, TLC

CONSTANTS a, b, c, h1, c1, c2

Servers == {a, b, c}
Rivals  == {<<a, 1>>, <<c, 2>>}
Returns == {<<a, 1>>, <<b, 1>>, <<c, 2>>, <<a, 3>>}
OneHost == [r \in Servers |-> h1]
OwnHost == [r \in Servers |-> r]
Symmetric == Permutations({c1, c2})
================================================================================
