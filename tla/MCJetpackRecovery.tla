--------------------------- MODULE MCJetpackRecovery ---------------------------
(* TLC instances of JetpackRecovery: two or three replicas and one write.   *)
EXTENDS JetpackRecovery

CONSTANTS w1, k1, s1, s2, s3

NoCmds  == {}
OneCmd  == {w1}
MCKey   == {k1}
OneKeyOf == [c \in OneCmd |-> k1]
Servers == {s1, s2, s3}
Pair    == {s1, s2}
ZeroEpochs == [r \in Servers |-> {0}]
PairEpochs == [r \in Pair |-> IF r = s1 THEN {0} ELSE {0, 1}]
================================================================================
