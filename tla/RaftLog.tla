-------------------------------- MODULE RaftLog --------------------------------
(***************************************************************************)
(* RaftServer implements ReplicatedLog as long as leaders were elected:    *)
(* the order is what the server that is furthest has applied.              *)
(***************************************************************************)
EXTENDS RaftServer

Cmds(entries) == [i \in DOMAIN entries |-> entries[i].cmd]

Furthest == CHOOSE r \in Server : \A q \in Server : Len(applied[r]) >= Len(applied[q])

Log == INSTANCE ReplicatedLog WITH
         order <- Cmds(applied[Furthest]),
         done  <- [r \in Server |-> Cmds(applied[r])],
         valid <- LeadersElected

(* What the servers apply is one growing order of the submitted commands,   *)
(* each executed at most once by each server and never taken back, through  *)
(* changes of leader, overwritten entries, late replies and repeated        *)
(* batches: RaftServer implements ReplicatedLog while every leader was      *)
(* elected in the term it led.                                              *)
ImplementsReplicatedLog == Log!Spec
================================================================================
