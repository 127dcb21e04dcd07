----------------------------- MODULE ReplicatedLog -----------------------------
(***************************************************************************)
(* What Jetpack's fast path takes for granted of the protocol below it     *)
(* (app_next_, applyLogs): one order of the submitted commands, each in it *)
(* at most once, that only grows, and of which every server has executed a *)
(* prefix.                                                                 *)
(*                                                                         *)
(* valid says whether the condition under which an implementation keeps    *)
(* the promise still holds; once it fails, nothing is promised.            *)
(***************************************************************************)
EXTENDS Sequences, SequencesExt

CONSTANTS Server, Cmd

VARIABLES
  submitted,  \* the commands clients have submitted
  order,      \* the commands in the order agreed on
  done,       \* done[r]: what r has executed
  valid       \* the implementation's condition

vars == <<submitted, order, done, valid>>

Init ==
  /\ submitted = {}
  /\ order = << >>
  /\ done = [r \in Server |-> << >>]
  /\ valid = TRUE

Submit(c) ==
  /\ submitted' = submitted \cup {c}
  /\ UNCHANGED <<order, done>>

(* The order is extended by submitted commands that it does not hold yet.   *)
Extended ==
  /\ IsPrefix(order, order')
  /\ IsInjective(order')
  /\ Range(order') \subseteq submitted

(* Server r, which may be the first to know of it, executes the order on.   *)
Execute(r) ==
  /\ order' = order \/ Extended
  /\ IsPrefix(done[r], done'[r])
  /\ IsPrefix(done'[r], order')
  /\ \A q \in Server \ {r} : done'[q] = done[q]
  /\ UNCHANGED submitted

Next ==
  \/ ~valid'
  \/ \E c \in Cmd : valid /\ valid' /\ Submit(c)
  \/ \E r \in Server : valid /\ valid' /\ Execute(r)

Spec == Init /\ [][Next]_vars
================================================================================
