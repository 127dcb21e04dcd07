--------------------------------- MODULE Mencius ---------------------------------
(***************************************************************************)
(* Mencius as Jetpack runs it below its fast path (src/src/deptran/        *)
(* mencius/): every server proposes in the slots it owns, and executes     *)
(* decided commands in slot order, or out of order when it sees no         *)
(* conflict.                                                               *)
(*                                                                         *)
(* The ballot is always 1 and Prepare is dead code.  Requests travel on    *)
(* one FIFO connection per pair of servers, the decision also to oneself.  *)
(* Handlers run one at a time on a server's poll thread.  SKIP is left     *)
(* out: a server records the skippable slots of another only from the      *)
(* hundredth on, and no slot is skipped before a majority recorded it.     *)
(***************************************************************************)
EXTENDS Integers, FiniteSets, Sequences, SequencesExt

CONSTANTS
  N,        \* GetPartitionSize
  Cmd, Key, KeyOf,
  MaxSlot,  \* bound: slots
  Proposer  \* Proposer[c]: the server the client of c dispatches to

Server == 0 .. N - 1
Slot   == 1 .. MaxSlot

ASSUME MenciusAssumption ==
  /\ N \in Nat \ {0}
  /\ MaxSlot \in Nat
  /\ KeyOf \in [Cmd -> Key]
  /\ Proposer \in [Cmd -> Server]

VARIABLES
  slot_hint,   \* slot_hint[r]: slot_hint_ of r's frame
  proposed,    \* proposed[s]: [by, cmd], the proposals made in slot s
  acked,       \* acked[s]: who answered the Suggest of slot s
  waiting,     \* slots whose coordinator waits for its quorum
  cmd_,        \* cmd_[r][s]: the commands suggested to r for slot s
  committed,   \* committed[r][s]: committed_cmd_, as a set of at most one
  executed,    \* executed[r]: the slots r has executed, in that order
  max_executed,
  unexecuted,  \* unexecuted[r][k]: unexecuted_keys_
  chan         \* chan[r][q]: requests in flight from r to q

vars == <<slot_hint, proposed, acked, waiting, cmd_, committed, executed,
          max_executed, unexecuted, chan>>

replicaVars == <<committed, executed, max_executed, unexecuted>>

Init ==
  /\ slot_hint = [r \in Server |-> 1]
  /\ proposed = [s \in Slot |-> {}]
  /\ acked = [s \in Slot |-> {}]
  /\ waiting = {}
  /\ cmd_ = [r \in Server |-> [s \in Slot |-> {}]]
  /\ committed = [r \in Server |-> [s \in Slot |-> {}]]
  /\ executed = [r \in Server |-> << >>]
  /\ max_executed = [r \in Server |-> 0]
  /\ unexecuted = [r \in Server |-> [k \in Key |-> 0]]
  /\ chan = [r \in Server |-> [q \in Server |-> << >>]]

Submitted == {p.cmd : p \in UNION {proposed[s] : s \in Slot}}

--------------------------------------------------------------------------------
(* Proposing.                                                               *)

(* CreateCoordinator: the slot of r's next coordinator.                     *)
MutSlotId(r) == slot_hint[r]

SlotId(r) == slot_hint[r] + r

(* OnSuggest stores the command, whatever it held.                          *)
Suggested(r, s, c) == [cmd_ EXCEPT ![r][s] = {c}]

(* r's own OnSuggest is a call, the others are sent a request.              *)
BroadcastSuggest(r, s, c) ==
  /\ cmd_' = Suggested(r, s, c)
  /\ acked' = [acked EXCEPT ![s] = @ \cup {r}]
  /\ chan' = [chan EXCEPT ![r] = [q \in Server |-> IF q = r THEN @[q] ELSE
                Append(@[q], [type |-> "Suggest", slot |-> s, cmd |-> c])]]

(* CreateCoordinator and Submit.                                            *)
Submit(r, c) ==
  LET s == SlotId(r) IN
  /\ Proposer[c] = r
  /\ c \notin Submitted
  /\ s \in Slot
  /\ slot_hint' = [slot_hint EXCEPT ![r] = @ + N]
  /\ proposed' = [proposed EXCEPT ![s] = @ \cup {[by |-> r, cmd |-> c]}]
  /\ waiting' = waiting \cup {s}
  /\ BroadcastSuggest(r, s, c)
  /\ UNCHANGED replicaVars

OnSuggest(q, s, c) ==
  /\ cmd_' = Suggested(q, s, c)
  /\ acked' = [acked EXCEPT ![s] = @ \cup {q}]
  /\ UNCHANGED replicaVars

MutQuorum == N \div 2

Quorum == N \div 2 + 1

(* The decision is sent to every server, the sender included.               *)
BroadcastDecide(r, s, c) ==
  chan' = [chan EXCEPT ![r] = [q \in Server |->
             Append(@[q], [type |-> "Decide", slot |-> s, cmd |-> c])]]

(* The coordinator of slot s resumes with its quorum and commits.           *)
Commit(s) ==
  /\ s \in waiting
  /\ Cardinality(acked[s]) >= Quorum
  /\ waiting' = waiting \ {s}
  /\ \E p \in proposed[s] : BroadcastDecide(p.by, s, p.cmd)
  /\ UNCHANGED <<slot_hint, proposed, acked, cmd_, replicaVars>>

--------------------------------------------------------------------------------
(* Executing.                                                               *)

CmdAt(com, s) == CHOOSE c \in com[s] : TRUE

(* OnCommit's first loop: the slots after max_executed_slot_ up to the      *)
(* first that is not committed; those executed before are passed over.      *)
MutInOrder(com, done, upto) ==
  {s \in Slot : s > upto /\ \A t \in upto + 1 .. s : com[t] # {} /\ t \notin done}

InOrder(com, done, upto) ==
  {s \in Slot : s > upto /\ \A t \in upto + 1 .. s : com[t] # {}}

(* Decide counts the command before it calls OnCommit.                      *)
MutCount(unex, c) == unex

Count(unex, c) == [unex EXCEPT ![KeyOf[c]] = @ + 1]

(* unexecuted_keys_ after the slots of S have been executed.                *)
Uncount(unex, com, S) ==
  [k \in Key |-> unex[k] - Cardinality({s \in S : KeyOf[CmdAt(com, s)] = k})]

(* OnCommit's second loop: slots after max_executed_slot_ that are the only *)
(* unexecuted command on their key.                                         *)
MutOutOfOrder(com, done, unex, upto) ==
  {s \in Slot : /\ s > upto /\ s \notin done /\ com[s] # {}
                /\ unex[KeyOf[CmdAt(com, s)]] = 0}

OutOfOrder(com, done, unex, upto) ==
  {s \in Slot : /\ s > upto /\ s \notin done /\ com[s] # {}
                /\ unex[KeyOf[CmdAt(com, s)]] = 1}

InSlotOrder(S) ==
  [i \in 1 .. Cardinality(S) |-> CHOOSE s \in S : Cardinality({t \in S : t <= s}) = i]

(* Decide and OnCommit at q.  The return when in_applying_logs_ is set is   *)
(* never taken: app_next_ does not yield, so no second OnCommit starts      *)
(* inside a loop.  max_committed_slot_, where the loops end, is never below *)
(* a decided slot; beyond the last one, where the deduplication may move    *)
(* it, neither loop finds anything to execute.                              *)
OnCommit(q, s, c) ==
  LET com   == [committed[q] EXCEPT ![s] = {c}]
      unex  == Count(unexecuted[q], c)
      done  == Range(executed[q])
      pass  == InOrder(com, done, max_executed[q])
      first == pass \ done
      unex1 == Uncount(unex, com, first)
      upto  == max_executed[q] + Cardinality(pass)
      then  == OutOfOrder(com, done \cup first, unex1, upto)
  IN
  /\ committed' = [committed EXCEPT ![q] = com]
  /\ max_executed' = [max_executed EXCEPT ![q] = upto]
  /\ executed' = [executed EXCEPT ![q] = @ \o InSlotOrder(first) \o InSlotOrder(then)]
  /\ unexecuted' = [unexecuted EXCEPT ![q] = Uncount(unex1, com, then)]
  /\ UNCHANGED <<cmd_, acked>>

Deliver(r, q) ==
  /\ chan[r][q] # << >>
  /\ LET m == Head(chan[r][q]) IN
       \/ m.type = "Suggest" /\ OnSuggest(q, m.slot, m.cmd)
       \/ m.type = "Decide" /\ OnCommit(q, m.slot, m.cmd)
  /\ chan' = [chan EXCEPT ![r][q] = Tail(@)]
  /\ UNCHANGED <<slot_hint, proposed, waiting>>

Next ==
  \/ \E r \in Server, c \in Cmd : Submit(r, c)
  \/ \E s \in Slot : Commit(s)
  \/ \E r, q \in Server : Deliver(r, q)

Spec == Init /\ [][Next]_vars

(* Connections deliver, and a coordinator's event wakes it; clients may     *)
(* stop submitting.                                                         *)
FairSpec ==
  /\ Spec
  /\ \A s \in Slot : WF_vars(Commit(s))
  /\ \A r, q \in Server : WF_vars(Deliver(r, q))

--------------------------------------------------------------------------------
(* The state keeps its types, and a slot has at most one command.           *)
TypeOK ==
  /\ slot_hint \in [Server -> Nat]
  /\ \A s \in Slot : /\ proposed[s] \subseteq [by: Server, cmd: Cmd]
                     /\ acked[s] \subseteq Server
  /\ waiting \subseteq Slot
  /\ \A r \in Server :
       /\ \A s \in Slot : /\ Cardinality(cmd_[r][s]) <= 1
                          /\ Cardinality(committed[r][s]) <= 1
       /\ Range(executed[r]) \subseteq Slot
       /\ max_executed[r] \in 0 .. MaxSlot
       /\ unexecuted[r] \in [Key -> Nat]

(* Servers agree on a slot: two servers that were told a decision for it    *)
(* were told the same command, and a majority was suggested that command.   *)
SlotAgreement ==
  \A r \in Server, s \in Slot : \A c \in committed[r][s] :
    /\ \A q \in Server : committed[q][s] \subseteq {c}
    /\ Cardinality({q \in Server : c \in cmd_[q][s]}) > N \div 2

(* The two loops and unexecuted_keys_ fit together: a server has executed   *)
(* exactly the slots decided to it, each once and never by both loops, in   *)
(* the handler of the decision; so between handlers no command is counted   *)
(* as unexecuted, and the prefix max_executed_slot_ claims is the decided   *)
(* one.  The conflict test never holds a command back.                      *)
ExecutedWhenDecided ==
  \A r \in Server :
    LET decided == {s \in Slot : committed[r][s] # {}} IN
    /\ Range(executed[r]) = decided
    /\ IsInjective(executed[r])
    /\ \A k \in Key : unexecuted[r][k] = 0
    /\ 1 .. max_executed[r] \subseteq decided
    /\ max_executed[r] + 1 \notin decided

(* No command waits for a slot nobody proposes in: once submitted, every    *)
(* server executes it, although SKIP decides nothing for an idle server.    *)
EveryoneExecutes ==
  \A s \in Slot : proposed[s] # {} ~> \A r \in Server : s \in Range(executed[r])

(* What the comment at OnCommit's second loop promises, "apply the entry    *)
(* out of order if there is no conflict": servers execute the commands on a *)
(* key in one order.                                                        *)
ConflictsInOneOrder ==
  \A r, q \in Server : \A i, j \in DOMAIN executed[r] : \A m, n \in DOMAIN executed[q] :
    /\ i < j /\ executed[r][i] = executed[q][m] /\ executed[r][j] = executed[q][n]
    /\ KeyOf[CmdAt(committed[r], executed[r][i])] = KeyOf[CmdAt(committed[r], executed[r][j])]
    => m < n
================================================================================
