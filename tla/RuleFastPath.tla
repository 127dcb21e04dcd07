------------------------------ MODULE RuleFastPath ------------------------------
(***************************************************************************)
(* The client side of Jetpack: CoordinatorRule (rule/coordinator.cc), the  *)
(* reused state machine of classic/coordinator.cc and client_worker.cc it  *)
(* runs in, and the quorum event of communicator.cc, composed with the     *)
(* replicas' command pools (JetpackPool) and with a replicated log.        *)
(*                                                                         *)
(* A coordinator runs one transaction at a time and is reused for the next *)
(* one; phase_ goes on counting.  It sends Dispatch to one replica, then,  *)
(* on the fast path, RuleSpeculativeExecute to all, over one FIFO          *)
(* connection per replica.  A coroutine of the transaction waits for the   *)
(* votes and may resume when the coordinator already runs a later one.     *)
(* The original protocol below is a log that the leader appends to and     *)
(* every replica applies in order; RaftServer models how.  The leader does *)
(* not change here; JetpackRecovery models what happens when it does.      *)
(***************************************************************************)
EXTENDS JetpackPool, Sequences, SequencesExt

CONSTANTS
  Replica,
  Leader,   \* the replica that leads the original protocol
  Home,     \* the replica clients send Dispatch to: GetRaftLeaderLocale()
  Coord,    \* the coordinators, each with its own connections
  CoordOf,  \* CoordOf[c]: the coordinator that runs transaction c
  Attempts  \* Attempts[c]: the values jetpack_fastpath_attempt_rate_ lets
            \* go_to_fastpath_ take for c

ASSUME RuleAssumption ==
  /\ IsFiniteSet(Replica)
  /\ Leader \in Replica
  /\ Home \in Replica
  /\ CoordOf \in [Cmd -> Coord]
  /\ Attempts \in [Cmd -> SUBSET BOOLEAN]

VARIABLES
  phase,       \* phase[k]: phase_
  cur,         \* cur[k]: the transaction cmd_ points to, NoCmd after End()
  fast,        \* fast[k]: fast_path_success_
  outstanding, \* rule_outstanding_dispatches_, one counter per client
  attempt,     \* transactions that take the fast path (go_to_fastpath_)
  sentIn,      \* sentIn[c]: the phase c was dispatched in, 0 if it was not
  votes,       \* votes[c]: the answers the quorum event of c was fed
  waiting,     \* transactions whose coroutine waits on its quorum event
  chan,        \* chan[k][r]: requests in flight from k to r
  answers,     \* answers to Dispatch in flight
  pool,        \* pool[r]: command_pool_
  log,         \* the commands the leader has submitted, in order
  applied,     \* applied[r]: how many of them r has applied
  ended,       \* history: ended[c]: what the calls of End() reported for c
  after        \* history: after[c]: committed transactions that ended before
               \* c began

coordVars == <<phase, cur, fast, outstanding, attempt, sentIn, waiting>>
histVars  == <<ended, after>>
replVars  == <<pool, log, applied>>
vars == <<coordVars, votes, chan, answers, replVars, histVars>>

Ended == {c \in Cmd : ended[c] # << >>}

Committed == {c \in Cmd : "SUCCESS" \in Range(ended[c])}

Begun == Ended \cup Range(cur)

(* SimpleRWCommand::MaxFailure and RuleSuperMajority.                       *)
MutSuperMajority == Cardinality(Replica) \div 2 + 1

SuperMajority ==
  LET f == (Cardinality(Replica) - 1) \div 2 IN f + (f + 1) \div 2 + 1

(* RuleSpeculativeExecuteQuorumEvent: the leader's own vote is needed, and  *)
(* its refusal alone ends the fast path.                                    *)
Yes(c) == Cardinality(votes[c].yes) >= SuperMajority /\ Leader \in votes[c].yes

No(c) == \/ Cardinality(votes[c].no) > Cardinality(Replica) - SuperMajority
         \/ Leader \in votes[c].no

--------------------------------------------------------------------------------
Init ==
  /\ phase = [k \in Coord |-> 0]
  /\ cur = [k \in Coord |-> NoCmd]
  /\ fast = [k \in Coord |-> FALSE]
  /\ outstanding = [k \in Coord |-> 0]
  /\ attempt = {}
  /\ sentIn = [c \in Cmd |-> 0]
  /\ votes = [c \in Cmd |-> [yes |-> {}, no |-> {}]]
  /\ waiting = {}
  /\ chan = [k \in Coord |-> [r \in Replica |-> << >>]]
  /\ answers = {}
  /\ pool = [r \in Replica |-> EmptyPool]
  /\ log = << >>
  /\ applied = [r \in Replica |-> 0]
  /\ ended = [c \in Cmd |-> << >>]
  /\ after = [c \in Cmd |-> {}]

(* The requests of INIT_END to replica r: DispatchAsync, then, on the fast  *)
(* path, BroadcastRuleSpeculativeExecute.                                   *)
MutRequestsSpecFirst(c, r, fastpath) ==
  (IF fastpath THEN <<[type |-> "Spec", cmd |-> c]>> ELSE << >>) \o
  (IF r = Home THEN <<[type |-> "Dispatch", cmd |-> c]>> ELSE << >>)

Requests(c, r, fastpath) ==
  (IF r = Home THEN <<[type |-> "Dispatch", cmd |-> c]>> ELSE << >>) \o
  (IF fastpath THEN <<[type |-> "Spec", cmd |-> c]>> ELSE << >>)

(* End(): the transaction is reported once more and given back.             *)
Reports(k, c, results) ==
  /\ ended' = [ended EXCEPT ![c] = @ \o results]
  /\ outstanding' = [outstanding EXCEPT ![k] = @ - Len(results)]
  /\ cur' = [cur EXCEPT ![k] = NoCmd]

(* DoTxAsync and GotoNextPhase in INIT_END.  Reset leaves phase_ alone.     *)
InitEnd(k, c, fastpath) ==
  /\ phase' = [phase EXCEPT ![k] = @ + 1]
  /\ cur' = [cur EXCEPT ![k] = c]
  /\ fast' = [fast EXCEPT ![k] = FALSE]
  /\ outstanding' = [outstanding EXCEPT ![k] = @ + 1]
  /\ attempt' = IF fastpath THEN attempt \cup {c} ELSE attempt
  /\ sentIn' = [sentIn EXCEPT ![c] = phase[k] + 1]
  /\ waiting' = IF fastpath THEN waiting \cup {c} ELSE waiting
  /\ chan' = [chan EXCEPT ![k] = [r \in Replica |-> @[r] \o Requests(c, r, fastpath)]]
  /\ UNCHANGED ended

(* DoTxAsync and GotoNextPhase in WAITING_ORIGIN, where the abort of the    *)
(* coordinator's previous transaction left phase_: c ends as committed.     *)
WaitingOrigin(k, c) ==
  /\ phase' = [phase EXCEPT ![k] = @ + 1]
  /\ Reports(k, c, <<"SUCCESS">>)
  /\ UNCHANGED <<fast, attempt, sentIn, waiting, chan>>

Begin(k, c) ==
  /\ cur[k] = NoCmd
  /\ CoordOf[c] = k
  /\ c \notin Begun
  /\ after' = [after EXCEPT ![c] = Committed]
  /\ IF phase[k] % 3 = 0 THEN \E fastpath \in Attempts[c] : InitEnd(k, c, fastpath)
                          ELSE WaitingOrigin(k, c)
  /\ UNCHANGED <<votes, answers, replVars>>

(* GotoNextPhase in DISPATCHED.  An abort ends the transaction and falls    *)
(* through to the commit test; without a commit phase_ stays one further.   *)
Dispatched(k, aborted, commit) ==
  LET c == cur[k] IN
  /\ phase' = [phase EXCEPT ![k] = IF commit THEN @ + 2 ELSE @ + 1]
  /\ Reports(k, c, (IF aborted THEN <<"WRONG_LEADER">> ELSE << >>) \o
                   (IF commit THEN <<"SUCCESS">> ELSE << >>))

(* An answer to Dispatch reaches the coordinator: DispatchAck.  REJECT      *)
(* would abort a transaction of one piece just as WRONG_LEADER does, and is *)
(* no answer of its own here.                                               *)
DispatchAck(k, a) ==
  /\ a \in answers
  /\ CoordOf[a.cmd] = k
  /\ answers' = answers \ {a}
  /\ IF sentIn[a.cmd] # phase[k] THEN UNCHANGED <<phase, cur, outstanding, ended>>
     ELSE LET aborted == a.res = "WRONG_LEADER" IN
          Dispatched(k, aborted, fast[k] \/ ~aborted)
  /\ UNCHANGED <<fast, attempt, sentIn, votes, waiting, chan, replVars, after>>

(* The coroutine of BroadcastRuleSpeculativeExecute resumes: the flag is    *)
(* written before the phase is compared.                                    *)
MutResumeNoPhaseTest(k, c) ==
  /\ c \in waiting
  /\ CoordOf[c] = k
  /\ Yes(c) \/ No(c)
  /\ waiting' = waiting \ {c}
  /\ fast' = [fast EXCEPT ![k] = Yes(c)]
  /\ IF ~Yes(c) THEN UNCHANGED <<phase, cur, outstanding, ended>>
     ELSE /\ phase' = [phase EXCEPT ![k] = @ + 2]
          /\ Reports(k, c, <<"SUCCESS">>)
  /\ UNCHANGED <<attempt, sentIn, votes, chan, answers, replVars, after>>

MutResumeAlwaysGoto(k, c) ==
  /\ c \in waiting
  /\ CoordOf[c] = k
  /\ Yes(c) \/ No(c)
  /\ waiting' = waiting \ {c}
  /\ fast' = [fast EXCEPT ![k] = Yes(c)]
  /\ IF sentIn[c] # phase[k] THEN UNCHANGED <<phase, cur, outstanding, ended>>
     ELSE IF Yes(c) THEN Dispatched(k, FALSE, TRUE)
     ELSE /\ phase' = [phase EXCEPT ![k] = @ + 1]
          /\ UNCHANGED <<cur, outstanding, ended>>
  /\ UNCHANGED <<attempt, sentIn, votes, chan, answers, replVars, after>>

Resume(k, c) ==
  /\ c \in waiting
  /\ CoordOf[c] = k
  /\ Yes(c) \/ No(c)
  /\ waiting' = waiting \ {c}
  /\ fast' = [fast EXCEPT ![k] = Yes(c)]
  /\ IF sentIn[c] # phase[k] \/ ~Yes(c)
     THEN UNCHANGED <<phase, cur, outstanding, ended>>
     ELSE Dispatched(k, FALSE, TRUE)
  /\ UNCHANGED <<attempt, sentIn, votes, chan, answers, replVars, after>>

--------------------------------------------------------------------------------
(* The replicas.                                                            *)

(* Dispatch at r: the placeholder of an original-path-only command, then    *)
(* Submit, which refuses everywhere but on the leader.                      *)
OnDispatch(r, c) ==
  /\ pool' = IF c \in attempt THEN pool ELSE [pool EXCEPT ![r] = PoolPush(@, c)]
  /\ log' = IF r = Leader THEN Append(log, c) ELSE log
  /\ answers' = IF r = Leader THEN answers
                ELSE answers \cup {[cmd |-> c, res |-> "WRONG_LEADER"]}
  /\ UNCHANGED votes

(* OnRuleSpeculativeExecute at r; its answer is fed to the quorum event.    *)
MutVotesTwice(r, c) ==
  /\ pool' = [pool EXCEPT ![r] = PoolPush(@, c)]
  /\ votes' = [votes EXCEPT ![c] =
                 [yes |-> @.yes \cup {r},
                  no |-> IF PushOk(pool[r], c) THEN @.no ELSE @.no \cup {r}]]
  /\ UNCHANGED <<log, answers>>

OnRuleSpeculativeExecute(r, c) ==
  /\ pool' = [pool EXCEPT ![r] = PoolPush(@, c)]
  /\ votes' = IF PushOk(pool[r], c)
              THEN [votes EXCEPT ![c].yes = @ \cup {r}]
              ELSE [votes EXCEPT ![c].no = @ \cup {r}]
  /\ UNCHANGED <<log, answers>>

Deliver(k, r) ==
  /\ chan[k][r] # << >>
  /\ LET m == Head(chan[k][r]) IN
       \/ m.type = "Dispatch" /\ OnDispatch(r, m.cmd)
       \/ m.type = "Spec" /\ OnRuleSpeculativeExecute(r, m.cmd)
  /\ chan' = [chan EXCEPT ![k][r] = Tail(@)]
  /\ UNCHANGED <<coordVars, applied, histVars>>

(* r applies the next committed command: RuleCommandPoolGC, and on the      *)
(* leader the answer to the waiting Dispatch.  The leader is the first to   *)
(* know that an entry is committed.                                         *)
Apply(r) ==
  /\ applied[r] < IF r = Leader THEN Len(log) ELSE applied[Leader]
  /\ LET c == log[applied[r] + 1] IN
     /\ pool' = [pool EXCEPT ![r] = PoolRemove(@, c)]
     /\ answers' = IF r = Leader
                   THEN answers \cup {[cmd |-> c, res |-> "SUCCESS"]} ELSE answers
  /\ applied' = [applied EXCEPT ![r] = @ + 1]
  /\ UNCHANGED <<coordVars, votes, chan, log, histVars>>

Next ==
  \/ \E k \in Coord, c \in Cmd : Begin(k, c) \/ Resume(k, c)
  \/ \E k \in Coord, a \in answers : DispatchAck(k, a)
  \/ \E k \in Coord, r \in Replica : Deliver(k, r)
  \/ \E r \in Replica : Apply(r)

Spec == Init /\ [][Next]_vars

--------------------------------------------------------------------------------
(* Phases, flags, votes and pools keep their types; a replica votes once.   *)
TypeOK ==
  /\ phase \in [Coord -> Nat]
  /\ cur \in [Coord -> CmdOrNone]
  /\ fast \in [Coord -> BOOLEAN]
  /\ outstanding \in [Coord -> Int]
  /\ attempt \subseteq Cmd
  /\ sentIn \in [Cmd -> Nat]
  /\ \A c \in Cmd : /\ votes[c] \in [yes: SUBSET Replica, no: SUBSET Replica]
                    /\ votes[c].yes \cap votes[c].no = {}
  /\ waiting \subseteq attempt
  /\ answers \subseteq [cmd: Cmd, res: {"SUCCESS", "WRONG_LEADER"}]
  /\ pool \in [Replica -> Pool]
  /\ Range(log) \subseteq Cmd
  /\ \A r \in Replica : applied[r] \in 0 .. Len(log)

(* The log orders a transaction after every transaction that had been       *)
(* reported SUCCESS before it began, on the fast path or on the original    *)
(* one: a client that saw the first answer never has the second command     *)
(* ordered before it, whichever of the two answers was the slow one.        *)
RealTimeOrder ==
  \A i \in DOMAIN log : \A a \in after[log[i]] :
    \E j \in 1 .. i - 1 : log[j] = a

AppliedAt(r) == {log[i] : i \in 1 .. applied[r]}

Majorities == {Q \in SUBSET Replica : 2 * Cardinality(Q) > Cardinality(Replica)}

(* A write reported SUCCESS before the leader applied it can be recovered:  *)
(* whichever majority a recovery reads, most of it still names the write to *)
(* PullRecovery or has applied it, whatever arrived, was applied or was     *)
(* collected since.                                                         *)
CommittedWriteHeld ==
  \A c \in (Committed \cap Writes) \ AppliedAt(Leader) :
    LET held == {r \in Replica : c \in ToRecover(pool[r]) \cup AppliedAt(r)} IN
    \A Q \in Majorities : 2 * Cardinality(held \cap Q) > Cardinality(Q)

(* The assertion of ClientWorker's callback and the in-flight counter hold: *)
(* a transaction ends once, and the counter is the number of transactions   *)
(* in flight, although the coroutine of a finished transaction may resume   *)
(* while its coordinator runs another one.                                  *)
EndsOnce ==
  /\ \A c \in Cmd : Len(ended[c]) <= 1
  /\ \A k \in Coord : outstanding[k] = IF cur[k] = NoCmd THEN 0 ELSE 1

(* What the client algorithm of docs/jetpack_pseudocode_optimized.tex says: *)
(* a result is returned after a fast quorum with the proposing replica, or  *)
(* after the result of the original path.                                   *)
CommitAnswered ==
  \A c \in Committed : Yes(c) \/ c \in AppliedAt(Leader)

(* No transaction is left behind: when nothing is in flight any more, every *)
(* transaction that began has ended, so a failed, late or missing fast      *)
(* quorum never makes a coordinator miss the original path's answer.        *)
NobodyWaits ==
  (/\ \A k \in Coord, r \in Replica : chan[k][r] = << >>
   /\ answers = {}
   /\ applied[Leader] = Len(log)
   /\ \A c \in waiting : ~Yes(c) /\ ~No(c))
  => \A k \in Coord : cur[k] = NoCmd
================================================================================
