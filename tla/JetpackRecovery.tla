---------------------------- MODULE JetpackRecovery ----------------------------
(***************************************************************************)
(* Jetpack's fast-path recovery over Raft: JetpackRecoveryEntry on a newly *)
(* elected leader and the RPC handlers it drives on every replica          *)
(* (src/src/deptran/scheduler.cc, communicator.h, communicator.cc).        *)
(*                                                                         *)
(* Recovery is a coroutine.  Each of its Wait()s is a control point, and   *)
(* the event objects it waits on are the reply sets of co[r].  Requests    *)
(* are FIFO per connection.  A reply is on its way until the coroutine     *)
(* reads the event, so the coroutine may act on any subset of the replies  *)
(* that makes the event ready.                                             *)
(*                                                                         *)
(* The original protocol is abstract here: one true leader at a time,      *)
(* whose uncommitted suffix a later leader keeps a prefix of, and a        *)
(* committed log that every replica applies in order.  A deposed leader    *)
(* believes in its role until it steps down.                               *)
(***************************************************************************)
EXTENDS JetpackPool, Sequences

CONSTANTS
  Replica,
  Home,         \* Config::GetRaftLeaderLocale(): where every Dispatch is sent
  FirstLeader,  \* the leader of the initial state
  Electable,    \* the replicas an election may choose
  Dispatched,   \* the commands clients also send to the original path
  InitEpochs,   \* what r's uninitialised jepoch_ and oepoch_ may hold
  MaxEpoch,     \* (epoch_t)(-1), the largest epoch
  MaxElections, \* bound: elections
  MaxCrashes,   \* bound: crashed replicas
  NoSid         \* sid_ = -1

N == Cardinality(Replica)

ASSUME RecoveryAssumption ==
  /\ IsFiniteSet(Replica)
  /\ IsFiniteSet(Cmd)       \* ids have a fixed width
  /\ {Home, FirstLeader} \cup Electable \subseteq Replica
  /\ Dispatched \subseteq Cmd
  /\ MaxEpoch \in Nat
  /\ InitEpochs \in [Replica -> SUBSET (0 .. MaxEpoch)]
  /\ MaxElections \in Nat
  /\ MaxCrashes \in Nat
  /\ 2 * MaxCrashes < N

VARIABLES
  up,        \* the replicas that run
  leader,    \* the true leader of the original protocol
  isl,       \* the replicas whose IsLeader() is true
  srv,       \* srv[r]: the Jetpack fields of r's TxLogServer
  recset,    \* recset[r]: rec_set_, recovery set by sid
  missed,    \* missed[r]: missed_key_cmd_set_, commands by sid
  sidcnt,    \* sidcnt[r]: sid_cnt_
  co,        \* co[r]: r's recovery coroutine and its events
  chan,      \* chan[s][d]: requests in flight from s to d
  pend,      \* the true leader's uncommitted entries
  log,       \* the committed commands
  exec,      \* exec[r]: executeIndex of r
  sent,      \* <<c, r>>: the client's message c has reached r (environment)
  elections, \* number of elections so far
  acc,       \* history: [cmd, from, gen, ldr] of every promise
  fin        \* history: FinishRecovery resets at each replica

clientVars == <<sent, acc>>
baseVars   == <<up, leader, isl, pend, log, exec, elections>>
setVars    == <<recset, missed, sidcnt>>
vars == <<baseVars, clientVars, setVars, srv, co, chan, fin>>

--------------------------------------------------------------------------------
(* SimpleRWCommand's quorum arithmetic.                                     *)
MaxFailure == (N - 1) \div 2

RuleSuperMajority == MaxFailure + (MaxFailure + 1) \div 2 + 1

MutQuorumAll == N

Quorum == N \div 2 + 1

MutThresholdTooHigh == MaxFailure + 2

majority_threshold == (MaxFailure + 2 + 1) \div 2

(* QuorumEvent::Yes, No and IsReady on a set of replies.                    *)
Yes(S) == Cardinality({m \in S : m.ok}) >= Quorum

No(S) == Cardinality({m \in S : ~m.ok}) > N - Quorum

IsReady(S) == Yes(S) \/ No(S)

Froms(S) == {m.from : m \in S}

MaxOf(x, y) == IF x >= y THEN x ELSE y

Idle == [pc |-> "idle", run |-> 0, pull |-> {}, prep |-> {}, rec |-> {},
         accept |-> {}, ack |-> {}, sid |-> NoSid, propose |-> NoSid,
         prep_ok |-> FALSE, todo |-> {}]

(* A coroutine at rest, or at a Wait, keeps only the events it will read.   *)
Rest(k) == [Idle EXCEPT !.run = k.run]

Server(je, oe) ==
  [status |-> "READY", je |-> je, oe |-> oe, view |-> FirstLeader,
   trig |-> FALSE, pool |-> EmptyPool, ballot |-> -1, abal |-> -1, sid |-> NoSid]

Init ==
  /\ up = Replica
  /\ leader = FirstLeader
  /\ isl = {FirstLeader}
  /\ \E je, oe \in [Replica -> 0 .. MaxEpoch] :
       /\ \A r \in Replica : {je[r], oe[r]} \subseteq InitEpochs[r]
       /\ srv = [r \in Replica |-> Server(je[r], oe[r])]
  /\ recset = [r \in Replica |-> << >>]
  /\ missed = [r \in Replica |-> << >>]
  /\ sidcnt = [r \in Replica |-> 0]
  /\ co = [r \in Replica |-> Idle]
  /\ chan = [s \in Replica |-> [d \in Replica |-> << >>]]
  /\ pend = << >>
  /\ log = << >>
  /\ exec = [r \in Replica |-> 0]
  /\ sent = {}
  /\ elections = 0
  /\ acc = {}
  /\ fin = [r \in Replica |-> 0]

--------------------------------------------------------------------------------
(* The clients and the original protocol.                                   *)

(* OnRuleSpeculativeExecute(c) on r.  The request carries no epoch.         *)
SpecExec(c, r) ==
  /\ r \in up
  /\ <<c, r>> \notin sent
  /\ sent' = sent \cup {<<c, r>>}
  /\ IF srv[r].status = "RECOVERY"
     THEN UNCHANGED <<srv, acc>>
     ELSE /\ srv' = [srv EXCEPT ![r].pool = PoolPush(@, c)]
          /\ acc' = IF PushOk(srv[r].pool, c)
                    THEN acc \cup {[cmd |-> c, from |-> r, gen |-> fin[r],
                                    ldr |-> r \in isl]}
                    ELSE acc
  /\ UNCHANGED <<baseVars, setVars, co, chan, fin>>

(* CoordinatorRaft::Submit of a client's command on Home, where the client  *)
(* dispatches it.  A deposed leader's entry never commits.                  *)
Dispatch(c) ==
  /\ c \in Dispatched
  /\ Home \in up
  /\ <<c, "orig">> \notin sent
  /\ sent' = sent \cup {<<c, "orig">>}
  /\ pend' = IF Home \in isl /\ srv[Home].status = "READY" /\ Home = leader
             THEN Append(pend, [cmd |-> c, from |-> NoSid, run |-> 0])
             ELSE pend
  /\ UNCHANGED <<up, leader, isl, log, exec, elections, acc, setVars, srv, co,
                 chan, fin>>

(* The leader commits its oldest entry; a recovery that waits for it in the *)
(* same term gets its Dispatch callback.                                    *)
BaseCommit ==
  /\ pend # << >>
  /\ leader \in up \cap isl
  /\ LET e == Head(pend) IN
     /\ log' = Append(log, e.cmd)
     /\ pend' = Tail(pend)
     /\ co' = IF e.from \in Replica /\ co[e.from].run = e.run
              THEN [co EXCEPT ![e.from].todo = @ \ {e.cmd}]
              ELSE co
  /\ UNCHANGED <<up, leader, isl, exec, elections, clientVars, setVars, srv,
                 chan, fin>>

(* applyLogs on r: RuleCommandPoolGC, then app_next_, for the next entry.   *)
Apply(r) ==
  /\ r \in up
  /\ exec[r] < Len(log)
  /\ exec' = [exec EXCEPT ![r] = @ + 1]
  /\ srv' = [srv EXCEPT ![r].pool = PoolRemove(@, log[exec[r] + 1])]
  /\ UNCHANGED <<up, leader, isl, pend, log, elections, clientVars, setVars,
                 co, chan, fin>>

(* r wins an election: setIsLeader(true) and TriggerJetpackRecovery.  It    *)
(* keeps a prefix of the old leader's suffix, and Submit coroutines of the  *)
(* old term return without their callback.                                  *)
Elect(r) ==
  /\ r \in (up \cap Electable) \ isl
  /\ elections < MaxElections
  /\ elections' = elections + 1
  /\ leader' = r
  /\ isl' = isl \cup {r}
  /\ \E n \in 0 .. Len(pend) :
       pend' = [i \in 1 .. n |-> [pend[i] EXCEPT !.from = NoSid]]
  /\ srv' = [srv EXCEPT ![r].view = r, ![r].trig = TRUE]
  /\ UNCHANGED <<up, log, exec, clientVars, setVars, co, chan, fin>>

StepDown(r) ==
  /\ r \in isl \cap up
  /\ r # leader
  /\ isl' = isl \ {r}
  /\ UNCHANGED <<up, leader, pend, log, exec, elections, clientVars, setVars,
                 srv, co, chan, fin>>

Crash(r) ==
  /\ r \in up
  /\ N - Cardinality(up) < MaxCrashes
  /\ up' = up \ {r}
  /\ isl' = isl \ {r}
  /\ UNCHANGED <<leader, pend, log, exec, elections, clientVars, setVars, srv,
                 co, chan, fin>>

--------------------------------------------------------------------------------
(* The recovery coroutine.                                                  *)

Broadcast(r, msgs) ==
  [chan EXCEPT ![r] = [d \in Replica |-> @[d] \o msgs]]

(* JetpackCommandPool::reset on a server record.                            *)
MutResetPoolKeepsAccepted(s) ==
  [s EXCEPT !.pool = EmptyPool, !.ballot = -1, !.sid = NoSid]

ResetPool(s) ==
  [s EXCEPT !.pool = EmptyPool, !.ballot = -1, !.abal = -1, !.sid = NoSid]

(* JetpackRecoveryLoop takes a pending trigger: JetpackRecoveryEntry and    *)
(* JetpackRecovery up to its first Wait.  The ballot is not raised.         *)
StartRecovery(r) ==
  /\ r \in up
  /\ srv[r].trig
  /\ co[r].pc = "idle"
  /\ srv' = [srv EXCEPT ![r].trig = FALSE, ![r].status = "RECOVERY"]
  /\ LET run == co[r].run + 1
         s == srv[r]
     IN  /\ co' = [co EXCEPT ![r] = [Idle EXCEPT !.pc = "round1", !.run = run]]
         /\ chan' = Broadcast(r, <<
              [type |-> "Pull", run |-> run, je |-> s.je, oe |-> s.oe,
               view |-> s.view],
              [type |-> "Prepare", run |-> run, je |-> s.je, oe |-> s.oe,
               bal |-> s.ballot] >>)
  /\ UNCHANGED <<baseVars, clientVars, setVars, fin>>

(* A failed quorum event: its max_jepoch_ and max_oepoch_ start at          *)
(* (epoch_t)(-1), so both epochs become MaxEpoch, with the pool reset when  *)
(* jepoch_ was smaller, and the ballot rises to the largest a No vote of    *)
(* the event reported.  The coroutine returns in RECOVERY.                  *)
FailEpochs(s) ==
  [(IF s.je < MaxEpoch THEN ResetPool(s) ELSE s)
     EXCEPT !.je = MaxEpoch, !.oe = MaxEpoch]

FailBallot(s, noes) ==
  [s EXCEPT !.ballot =
     CHOOSE b \in {s.ballot} \cup {m.seen : m \in noes} :
       \A x \in {s.ballot} \cup {m.seen : m \in noes} : b >= x]

(* JetpackPullRecoveryQuorumEvent::GetRecoveredKeyIds: on each key the      *)
(* command most replies named, when they are at least majority_threshold_;  *)
(* the order of the replies breaks a tie.                                   *)
Count(P, c) == Cardinality({m \in P : m.ok /\ c \in m.ids})

Leading(P, k) ==
  {c \in Cmd : /\ KeyOf[c] = k
               /\ Count(P, c) >= majority_threshold
               /\ \A d \in Cmd : KeyOf[d] = k => Count(P, d) <= Count(P, c)}

RecoveredKeyIds(P) ==
  {ids \in SUBSET UNION {Leading(P, k) : k \in Key} :
     \A k \in Key : Leading(P, k) # {} => Cardinality(ids \cap Leading(P, k)) = 1}

(* JetpackPrepareQuorumEvent::GetSid, or the new sid when no reply had an   *)
(* accepted value.                                                          *)
ProposeSids(R, sid) ==
  LET voted == {m \in R : m.ok /\ m.abal > -1}
      top == {m \in voted : \A x \in voted : x.abal <= m.abal}
  IN  IF top = {} THEN {sid} ELSE {m.sid : m \in top}

Held(r, c) == c \in Tracked(srv[r].pool)

(* An assignment to an entry of an unordered_map.                           *)
Put(f, k, v) == [x \in DOMAIN f \cup {k} |-> IF x = k THEN v ELSE f[x]]

(* sid = (sid_cnt_++ << 8) | loc_id_.                                       *)
MutNewSidNoLoc(r) == <<sidcnt[r], Home>>

NewSid(r) == <<sidcnt[r], r>>

(* Round 1 of JetpackRecovery, when prepare_e and recovery_e are both       *)
(* ready.  Replies are FIFO per connection, so who answered Prepare has     *)
(* answered PullRecovery.                                                   *)
Round1Replies(r, P, R) ==
  /\ r \in up
  /\ co[r].pc = "round1"
  /\ IsReady(P) /\ IsReady(R)
  /\ Froms(R) \subseteq Froms(P)

Round1Fails(r) ==
  /\ \E P \in SUBSET co[r].pull, R \in SUBSET co[r].prep :
       Round1Replies(r, P, R) /\ ~Yes(P)
  /\ srv' = [srv EXCEPT ![r] = FailEpochs(@)]
  /\ co' = [co EXCEPT ![r] = Rest(@)]
  /\ UNCHANGED <<baseVars, clientVars, setVars, chan, fin>>

(* The recovered set gets a new sid and is recorded; if Prepare succeeded,  *)
(* Accept proposes this sid or the one a replica had accepted.              *)
Round1Proposes(r) ==
  /\ \E P \in SUBSET co[r].pull, R \in SUBSET co[r].prep :
     /\ Round1Replies(r, P, R)
     /\ Yes(P)
     /\ \E ids \in RecoveredKeyIds(P) :
        LET s == srv[r]
            sid == NewSid(r)
            p_ok == Yes(R)
            record == [type |-> "Record", run |-> co[r].run, je |-> s.je, oe |-> s.oe,
                       sid |-> sid, ids |-> ids, missing |-> {c \in ids : ~Held(r, c)}]
        IN
        /\ recset' = [recset EXCEPT ![r] = Put(@, sid, ids)]
        /\ \E p \in IF p_ok THEN ProposeSids(R, sid) ELSE {sid} :
           /\ srv' = IF p_ok THEN [srv EXCEPT ![r].ballot = @ + 1] ELSE srv
           /\ chan' = Broadcast(r, <<record>> \o
                IF p_ok THEN << [type |-> "Accept", run |-> co[r].run, je |-> s.je,
                                 oe |-> s.oe, sid |-> p, bal |-> s.ballot + 1] >>
                ELSE << >>)
           /\ co' = [co EXCEPT ![r] = [Rest(@) EXCEPT !.pc = "round2",
                       !.prep = IF p_ok THEN {} ELSE co[r].prep,
                       !.sid = sid, !.propose = p, !.prep_ok = p_ok]]
  /\ sidcnt' = [sidcnt EXCEPT ![r] = @ + 1]
  /\ UNCHANGED <<baseVars, clientVars, missed, fin>>

(* Round 2: RecordCmd is answered, and Accept if it was sent.  The commands *)
(* the answers brought are kept under the recovery's own sid.  OnJetpack-   *)
(* RecordCmd always says yes, and a request that fails (a crashed replica)  *)
(* counts as a no; those are at most MaxCrashes and leave a quorum of yes,  *)
(* so the branch for a failed RecordCmd is never taken.                     *)
Round2Replies(r, Q, A) ==
  /\ r \in up
  /\ co[r].pc = "round2"
  /\ Yes(Q)
  /\ IF co[r].prep_ok THEN IsReady(A) /\ Froms(A) \subseteq Froms(Q)
     ELSE A = {}

Missed(r, Q) == Put(missed[r], co[r].sid, UNION {m.cmds : m \in Q})

Round2Fails(r) ==
  /\ \E Q \in SUBSET co[r].rec, A \in SUBSET co[r].accept, R \in SUBSET co[r].prep :
     /\ Round2Replies(r, Q, A)
     /\ IF co[r].prep_ok THEN R = {} /\ ~Yes(A) ELSE No(R)
     /\ missed' = [missed EXCEPT ![r] = Missed(r, Q)]
     /\ srv' = [srv EXCEPT ![r] =
                  FailBallot(FailEpochs(@), {m \in A \cup R : ~m.ok})]
  /\ co' = [co EXCEPT ![r] = Rest(@)]
  /\ UNCHANGED <<baseVars, clientVars, recset, sidcnt, chan, fin>>

(* The commands JetpackResubmit finds a body for: in its own pool, or among *)
(* the missed commands of the committed sid.                                *)
Resubmittable(r, sid, miss) ==
  IF sid \notin DOMAIN recset[r] THEN {}
  ELSE {c \in recset[r][sid] :
          Held(r, c) \/ (sid \in DOMAIN miss /\ c \in miss[sid])}

FinishMsg(r) == [type |-> "Finish", run |-> co[r].run, oe |-> srv[r].oe]

(* Accept succeeded: JetpackCommit and JetpackResubmit follow without a     *)
(* Wait, and with nothing to resubmit so does the FinishRecovery broadcast. *)
(* Recovered commands are dispatched to Home, whoever the leader is.        *)
Round2Commits(r) ==
  /\ \E Q \in SUBSET co[r].rec, A \in SUBSET co[r].accept :
     /\ Round2Replies(r, Q, A)
     /\ co[r].prep_ok /\ Yes(A)
     /\ missed' = [missed EXCEPT ![r] = Missed(r, Q)]
     /\ LET todo == Resubmittable(r, co[r].propose, Missed(r, Q))
            ask(c) == [type |-> "Dispatch", run |-> co[r].run, cmd |-> c]
            commit == [type |-> "Commit", run |-> co[r].run, je |-> srv[r].je,
                       oe |-> srv[r].oe, sid |-> co[r].propose]
            order == CHOOSE f \in [1 .. Cardinality(todo) -> todo] :
                       \A c \in todo : \E i \in DOMAIN f : f[i] = c
        IN  IF todo # {}
            THEN /\ chan' = [Broadcast(r, <<commit>>) EXCEPT ![r][Home] =
                              @ \o [i \in DOMAIN order |-> ask(order[i])]]
                 /\ co' = [co EXCEPT ![r] = [Rest(@) EXCEPT !.pc = "resubmit",
                          !.propose = co[r].propose, !.todo = todo]]
            ELSE /\ chan' = Broadcast(r, <<commit, FinishMsg(r)>>)
                 /\ co' = [co EXCEPT ![r] = [Rest(@) EXCEPT !.pc = "finish",
                          !.propose = co[r].propose]]
  /\ UNCHANGED <<baseVars, clientVars, recset, sidcnt, srv, fin>>

(* recovery_event is ready: every dispatched command got a callback.        *)
Resubmitted(r) ==
  /\ r \in up
  /\ co[r].pc = "resubmit"
  /\ co[r].todo = {}
  /\ chan' = Broadcast(r, <<FinishMsg(r)>>)
  /\ co' = [co EXCEPT ![r] = [Rest(@) EXCEPT !.pc = "finish",
                          !.propose = co[r].propose]]
  /\ UNCHANGED <<baseVars, clientVars, setVars, srv, fin>>

(* A quorum acknowledged FinishRecovery: the recovery loop may run again.   *)
RecoveryDone(r) ==
  /\ r \in up
  /\ co[r].pc = "finish"
  /\ Cardinality(co[r].ack) >= Quorum
  /\ co' = [co EXCEPT ![r] = Rest(@)]
  /\ UNCHANGED <<baseVars, clientVars, setVars, srv, chan, fin>>

--------------------------------------------------------------------------------
(* The RPC handlers.  Each returns the server record it leaves; EpochOk is  *)
(* the test most of them begin with.                                        *)
EpochOk(s, m) == m.je >= s.je /\ m.oe >= s.oe

(* OnJetpackBeginRecovery, the first half of OnJetpackPullRecovery, assigns *)
(* oepoch_ whatever it was; it also demotes a Raft leader that the new view *)
(* does not name (Deliver).                                                 *)
MutBeginStaysReady(s, m) ==
  [s EXCEPT !.oe = m.oe, !.view = m.view]

OnJetpackBeginRecovery(s, m) ==
  [s EXCEPT !.status = "RECOVERY", !.oe = m.oe, !.view = m.view]

SeeBallot(s, m) == [s EXCEPT !.ballot = MaxOf(@, m.bal)]

BallotOk(s, m) == EpochOk(s, m) /\ m.bal >= s.ballot

OnJetpackAccept(s, m) ==
  IF BallotOk(s, m) THEN [SeeBallot(s, m) EXCEPT !.abal = m.bal, !.sid = m.sid]
  ELSE SeeBallot(s, m)

OnJetpackCommit(s, m) ==
  IF EpochOk(s, m) THEN [s EXCEPT !.sid = m.sid] ELSE s

OnJetpackFinishRecovery(s, m) ==
  IF m.oe >= s.oe
  THEN [ResetPool(s) EXCEPT !.je = m.oe, !.oe = m.oe, !.status = "READY"]
  ELSE s

(* A reply is fed to the event of the run that asked, as long as the        *)
(* coroutine will still read that event.                                    *)
Reads(k, field) ==
  CASE field = "pull" -> k.pc = "round1"
    [] field = "prep" -> k.pc = "round1" \/ (k.pc = "round2" /\ ~k.prep_ok)
    [] field \in {"rec", "accept"} -> k.pc = "round2"
    [] field = "ack" -> k.pc = "finish"

Reply(s, m, field, rep) ==
  IF co[s].run = m.run /\ Reads(co[s], field)
  THEN [co EXCEPT ![s][field] = @ \cup {rep}] ELSE co

OnPull(s, d, m) ==
  LET v == OnJetpackBeginRecovery(srv[d], m)
      ok == m.je >= v.je
  IN  /\ srv' = [srv EXCEPT ![d] = v]
      /\ isl' = IF m.view # d THEN isl \ {d} ELSE isl
      /\ co' = Reply(s, m, "pull", [from |-> d, ok |-> ok,
                       ids |-> IF ok THEN ToRecover(v.pool) ELSE {}])
      /\ UNCHANGED <<recset, pend, fin>>

OnPrepare(s, d, m) ==
  LET v == SeeBallot(srv[d], m)
      ok == BallotOk(srv[d], m)
  IN  /\ srv' = [srv EXCEPT ![d] = v]
      /\ co' = Reply(s, m, "prep", [from |-> d, ok |-> ok, seen |-> v.ballot,
                       abal |-> IF ok THEN v.abal ELSE -1,
                       sid |-> IF ok THEN v.sid ELSE NoSid])
      /\ UNCHANGED <<isl, recset, pend, fin>>

(* OnJetpackRecordCmd answers ok even when its epoch test fails.            *)
OnRecord(s, d, m) ==
  LET ok == EpochOk(srv[d], m)
      cmds == IF ok THEN {c \in m.missing : Held(d, c)} ELSE {}
  IN  /\ recset' = IF ok THEN [recset EXCEPT ![d] = Put(@, m.sid, m.ids)]
                   ELSE recset
      /\ co' = Reply(s, m, "rec", [from |-> d, ok |-> TRUE, cmds |-> cmds])
      /\ UNCHANGED <<srv, isl, pend, fin>>

OnAccept(s, d, m) ==
  LET v == OnJetpackAccept(srv[d], m) IN
  /\ srv' = [srv EXCEPT ![d] = v]
  /\ co' = Reply(s, m, "accept", [from |-> d, ok |-> BallotOk(srv[d], m),
                                  seen |-> v.ballot])
  /\ UNCHANGED <<isl, recset, pend, fin>>

OnCommit(s, d, m) ==
  /\ srv' = [srv EXCEPT ![d] = OnJetpackCommit(@, m)]
  /\ UNCHANGED <<co, isl, recset, pend, fin>>

OnFinish(s, d, m) ==
  /\ srv' = [srv EXCEPT ![d] = OnJetpackFinishRecovery(@, m)]
  /\ fin' = [fin EXCEPT ![d] = IF m.oe >= srv[d].oe THEN @ + 1 ELSE @]
  /\ co' = Reply(s, m, "ack", d)
  /\ UNCHANGED <<isl, recset, pend>>

(* Submit of a recovered command: a replica that is not the leader answers  *)
(* WRONG_LEADER, which counts as done like any other answer.                *)
OnDispatch(s, d, m) ==
  /\ pend' = IF d \in isl /\ d = leader
             THEN Append(pend, [cmd |-> m.cmd, from |-> s, run |-> m.run])
             ELSE pend
  /\ co' = IF d \notin isl /\ co[s].run = m.run
           THEN [co EXCEPT ![s].todo = @ \ {m.cmd}] ELSE co
  /\ UNCHANGED <<srv, isl, recset, fin>>

Deliver(s, d) ==
  /\ d \in up
  /\ chan[s][d] # << >>
  /\ chan' = [chan EXCEPT ![s][d] = Tail(@)]
  /\ LET m == Head(chan[s][d]) IN
     \/ m.type = "Pull" /\ OnPull(s, d, m)
     \/ m.type = "Prepare" /\ OnPrepare(s, d, m)
     \/ m.type = "Record" /\ OnRecord(s, d, m)
     \/ m.type = "Accept" /\ OnAccept(s, d, m)
     \/ m.type = "Commit" /\ OnCommit(s, d, m)
     \/ m.type = "Finish" /\ OnFinish(s, d, m)
     \/ m.type = "Dispatch" /\ OnDispatch(s, d, m)
  /\ UNCHANGED <<up, leader, log, exec, elections, clientVars, missed, sidcnt>>

--------------------------------------------------------------------------------
Coroutine(r) ==
  \/ StartRecovery(r)
  \/ Round1Fails(r)
  \/ Round1Proposes(r)
  \/ Round2Fails(r)
  \/ Round2Commits(r)
  \/ Resubmitted(r)
  \/ RecoveryDone(r)

Next ==
  \/ \E c \in Cmd : Dispatch(c) \/ \E r \in Replica : SpecExec(c, r)
  \/ BaseCommit
  \/ \E r \in Replica : Apply(r) \/ Elect(r) \/ StepDown(r) \/ Crash(r)
  \/ \E r \in Replica : Coroutine(r)
  \/ \E s, d \in Replica : Deliver(s, d)

Spec == Init /\ [][Next]_vars

(* The coroutine of a running replica is scheduled when its event is ready, *)
(* the connections deliver, and the original protocol commits and applies.  *)
Fairness ==
  /\ WF_vars(BaseCommit)
  /\ \A r \in Replica : WF_vars(Coroutine(r)) /\ WF_vars(Apply(r))
  /\ \A s, d \in Replica : WF_vars(Deliver(s, d))

FairSpec == Spec /\ Fairness

--------------------------------------------------------------------------------
Sids == {NoSid} \cup {<<n, r>> : n \in 0 .. MaxElections, r \in Replica}

(* The fields keep their types, and no reset, failure or late message       *)
(* leaves a replica with an accepted ballot above the largest it has seen.  *)
TypeOK ==
  /\ up \subseteq Replica
  /\ leader \in Replica
  /\ isl \subseteq up
  /\ \A r \in Replica :
       /\ srv[r].status \in {"READY", "RECOVERY"}
       /\ {srv[r].je, srv[r].oe} \subseteq 0 .. MaxEpoch
       /\ srv[r].pool \in Pool
       /\ srv[r].ballot >= srv[r].abal
       /\ srv[r].sid \in Sids
       /\ co[r].pc \in {"idle", "round1", "round2", "resubmit", "finish"}
       /\ co[r].todo \subseteq Cmd
       /\ exec[r] \in 0 .. Len(log)

(* The promises of c that replicas made between their g-th and next reset.  *)
Promises(c, g) == {a \in acc : a.cmd = c /\ a.gen = g}

FastQuorum(S) ==
  /\ Cardinality({a.from : a \in S}) >= RuleSuperMajority
  /\ \E a \in S : a.ldr

InLog(c) == \E i \in 1 .. Len(log) : log[i] = c

(* Whichever quorum answers the next PullRecovery, the write is recovered.  *)
Recoverable(w) ==
  \A Q \in SUBSET Replica : Cardinality(Q) >= Quorum =>
    Cardinality({r \in Q : w \in ToRecover(srv[r].pool)}) >= majority_threshold

(* A write that a fast quorum promised is in the committed log or would be  *)
(* recovered by every quorum: at no point of a recovery, of the original    *)
(* protocol's own progress or of a crash does it fall between the two.      *)
FastCommitRecoverable ==
  \A w \in Writes : \A g \in {fin[r] : r \in Replica} :
    FastQuorum(Promises(w, g)) => InLog(w) \/ Recoverable(w)

(* A pool is emptied for a finished recovery only when that loses nothing:  *)
(* as soon as FinishRecovery has reset one replica, and for ever after,     *)
(* every write that a fast quorum promised before its resets is committed.  *)
FinishKeepsPromises ==
  (\E r \in Replica : fin[r] > 0) =>
    \A w \in Writes : FastQuorum(Promises(w, 0)) => InLog(w)

(* FastCommitRecoverable for all promises a client may count, of whatever   *)
(* epoch, as jetpack_pseudocode_optimized.tex promises by comparing epochs. *)
FastQuorumRecoverable ==
  \A w \in Writes :
    FastQuorum({a \in acc : a.cmd = w}) => InLog(w) \/ Recoverable(w)

(* The sid that Paxos agrees on stands for one set of commands: replicas    *)
(* that recorded the same sid recorded the same set.                        *)
RecSetAgreement ==
  \A r, q \in Replica : \A sid \in DOMAIN recset[r] \cap DOMAIN recset[q] :
    recset[r][sid] = recset[q][sid]

JoinedFinishStep ==
  \A d \in Replica :
    srv[d].status = "RECOVERY" /\ srv'[d].status = "READY" =>
      chan'[srv[d].view][d] # chan[srv[d].view][d]

(* A replica leaves RECOVERY only on the FinishRecovery of the leader whose *)
(* view it joined last (recovery-notes.md, condition 2).  The code breaks   *)
(* this: README, section 5.                                                 *)
FinishOfJoinedView == [][JoinedFinishStep]_vars

(* Paxos agrees on the recovery set: as long as no replica has reset its    *)
(* pool for a finished recovery, all recoveries that got past Accept        *)
(* committed the same sid.  The code breaks this: README, section 5.        *)
RecoveredAgreement ==
  (\A d \in Replica : fin[d] = 0) =>
    \A r, q \in Replica :
      {co[r].pc, co[q].pc} \subseteq {"resubmit", "finish"} =>
        co[r].propose = co[q].propose

(* A replica that entered RECOVERY accepts fast-path commands again, though *)
(* a minority crashes, unless it or the recovering leader is what crashed.  *)
RecoveryEnds ==
  \A r \in Replica :
    srv[r].status = "RECOVERY" ~>
      (srv[r].status = "READY" \/ ~({r, srv[r].view} \subseteq up))
================================================================================
