------------------------- MODULE JetpackRecoveryProofs -------------------------
(***************************************************************************)
(* What holds of recovery for every number of replicas, elections and      *)
(* crashes, and whatever epochs the replicas start with: the fields keep   *)
(* their types and bounds, and a recovery-set id stands for one set.  And  *)
(* when the replica that commands are dispatched to is the one that        *)
(* recovers, no write that a fast quorum promised gets lost.               *)
(***************************************************************************)
EXTENDS JetpackRecovery, JetpackPoolProofs, LeastNumber, SequenceTheorems

Epoch == 0 .. MaxEpoch

ServerRecord ==
  [status: {"READY", "RECOVERY"}, je: Epoch, oe: Epoch, view: Replica, trig: BOOLEAN,
   pool: Pool, ballot: Int, abal: Int, sid: Sids]

(* A server's fields.  A reset, a failed event or a late message never      *)
(* leaves the accepted ballot above the largest seen.                       *)
Fields == {s \in ServerRecord : PoolOK(s.pool) /\ s.ballot >= s.abal}

PrepReply == [from: Replica, ok: BOOLEAN, seen: Int, abal: Int, sid: Sids]
AcceptReply == [from: Replica, ok: BOOLEAN, seen: Int]

Coro ==
  [pc: {"idle", "round1", "round2", "resubmit", "finish"}, run: Nat,
   pull: SUBSET [from: Replica, ok: BOOLEAN, ids: SUBSET Cmd],
   prep: SUBSET PrepReply,
   rec: SUBSET [from: Replica, ok: BOOLEAN, cmds: SUBSET Cmd],
   accept: SUBSET AcceptReply,
   ack: SUBSET Replica, sid: Sids, propose: Sids, prep_ok: BOOLEAN, todo: SUBSET Cmd]

(* Only finitely many ballots are compared when an event has failed.        *)
Coroutines == {k \in Coro : IsFiniteSet(k.prep) /\ IsFiniteSet(k.accept)}

PullMsg     == [type: {"Pull"}, run: Nat, je: Epoch, oe: Epoch, view: Replica]
PrepareMsg  == [type: {"Prepare"}, run: Nat, je: Epoch, oe: Epoch, bal: Int]
RecordMsg   == [type: {"Record"}, run: Nat, je: Epoch, oe: Epoch, sid: Sids,
                ids: SUBSET Cmd, missing: SUBSET Cmd]
AcceptMsg   == [type: {"Accept"}, run: Nat, je: Epoch, oe: Epoch, sid: Sids, bal: Int]
CommitMsg   == [type: {"Commit"}, run: Nat, je: Epoch, oe: Epoch, sid: Sids]
FinishMsgs  == [type: {"Finish"}, run: Nat, oe: Epoch]
DispatchMsg == [type: {"Dispatch"}, run: Nat, cmd: Cmd]

Msg == PullMsg \cup PrepareMsg \cup RecordMsg \cup AcceptMsg \cup CommitMsg
         \cup FinishMsgs \cup DispatchMsg

Entry == [cmd: Cmd, from: Replica \cup {NoSid}, run: Nat]

BaseOK ==
  /\ up \subseteq Replica
  /\ leader \in Replica
  /\ isl \subseteq up
  /\ pend \in Seq(Entry)
  /\ log \in Seq(Cmd)
  /\ exec \in [Replica -> Nat]
  /\ \A r \in Replica : exec[r] <= Len(log)
  /\ elections \in 0 .. MaxElections

SetsOK ==
  /\ sidcnt \in [Replica -> Nat]
  /\ DOMAIN recset = Replica
  /\ \A r \in Replica : \A sid \in DOMAIN recset[r] : recset[r][sid] \in SUBSET Cmd

(* Each sid was paid for with an election: r has one still to come for a    *)
(* pending trigger and one for a recovery in its first round.               *)
Due(b) == IF b THEN 1 ELSE 0

SidsPaid ==
  \A r \in Replica :
    sidcnt[r] + Due(co[r].pc = "round1") + Due(srv[r].trig) <= elections

Types ==
  /\ BaseOK
  /\ SetsOK
  /\ srv \in [Replica -> Fields]
  /\ co \in [Replica -> Coroutines]
  /\ chan \in [Replica -> [Replica -> Seq(Msg)]]
  /\ SidsPaid

(* A sid is of the replica it names, was taken there, and is recorded there *)
(* with the set it stands for.                                              *)
Agreed(sid, ids) ==
  \E q \in Replica, n \in Nat :
    /\ sid = <<n, q>>
    /\ n < sidcnt[q]
    /\ sid \in DOMAIN recset[q]
    /\ recset[q][sid] = ids

Elems(q) == {q[i] : i \in DOMAIN q}

SetsAgreed ==
  /\ \A r \in Replica : \A sid \in DOMAIN recset[r] : Agreed(sid, recset[r][sid])
  /\ \A s, d \in Replica : \A m \in Elems(chan[s][d]) :
       m.type = "Record" => Agreed(m.sid, m.ids)

RInv == Types /\ SetsAgreed

--------------------------------------------------------------------------------
(* What is put at the end of a connection, and what is behind its head.     *)
LEMMA ElemsConcat ==
  ASSUME NEW M, NEW p \in Seq(M), NEW q \in Seq(M)
  PROVE  p \o q \in Seq(M) /\ Elems(p \o q) = Elems(p) \cup Elems(q)
<1>1. p \o q \in Seq(M)
  OBVIOUS
<1>2. /\ Len(p) \in Nat /\ Len(q) \in Nat /\ Len(p \o q) = Len(p) + Len(q)
      /\ DOMAIN p = 1 .. Len(p) /\ DOMAIN q = 1 .. Len(q)
      /\ DOMAIN (p \o q) = 1 .. Len(p) + Len(q)
      /\ \A i \in 1 .. Len(p) + Len(q) :
           (p \o q)[i] = IF i <= Len(p) THEN p[i] ELSE q[i - Len(p)]
  OBVIOUS
<1>3. ASSUME NEW i \in DOMAIN (p \o q) PROVE (p \o q)[i] \in Elems(p) \cup Elems(q)
  BY <1>2 DEF Elems
<1>4. ASSUME NEW i \in DOMAIN p PROVE p[i] \in Elems(p \o q)
  BY <1>2 DEF Elems
<1>5. ASSUME NEW i \in DOMAIN q PROVE q[i] \in Elems(p \o q)
  <2>1. i + Len(p) \in DOMAIN (p \o q) /\ (p \o q)[i + Len(p)] = q[i]
    BY <1>2
  <2> QED
    BY <2>1 DEF Elems
<1> QED
  BY <1>1, <1>3, <1>4, <1>5 DEF Elems

(* The head of a connection and what is left of it.                         *)
LEMMA ElemsTail ==
  ASSUME NEW M, NEW q \in Seq(M), q # << >>
  PROVE  /\ Tail(q) \in Seq(M) /\ Elems(Tail(q)) \subseteq Elems(q)
         /\ Head(q) \in M /\ Head(q) \in Elems(q)
BY DEF Elems

(* A broadcast puts the same messages at the end of all its connections.    *)
LEMMA BroadcastSends ==
  ASSUME chan \in [Replica -> [Replica -> Seq(Msg)]], NEW r \in Replica,
         NEW msgs \in Seq(Msg)
  PROVE  /\ Broadcast(r, msgs) \in [Replica -> [Replica -> Seq(Msg)]]
         /\ \A s, d \in Replica :
              Elems(Broadcast(r, msgs)[s][d]) \subseteq Elems(chan[s][d]) \cup Elems(msgs)
<1> DEFINE B == Broadcast(r, msgs)
<1>1. \A d \in Replica : chan[r][d] \o msgs \in Seq(Msg)
  BY ElemsConcat
<1>2. /\ B \in [Replica -> [Replica -> Seq(Msg)]]
      /\ \A s, d \in Replica : B[s][d] = IF s = r THEN chan[r][d] \o msgs ELSE chan[s][d]
  BY <1>1 DEF Broadcast
<1>3. \A d \in Replica : Elems(chan[r][d] \o msgs) = Elems(chan[r][d]) \cup Elems(msgs)
  BY ElemsConcat
<1> QED
  BY <1>2, <1>3

(* Steps that record no set and send none.                                  *)
LEMMA SetsKept ==
  ASSUME SetsAgreed, UNCHANGED <<recset, sidcnt>>,
         \A s, d \in Replica : \A m \in Elems(chan'[s][d]) :
           m.type = "Record" => m \in Elems(chan[s][d])
  PROVE  SetsAgreed'
<1>1. \A sid, ids : Agreed(sid, ids)' <=> Agreed(sid, ids)
  BY DEF Agreed
<1> QED
  BY <1>1 DEF SetsAgreed

--------------------------------------------------------------------------------
(* What the handlers and the failed events leave of a server's fields.      *)
LEMMA ResetPoolKeeps ==
  ASSUME NEW s \in Fields
  PROVE  /\ ResetPool(s) \in Fields
         /\ ResetPool(s).trig = s.trig /\ ResetPool(s).je = s.je
         /\ ResetPool(s).ballot = -1 /\ ResetPool(s).abal = -1
<1>1. EmptyPool \in Pool /\ PoolOK(EmptyPool)
  BY EmptyPoolOK DEF PoolOK
<1>2. NoSid \in Sids
  BY DEF Sids
<1> DEFINE v == ResetPool(s)
<1>3. PICK b \in Int : b = -1
  OBVIOUS
<1>4. v = [s EXCEPT !.pool = EmptyPool, !.ballot = b, !.abal = b, !.sid = NoSid]
  BY <1>3, Zenon DEF ResetPool
<1>5. PICK e \in Pool : e = EmptyPool
  BY <1>1
<1>6. v = [s EXCEPT !.pool = e, !.ballot = b, !.abal = b, !.sid = NoSid]
  BY <1>4, <1>5
<1>7. s \in ServerRecord
  BY DEF Fields
<1> HIDE DEF v
<1>8. /\ v \in ServerRecord
      /\ v.pool = e /\ v.ballot = b /\ v.abal = b
      /\ v.trig = s.trig /\ v.je = s.je
  BY <1>2, <1>6, <1>7 DEF ServerRecord
<1>9. v.ballot >= v.abal
  BY <1>8
<1>10. v \in Fields
  BY <1>1, <1>5, <1>8, <1>9 DEF Fields
<1> QED
  BY <1>3, <1>8, <1>10 DEF v

(* A failed quorum event takes both epochs to the largest.                  *)
LEMMA FailEpochsKeeps ==
  ASSUME NEW s \in Fields
  PROVE  FailEpochs(s) \in Fields /\ FailEpochs(s).trig = s.trig
<1> DEFINE t == IF s.je < MaxEpoch THEN ResetPool(s) ELSE s
<1>1. t \in Fields /\ t.trig = s.trig
  BY ResetPoolKeeps
<1>2. MaxEpoch \in Epoch
  BY RecoveryAssumption DEF RecoveryAssumption, Epoch
<1>3. FailEpochs(s) = [t EXCEPT !.je = MaxEpoch, !.oe = MaxEpoch]
  BY DEF FailEpochs
<1> HIDE DEF t
<1> QED
  BY <1>1, <1>2, <1>3 DEF Fields, ServerRecord

(* The ballot rises to the largest that was reported.                       *)
LEMMA FailBallotKeeps ==
  ASSUME NEW s \in Fields, NEW noes, IsFiniteSet(noes), \A m \in noes : m.seen \in Int
  PROVE  FailBallot(s, noes) \in Fields /\ FailBallot(s, noes).trig = s.trig
<1> DEFINE B == {s.ballot} \cup {m.seen : m \in noes}
           b == CHOOSE x \in B : \A y \in B : x >= y
<1>1. s.ballot \in Int /\ s.abal \in Int /\ s.ballot >= s.abal
  BY DEF Fields, ServerRecord
<1>2. IsFiniteSet({m.seen : m \in noes})
  <2> DEFINE f == [m \in noes |-> m.seen]
  <2>1. f \in Surjection(noes, {m.seen : m \in noes})
    BY DEF Surjection
  <2> QED
    BY <2>1, FS_Surjection
<1>3. IsFiniteSet(B) /\ B \in SUBSET Int /\ B # {}
  <2>1. B = {m.seen : m \in noes} \cup {s.ballot}
    OBVIOUS
  <2>2. IsFiniteSet(B)
    BY <1>2, <2>1, FS_AddElement
  <2> QED
    BY <1>1, <2>2
<1>4. \E x \in B : \A y \in B : x >= y
  <2> HIDE DEF B
  <2> QED
    BY <1>3, GreatestOfFinite
<1>5. b \in B /\ \A y \in B : b >= y
  <2> HIDE DEF B
  <2> QED
    BY <1>4
<1>6. b \in Int /\ b >= s.ballot
  BY <1>3, <1>5
<1>7. FailBallot(s, noes) = [s EXCEPT !.ballot = b]
  BY DEF FailBallot
<1> HIDE DEF b
<1> QED
  BY <1>1, <1>6, <1>7 DEF Fields, ServerRecord

(* OnJetpackBeginRecovery, OnJetpackPrepare's ballot.                       *)
LEMMA BeginKeeps ==
  ASSUME NEW s \in Fields, NEW m, m.oe \in Epoch, m.view \in Replica
  PROVE  /\ OnJetpackBeginRecovery(s, m) \in Fields
         /\ OnJetpackBeginRecovery(s, m).trig = s.trig
BY DEF OnJetpackBeginRecovery, Fields, ServerRecord

(* A ballot that is seen.                                                   *)
LEMMA SeeBallotKeeps ==
  ASSUME NEW s \in Fields, NEW m, m.bal \in Int
  PROVE  /\ SeeBallot(s, m) \in Fields /\ SeeBallot(s, m).trig = s.trig
         /\ SeeBallot(s, m).ballot >= m.bal
BY DEF SeeBallot, MaxOf, Fields, ServerRecord

(* OnJetpackAccept accepts no ballot above the largest it has seen.         *)
LEMMA AcceptKeeps ==
  ASSUME NEW s \in Fields, NEW m, m.bal \in Int, m.sid \in Sids
  PROVE  OnJetpackAccept(s, m) \in Fields /\ OnJetpackAccept(s, m).trig = s.trig
<1> DEFINE t == SeeBallot(s, m)
<1>1. t \in Fields /\ t.trig = s.trig /\ t.ballot >= m.bal
  BY SeeBallotKeeps
<1>2. OnJetpackAccept(s, m) = t \/ OnJetpackAccept(s, m) = [t EXCEPT !.abal = m.bal, !.sid = m.sid]
  BY DEF OnJetpackAccept
<1> HIDE DEF t
<1> QED
  BY <1>1, <1>2 DEF Fields, ServerRecord

(* OnJetpackCommit.                                                         *)
LEMMA CommitKeeps ==
  ASSUME NEW s \in Fields, NEW m, m.sid \in Sids
  PROVE  OnJetpackCommit(s, m) \in Fields /\ OnJetpackCommit(s, m).trig = s.trig
BY DEF OnJetpackCommit, Fields, ServerRecord

(* OnJetpackFinishRecovery.                                                 *)
LEMMA FinishKeeps ==
  ASSUME NEW s \in Fields, NEW m, m.oe \in Epoch
  PROVE  OnJetpackFinishRecovery(s, m) \in Fields /\ OnJetpackFinishRecovery(s, m).trig = s.trig
<1> DEFINE t == ResetPool(s)
<1>1. t \in Fields /\ t.trig = s.trig
  BY ResetPoolKeeps
<1>2. \/ OnJetpackFinishRecovery(s, m) = s
      \/ OnJetpackFinishRecovery(s, m) = [t EXCEPT !.je = m.oe, !.oe = m.oe, !.status = "READY"]
  BY DEF OnJetpackFinishRecovery
<1> HIDE DEF t
<1> QED
  BY <1>1, <1>2 DEF Fields, ServerRecord

(* What a replica reports is a set of commands.                             *)
LEMMA ToRecoverCmds ==
  ASSUME NEW s \in Fields
  PROVE  ToRecover(s.pool) \in SUBSET Cmd
BY DEF ToRecover, CmdToRecover, Fields, ServerRecord, Pool, Bucket

--------------------------------------------------------------------------------
(* A step that takes no sid, triggers no recovery and starts none.          *)
LEMMA SidsKept ==
  ASSUME Types, UNCHANGED <<sidcnt, elections>>,
         \A r \in Replica : co'[r].pc = "round1" => co[r].pc = "round1",
         \A r \in Replica : srv'[r].trig => srv[r].trig
  PROVE  SidsPaid'
<1> SUFFICES ASSUME NEW r \in Replica
             PROVE  sidcnt[r] + Due(co'[r].pc = "round1") + Due(srv'[r].trig) <= elections
  BY DEF SidsPaid
<1>1. sidcnt[r] \in Nat /\ elections \in Int
  BY DEF Types, SetsOK, BaseOK
<1>2. sidcnt[r] + Due(co[r].pc = "round1") + Due(srv[r].trig) <= elections
  BY DEF Types, SidsPaid
<1>3. /\ Due(co[r].pc = "round1") \in {0, 1} /\ Due(srv[r].trig) \in {0, 1}
      /\ Due(co'[r].pc = "round1") \in {0, 1} /\ Due(srv'[r].trig) \in {0, 1}
  BY DEF Due
<1>4. /\ Due(co'[r].pc = "round1") <= Due(co[r].pc = "round1")
      /\ Due(srv'[r].trig) <= Due(srv[r].trig)
  BY DEF Due
<1> QED
  BY <1>1, <1>2, <1>3, <1>4

(* A pool in a server's fields.                                             *)
LEMMA PoolPut ==
  ASSUME NEW s \in Fields, NEW p, PoolOK(p)
  PROVE  [s EXCEPT !.pool = p] \in Fields /\ [s EXCEPT !.pool = p].trig = s.trig
<1>1. p \in Pool
  BY DEF PoolOK
<1> QED
  BY <1>1 DEF Fields, ServerRecord

(* Commands that are done in a coroutine's events.                          *)
LEMMA TodoPut ==
  ASSUME NEW k \in Coroutines, NEW c
  PROVE  /\ [k EXCEPT !.todo = @ \ {c}] \in Coroutines
         /\ [k EXCEPT !.todo = @ \ {c}].pc = k.pc
<1>1. k \in Coro /\ IsFiniteSet(k.prep) /\ IsFiniteSet(k.accept)
  BY DEF Coroutines
<1> DEFINE j == [k EXCEPT !.todo = @ \ {c}]
<1>2. j \in Coro /\ j.prep = k.prep /\ j.accept = k.accept /\ j.pc = k.pc
  BY <1>1 DEF Coro
<1> QED
  BY <1>1, <1>2 DEF Coroutines

--------------------------------------------------------------------------------
(* The clients and the original protocol.                                   *)
LEMMA SpecExecTypes ==
  ASSUME RInv, NEW c \in Cmd, NEW r \in Replica, SpecExec(c, r)
  PROVE  RInv'
<1>1. srv \in [Replica -> Fields] /\ srv[r] \in Fields
  BY DEF RInv, Types
<1>2. UNCHANGED <<baseVars, setVars, co, chan>>
  BY DEF SpecExec
<1>3. srv' \in [Replica -> Fields] /\ \A q \in Replica : srv'[q].trig = srv[q].trig
  <2> DEFINE p == PoolPush(srv[r].pool, c)
  <2>1. PoolOK(p)
    BY <1>1, PoolPushOK DEF Fields
  <2>2. srv' = srv \/ srv' = [srv EXCEPT ![r] = [srv[r] EXCEPT !.pool = p]]
    BY DEF SpecExec
  <2> HIDE DEF p
  <2>3. [srv[r] EXCEPT !.pool = p] \in Fields /\ [srv[r] EXCEPT !.pool = p].trig = srv[r].trig
    BY <1>1, <2>1, PoolPut
  <2> QED
    BY <1>1, <2>2, <2>3
<1>4. SidsPaid'
  BY <1>2, <1>3, SidsKept DEF RInv, setVars, baseVars
<1>5. SetsAgreed'
  BY <1>2, SetsKept DEF RInv, setVars
<1> QED
  BY <1>2, <1>3, <1>4, <1>5 DEF RInv, Types, BaseOK, SetsOK, baseVars, setVars

(* A dispatched command joins the leader's uncommitted entries.             *)
LEMMA DispatchTypes ==
  ASSUME RInv, NEW c \in Cmd, Dispatch(c)
  PROVE  RInv'
<1>1. UNCHANGED <<up, leader, isl, log, exec, elections, setVars, srv, co, chan>>
  BY DEF Dispatch
<1>2. pend' \in Seq(Entry)
  <2>1. pend \in Seq(Entry)
    BY DEF RInv, Types, BaseOK
  <2>2. [cmd |-> c, from |-> NoSid, run |-> 0] \in Entry
    BY DEF Entry
  <2>3. pend' = pend \/ pend' = Append(pend, [cmd |-> c, from |-> NoSid, run |-> 0])
    BY DEF Dispatch
  <2> QED
    BY <2>1, <2>2, <2>3
<1>3. SidsPaid'
  BY <1>1, SidsKept DEF RInv, setVars
<1>4. SetsAgreed'
  BY <1>1, SetsKept DEF RInv, setVars
<1> QED
  BY <1>1, <1>2, <1>3, <1>4 DEF RInv, Types, BaseOK, SetsOK, setVars

(* A committed entry, and the callback of the recovery that waits for it.   *)
LEMMA BaseCommitTypes ==
  ASSUME RInv, BaseCommit
  PROVE  RInv'
<1> DEFINE e == Head(pend)
<1>1. UNCHANGED <<up, leader, isl, exec, elections, setVars, srv, chan>>
  BY DEF BaseCommit
<1>2. e \in Entry /\ Tail(pend) \in Seq(Entry)
  BY ElemsTail DEF RInv, Types, BaseOK, BaseCommit
<1>3. /\ pend' = Tail(pend) /\ log' = Append(log, e.cmd)
      /\ \/ co' = co
         \/ e.from \in Replica /\ co' = [co EXCEPT ![e.from].todo = @ \ {e.cmd}]
  BY DEF BaseCommit
<1> HIDE DEF e
<1>4. /\ log' \in Seq(Cmd) /\ log \in Seq(Cmd) /\ Len(log') = Len(log) + 1
      /\ Len(log) \in Nat /\ exec \in [Replica -> Nat]
      /\ \A r \in Replica : exec[r] <= Len(log)
  BY <1>2, <1>3 DEF RInv, Types, BaseOK, Entry
<1>5. \A r \in Replica : exec[r] \in Nat /\ exec[r] <= Len(log')
  BY <1>4
<1>6. co' \in [Replica -> Coroutines] /\ \A r \in Replica : co'[r].pc = co[r].pc
  <2>1. co \in [Replica -> Coroutines]
    BY DEF RInv, Types
  <2>2. CASE co' = co
    BY <2>1, <2>2
  <2>3. CASE e.from \in Replica /\ co' = [co EXCEPT ![e.from].todo = @ \ {e.cmd}]
    <3> DEFINE k == co[e.from]
               j == [k EXCEPT !.todo = @ \ {e.cmd}]
    <3>1. j \in Coroutines /\ j.pc = k.pc
      BY <2>1, <2>3, TodoPut
    <3>2. co' = [co EXCEPT ![e.from] = j]
      BY <2>1, <2>3
    <3> HIDE DEF j
    <3> QED
      BY <2>1, <2>3, <3>1, <3>2
  <2> QED
    BY <1>3, <2>2, <2>3
<1>7. SidsPaid'
  BY <1>1, <1>6, SidsKept DEF RInv, setVars
<1>8. SetsAgreed'
  BY <1>1, SetsKept DEF RInv, setVars
<1>9. BaseOK'
  BY <1>1, <1>2, <1>3, <1>4, <1>5 DEF RInv, Types, BaseOK
<1> QED
  BY <1>1, <1>6, <1>7, <1>8, <1>9 DEF RInv, Types, SetsOK, setVars

(* An entry is applied and collected from the pool.                         *)
LEMMA ApplyTypes ==
  ASSUME RInv, NEW r \in Replica, Apply(r)
  PROVE  RInv'
<1>1. UNCHANGED <<up, leader, isl, pend, log, elections, setVars, co, chan>>
  BY DEF Apply
<1>2. /\ srv \in [Replica -> Fields] /\ srv[r] \in Fields /\ log \in Seq(Cmd)
      /\ exec \in [Replica -> Nat] /\ exec[r] < Len(log)
  BY DEF RInv, Types, BaseOK, Apply
<1>3. /\ exec' \in [Replica -> Nat] /\ \A q \in Replica : exec'[q] <= Len(log)
      /\ log[exec[r] + 1] \in Cmd
  BY <1>2 DEF RInv, Types, BaseOK, Apply
<1>4. srv' \in [Replica -> Fields] /\ \A q \in Replica : srv'[q].trig = srv[q].trig
  <2> DEFINE p == PoolRemove(srv[r].pool, log[exec[r] + 1])
  <2>1. PoolOK(p)
    <3>1. PoolOK(srv[r].pool) /\ PromisedNamed(srv[r].pool, {})
      BY <1>2 DEF Fields, PromisedNamed
    <3> QED
      BY <1>3, <3>1, PoolRemoveOK
  <2>2. srv' = [srv EXCEPT ![r] = [srv[r] EXCEPT !.pool = p]]
    BY <1>2 DEF Apply
  <2> HIDE DEF p
  <2>3. [srv[r] EXCEPT !.pool = p] \in Fields /\ [srv[r] EXCEPT !.pool = p].trig = srv[r].trig
    BY <1>2, <2>1, PoolPut
  <2> QED
    BY <1>2, <2>2, <2>3
<1>5. SidsPaid'
  BY <1>1, <1>4, SidsKept DEF RInv, setVars
<1>6. SetsAgreed'
  BY <1>1, SetsKept DEF RInv, setVars
<1> QED
  BY <1>1, <1>3, <1>4, <1>5, <1>6 DEF RInv, Types, BaseOK, SetsOK, setVars

(* An election: its trigger is what a later sid is paid with.               *)
LEMMA ElectTypes ==
  ASSUME RInv, NEW r \in Replica, Elect(r)
  PROVE  RInv'
<1>1. UNCHANGED <<up, log, exec, setVars, co, chan>>
  BY DEF Elect
<1>2. /\ leader' \in Replica /\ isl' \subseteq up /\ elections \in 0 .. MaxElections
      /\ elections' = elections + 1 /\ elections' \in 0 .. MaxElections
  BY RecoveryAssumption DEF RInv, Types, BaseOK, Elect, RecoveryAssumption
<1>3. pend' \in Seq(Entry)
  <2>1. pend \in Seq(Entry)
    BY DEF RInv, Types, BaseOK
  <2>2. PICK n \in 0 .. Len(pend) :
          pend' = [i \in 1 .. n |-> [pend[i] EXCEPT !.from = NoSid]]
    BY DEF Elect
  <2>3. n \in Nat /\ \A i \in 1 .. n : pend[i] \in Entry
    BY <2>1
  <2>4. \A i \in 1 .. n : [pend[i] EXCEPT !.from = NoSid] \in Entry
    BY <2>3 DEF Entry
  <2> QED
    BY <2>2, <2>3, <2>4
<1>4. /\ srv \in [Replica -> Fields] /\ srv' \in [Replica -> Fields]
      /\ \A q \in Replica \ {r} : srv'[q].trig = srv[q].trig
  <2>1. srv \in [Replica -> Fields] /\ srv[r] \in Fields
    BY DEF RInv, Types
  <2>2. [srv[r] EXCEPT !.view = r, !.trig = TRUE] \in Fields
    BY <2>1 DEF Fields, ServerRecord
  <2>3. srv' = [srv EXCEPT ![r] = [srv[r] EXCEPT !.view = r, !.trig = TRUE]]
    BY <2>1 DEF Elect
  <2> QED
    BY <2>1, <2>2, <2>3
<1>5. SidsPaid'
  <2> SUFFICES ASSUME NEW q \in Replica
               PROVE  sidcnt[q] + Due(co[q].pc = "round1") + Due(srv'[q].trig)
                        <= elections'
    BY <1>1 DEF SidsPaid, setVars
  <2>1. sidcnt[q] \in Nat
    BY DEF RInv, Types, SetsOK
  <2>2. sidcnt[q] + Due(co[q].pc = "round1") + Due(srv[q].trig) <= elections
    BY DEF RInv, Types, SidsPaid
  <2>3. /\ Due(co[q].pc = "round1") \in {0, 1} /\ Due(srv[q].trig) \in {0, 1}
        /\ Due(srv'[q].trig) \in {0, 1}
    BY DEF Due
  <2> QED
    BY <1>2, <2>1, <2>2, <2>3
<1>6. SetsAgreed'
  BY <1>1, SetsKept DEF RInv, setVars
<1>7. BaseOK'
  BY <1>1, <1>2, <1>3 DEF RInv, Types, BaseOK
<1> QED
  BY <1>1, <1>4, <1>5, <1>6, <1>7 DEF RInv, Types, SetsOK, setVars

(* A deposed leader steps down.                                             *)
LEMMA StepDownTypes ==
  ASSUME RInv, NEW r \in Replica, StepDown(r)
  PROVE  RInv'
<1>1. /\ UNCHANGED <<up, leader, pend, log, exec, elections, setVars, srv, co, chan>>
      /\ isl' = isl \ {r}
  BY DEF StepDown
<1>2. SidsPaid'
  BY <1>1, SidsKept DEF RInv, setVars
<1>3. SetsAgreed'
  BY <1>1, SetsKept DEF RInv, setVars
<1> QED
  BY <1>1, <1>2, <1>3 DEF RInv, Types, BaseOK, SetsOK, setVars

(* A replica crashes.                                                       *)
LEMMA CrashTypes ==
  ASSUME RInv, NEW r \in Replica, Crash(r)
  PROVE  RInv'
<1>1. /\ UNCHANGED <<leader, pend, log, exec, elections, setVars, srv, co, chan>>
      /\ isl' = isl \ {r} /\ up' = up \ {r}
  BY DEF Crash
<1>2. SidsPaid'
  BY <1>1, SidsKept DEF RInv, setVars
<1>3. SetsAgreed'
  BY <1>1, SetsKept DEF RInv, setVars
<1> QED
  BY <1>1, <1>2, <1>3 DEF RInv, Types, BaseOK, SetsOK, setVars

--------------------------------------------------------------------------------
(* The coroutine at rest: no event, and nothing to resubmit.                *)
LEMMA IdleOK == Idle \in Coro /\ Idle.prep = {} /\ Idle.accept = {}
<1>1. NoSid \in Sids
  BY DEF Sids
<1> QED
  BY <1>1 DEF Idle, Coro

(* The coroutine at each of its Waits, and which of its events it keeps.    *)
FirstRound(k) == [Idle EXCEPT !.pc = "round1", !.run = k.run + 1]

Resubmitting(k, propose, todo) ==
  [Rest(k) EXCEPT !.pc = "resubmit", !.propose = propose, !.todo = todo]

Finishing(k, propose) == [Rest(k) EXCEPT !.pc = "finish", !.propose = propose]

(* At rest, or at a Wait that reads no earlier event.                       *)
LEMMA RestAt ==
  ASSUME NEW k \in Coroutines, NEW propose \in Sids, NEW todo \in SUBSET Cmd
  PROVE  /\ Rest(k) \in Coroutines /\ Rest(k).pc = "idle"
         /\ FirstRound(k) \in Coroutines /\ FirstRound(k).pc = "round1"
         /\ Resubmitting(k, propose, todo) \in Coroutines
         /\ Resubmitting(k, propose, todo).pc = "resubmit"
         /\ Finishing(k, propose) \in Coroutines
         /\ Finishing(k, propose).pc = "finish"
<1>1. k.run \in Nat /\ k.run + 1 \in Nat
  BY DEF Coroutines, Coro
<1>2. IsFiniteSet({})
  BY FS_EmptySet
<1>3. Idle \in Coro /\ Idle.prep = {} /\ Idle.accept = {}
  BY IdleOK
<1> DEFINE R == Rest(k)
           S == FirstRound(k)
           T == Finishing(k, propose)
           U == Resubmitting(k, propose, todo)
<1>4. /\ R \in Coro /\ R.prep = {} /\ R.accept = {} /\ R.run = k.run
      /\ R.pc = Idle.pc
  BY <1>1, <1>3 DEF Rest, Coro
<1>5. R \in Coroutines /\ R.pc = "idle"
  BY <1>2, <1>4 DEF Coroutines, Idle
<1>6. S \in Coro /\ S.prep = {} /\ S.accept = {} /\ S.pc = "round1"
  BY <1>1, <1>3 DEF Coro, FirstRound
<1>7. S \in Coroutines /\ S.pc = "round1"
  BY <1>2, <1>6 DEF Coroutines
<1>8. /\ T \in Coro /\ T.prep = {} /\ T.accept = {} /\ T.pc = "finish"
      /\ U \in Coro /\ U.prep = {} /\ U.accept = {} /\ U.pc = "resubmit"
  BY <1>4 DEF Coro, Finishing, Resubmitting
<1>9. T \in Coroutines /\ U \in Coroutines
  BY <1>2, <1>8 DEF Coroutines
<1> QED
  BY <1>5, <1>7, <1>8, <1>9

(* A message put on a connection, and no recorded set among it.             *)
LEMMA BroadcastKeepsSets ==
  ASSUME RInv, UNCHANGED <<recset, sidcnt>>, NEW r \in Replica, NEW msgs \in Seq(Msg),
         chan' = Broadcast(r, msgs), \A m \in Elems(msgs) : m.type # "Record"
  PROVE  chan' \in [Replica -> [Replica -> Seq(Msg)]] /\ SetsAgreed'
<1>1. /\ chan' \in [Replica -> [Replica -> Seq(Msg)]]
      /\ \A s, d \in Replica : Elems(chan'[s][d]) \subseteq Elems(chan[s][d]) \cup Elems(msgs)
  BY BroadcastSends DEF RInv, Types
<1>2. \A s, d \in Replica : \A m \in Elems(chan'[s][d]) :
        m.type = "Record" => m \in Elems(chan[s][d])
  BY <1>1
<1> QED
  BY <1>1, <1>2, SetsKept DEF RInv

(* One message, or two, for every connection.                               *)
LEMMA OneTwo ==
  ASSUME NEW m \in Msg, NEW n \in Msg
  PROVE  /\ <<m>> \in Seq(Msg) /\ Elems(<<m>>) = {m}
         /\ <<m, n>> \in Seq(Msg) /\ Elems(<<m, n>>) = {m, n}
BY DEF Elems

(* The trigger is taken and the recovery is in its first round.             *)
LEMMA StartRecoveryTypes ==
  ASSUME RInv, NEW r \in Replica, StartRecovery(r)
  PROVE  RInv'
<1> DEFINE s == srv[r]
           v == [s EXCEPT !.trig = FALSE, !.status = "RECOVERY"]
           k == FirstRound(co[r])
           pull == [type |-> "Pull", run |-> co[r].run + 1, je |-> s.je, oe |-> s.oe,
                    view |-> s.view]
           prepare == [type |-> "Prepare", run |-> co[r].run + 1, je |-> s.je, oe |-> s.oe,
                       bal |-> s.ballot]
<1>1. /\ srv \in [Replica -> Fields] /\ co \in [Replica -> Coroutines]
      /\ s \in Fields /\ co[r] \in Coroutines
  BY DEF RInv, Types
<1>2. /\ UNCHANGED <<baseVars, setVars>> /\ s.trig /\ co[r].pc = "idle"
      /\ srv' = [srv EXCEPT ![r] = v]
      /\ co' = [co EXCEPT ![r] = k]
      /\ chan' = Broadcast(r, <<pull, prepare>>)
  BY <1>1 DEF StartRecovery, FirstRound
<1>3. v \in Fields /\ v.trig = FALSE
  BY <1>1 DEF Fields, ServerRecord
<1>4. k \in Coroutines /\ k.pc = "round1"
  <2>1. NoSid \in Sids /\ {} \in SUBSET Cmd
    BY DEF Sids
  <2> QED
    BY <1>1, <2>1, RestAt
<1>5. /\ pull \in Msg /\ prepare \in Msg /\ pull.type # "Record" /\ prepare.type # "Record"
  <2>1. s.je \in Epoch /\ s.oe \in Epoch /\ s.view \in Replica /\ s.ballot \in Int
        /\ co[r].run + 1 \in Nat
    BY <1>1 DEF Fields, ServerRecord, Coroutines, Coro
  <2>2. pull \in PullMsg /\ prepare \in PrepareMsg
    BY <2>1 DEF PullMsg, PrepareMsg
  <2> QED
    BY <2>2 DEF Msg
<1>6. chan' \in [Replica -> [Replica -> Seq(Msg)]] /\ SetsAgreed'
  <2> HIDE DEF pull, prepare
  <2>1. <<pull, prepare>> \in Seq(Msg) /\ Elems(<<pull, prepare>>) = {pull, prepare}
    BY <1>5, OneTwo
  <2> QED
    BY <1>2, <1>5, <2>1, BroadcastKeepsSets DEF setVars
<1> HIDE DEF v, k
<1>7. srv' \in [Replica -> Fields] /\ co' \in [Replica -> Coroutines]
  BY <1>1, <1>2, <1>3, <1>4
<1>8. SidsPaid'
  <2> SUFFICES ASSUME NEW q \in Replica
               PROVE  sidcnt[q] + Due(co'[q].pc = "round1") + Due(srv'[q].trig) <= elections
    BY <1>2 DEF SidsPaid, setVars, baseVars
  <2>1. sidcnt[q] + Due(co[q].pc = "round1") + Due(srv[q].trig) <= elections
    BY DEF RInv, Types, SidsPaid
  <2>2. CASE q # r
    BY <1>1, <1>2, <2>1, <2>2
  <2>3. CASE q = r
    <3>1. co'[r].pc = "round1" /\ srv'[r].trig = FALSE
      BY <1>1, <1>2, <1>3, <1>4
    <3>2. /\ Due(co'[r].pc = "round1") = 1 /\ Due(srv'[r].trig) = 0
          /\ Due(co[r].pc = "round1") = 0 /\ Due(srv[r].trig) = 1
      BY <1>2, <3>1 DEF Due
    <3>3. sidcnt[r] \in Nat
      BY DEF RInv, Types, SetsOK
    <3> QED
      BY <2>1, <2>3, <3>2, <3>3
  <2> QED
    BY <2>2, <2>3
<1> QED
  BY <1>2, <1>6, <1>7, <1>8 DEF RInv, Types, BaseOK, SetsOK, baseVars, setVars

(* A coroutine that returns to rest or goes on to its last Wait, and what   *)
(* it leaves of its replica's fields.                                       *)
LEMMA CoroutineMoves ==
  ASSUME RInv, NEW r \in Replica, NEW v \in Fields, v.trig = srv[r].trig,
         NEW k \in Coroutines, k.pc # "round1",
         UNCHANGED <<baseVars, recset, sidcnt>>,
         srv' = [srv EXCEPT ![r] = v], co' = [co EXCEPT ![r] = k],
         chan' \in [Replica -> [Replica -> Seq(Msg)]], SetsAgreed'
  PROVE  RInv'
<1>1. srv \in [Replica -> Fields] /\ co \in [Replica -> Coroutines]
  BY DEF RInv, Types
<1>2. /\ srv' \in [Replica -> Fields] /\ co' \in [Replica -> Coroutines]
      /\ \A q \in Replica : srv'[q].trig = srv[q].trig
      /\ \A q \in Replica : co'[q].pc = "round1" => co[q].pc = "round1"
  BY <1>1
<1>3. SidsPaid'
  BY <1>2, SidsKept DEF RInv, baseVars
<1> QED
  BY <1>2, <1>3 DEF RInv, Types, BaseOK, SetsOK, baseVars

(* PullRecovery failed.                                                     *)
LEMMA Round1FailsTypes ==
  ASSUME RInv, NEW r \in Replica, Round1Fails(r)
  PROVE  RInv'
<1>1. /\ srv[r] \in Fields /\ co[r] \in Coroutines
      /\ srv \in [Replica -> Fields] /\ co \in [Replica -> Coroutines]
  BY DEF RInv, Types
<1>2. /\ UNCHANGED <<baseVars, setVars, chan>>
      /\ srv' = [srv EXCEPT ![r] = FailEpochs(srv[r])]
      /\ co' = [co EXCEPT ![r] = Rest(co[r])]
  BY <1>1 DEF Round1Fails
<1>3. FailEpochs(srv[r]) \in Fields /\ FailEpochs(srv[r]).trig = srv[r].trig
  BY <1>1, FailEpochsKeeps
<1>4. Rest(co[r]) \in Coroutines /\ Rest(co[r]).pc = "idle"
  <2>1. NoSid \in Sids /\ {} \in SUBSET Cmd
    BY DEF Sids
  <2> QED
    BY <1>1, <2>1, RestAt
<1>5. SetsAgreed' /\ chan' \in [Replica -> [Replica -> Seq(Msg)]]
  BY <1>2, SetsKept DEF RInv, Types, setVars
<1> QED
  BY <1>2, <1>3, <1>4, <1>5, CoroutineMoves DEF setVars

(* FinishRecovery is broadcast once every recovered command is done.        *)
LEMMA ResubmittedTypes ==
  ASSUME RInv, NEW r \in Replica, Resubmitted(r)
  PROVE  RInv'
<1> DEFINE k == Finishing(co[r], co[r].propose)
<1>1. /\ srv[r] \in Fields /\ co[r] \in Coroutines
      /\ srv \in [Replica -> Fields] /\ co \in [Replica -> Coroutines]
      /\ co[r].propose \in Sids
  BY DEF RInv, Types, Coroutines, Coro
<1>2. /\ UNCHANGED <<baseVars, setVars, srv>>
      /\ chan' = Broadcast(r, <<FinishMsg(r)>>)
      /\ co' = [co EXCEPT ![r] = k]
  BY <1>1 DEF Resubmitted, Finishing
<1>3. k \in Coroutines /\ k.pc = "finish"
  <2>1. {} \in SUBSET Cmd
    OBVIOUS
  <2> QED
    BY <1>1, <2>1, RestAt
<1>4. FinishMsg(r) \in Msg /\ FinishMsg(r).type # "Record"
  BY <1>1 DEF FinishMsg, FinishMsgs, Msg, Fields, ServerRecord, Coroutines, Coro
<1>5. SetsAgreed' /\ chan' \in [Replica -> [Replica -> Seq(Msg)]]
  <2>1. <<FinishMsg(r)>> \in Seq(Msg) /\ Elems(<<FinishMsg(r)>>) = {FinishMsg(r)}
    BY <1>4, OneTwo
  <2> QED
    BY <1>2, <1>4, <2>1, BroadcastKeepsSets DEF setVars
<1>6. srv' = [srv EXCEPT ![r] = srv[r]]
  BY <1>1, <1>2
<1> HIDE DEF k
<1> QED
  BY <1>1, <1>2, <1>3, <1>5, <1>6, CoroutineMoves DEF setVars

(* The recovery is over.                                                    *)
LEMMA RecoveryDoneTypes ==
  ASSUME RInv, NEW r \in Replica, RecoveryDone(r)
  PROVE  RInv'
<1>1. /\ srv[r] \in Fields /\ co[r] \in Coroutines
      /\ srv \in [Replica -> Fields] /\ co \in [Replica -> Coroutines]
  BY DEF RInv, Types
<1>2. /\ UNCHANGED <<baseVars, setVars, srv, chan>>
      /\ co' = [co EXCEPT ![r] = Rest(co[r])]
  BY <1>1 DEF RecoveryDone
<1>3. Rest(co[r]) \in Coroutines /\ Rest(co[r]).pc = "idle"
  <2>1. NoSid \in Sids /\ {} \in SUBSET Cmd
    BY DEF Sids
  <2> QED
    BY <1>1, <2>1, RestAt
<1>4. SetsAgreed' /\ chan' \in [Replica -> [Replica -> Seq(Msg)]]
  BY <1>2, SetsKept DEF RInv, Types, setVars
<1>5. srv' = [srv EXCEPT ![r] = srv[r]]
  BY <1>1, <1>2
<1> QED
  BY <1>1, <1>2, <1>3, <1>4, <1>5, CoroutineMoves DEF setVars

(* Accept, or a Prepare that was not waited for in the first round, failed. *)
LEMMA Round2FailsTypes ==
  ASSUME RInv, NEW r \in Replica, Round2Fails(r)
  PROVE  RInv'
<1>1. /\ srv[r] \in Fields /\ co[r] \in Coroutines
      /\ srv \in [Replica -> Fields] /\ co \in [Replica -> Coroutines]
  BY DEF RInv, Types
<1>2. /\ UNCHANGED <<baseVars, recset, sidcnt, chan>>
      /\ co' = [co EXCEPT ![r] = Rest(co[r])]
  BY <1>1 DEF Round2Fails
<1>3. PICK Q \in SUBSET co[r].rec, A \in SUBSET co[r].accept, R \in SUBSET co[r].prep :
        srv' = [srv EXCEPT ![r] =
                  FailBallot(FailEpochs(srv[r]), {m \in A \cup R : ~m.ok})]
  BY <1>1 DEF Round2Fails
<1> DEFINE noes == {m \in A \cup R : ~m.ok}
           v == FailBallot(FailEpochs(srv[r]), noes)
<1>4. v \in Fields /\ v.trig = srv[r].trig
  <2>1. IsFiniteSet(A \cup R)
    <3>1. IsFiniteSet(co[r].accept) /\ IsFiniteSet(co[r].prep)
      BY <1>1 DEF Coroutines
    <3>2. IsFiniteSet(A) /\ IsFiniteSet(R)
      BY <3>1, FS_Subset
    <3> QED
      BY <3>2, FS_Union
  <2>2. IsFiniteSet(noes)
    BY <2>1, FS_Subset
  <2>3. \A m \in noes : m.seen \in Int
    BY <1>1 DEF Coroutines, Coro, PrepReply, AcceptReply
  <2>4. FailEpochs(srv[r]) \in Fields /\ FailEpochs(srv[r]).trig = srv[r].trig
    BY <1>1, FailEpochsKeeps
  <2> HIDE DEF noes
  <2> QED
    BY <2>2, <2>3, <2>4, FailBallotKeeps
<1>5. Rest(co[r]) \in Coroutines /\ Rest(co[r]).pc = "idle"
  <2>1. NoSid \in Sids /\ {} \in SUBSET Cmd
    BY DEF Sids
  <2> QED
    BY <1>1, <2>1, RestAt
<1>6. SetsAgreed' /\ chan' \in [Replica -> [Replica -> Seq(Msg)]]
  BY <1>2, SetsKept DEF RInv, Types
<1> HIDE DEF v
<1> QED
  BY <1>2, <1>3, <1>4, <1>5, <1>6, CoroutineMoves DEF v

--------------------------------------------------------------------------------
(* A set is recorded under a sid that d had not taken, or had recorded with *)
(* this set.                                                                *)
Recorded(d, sid, ids) ==
  /\ ids \in SUBSET Cmd
  /\ recset' = [recset EXCEPT ![d] = Put(recset[d], sid, ids)]
  /\ sidcnt' \in [Replica -> Nat]
  /\ \A q \in Replica : sidcnt'[q] >= sidcnt[q]
  /\ \A n \in Nat : sid = <<n, d>> /\ n < sidcnt[d] => recset[d][sid] = ids
  /\ \E q \in Replica, n \in Nat :
       sid = <<n, q>> /\ n < sidcnt'[q] /\ sid \in DOMAIN recset'[q] /\ recset'[q][sid] = ids
  /\ \A s, e \in Replica : \A m \in Elems(chan'[s][e]) :
       m.type = "Record" => m \in Elems(chan[s][e]) \/ (m.sid = sid /\ m.ids = ids)

(* Every sid keeps the set it stands for.                                   *)
LEMMA RecordKeeps ==
  ASSUME RInv, NEW d \in Replica, NEW sid, NEW ids, Recorded(d, sid, ids)
  PROVE  SetsOK' /\ SetsAgreed'
<1> USE DEF Recorded
<1>1. /\ sidcnt \in [Replica -> Nat] /\ DOMAIN recset = Replica
      /\ \A r \in Replica : \A x \in DOMAIN recset[r] : recset[r][x] \in SUBSET Cmd
  BY DEF RInv, Types, SetsOK
<1> DEFINE P == Put(recset[d], sid, ids)
<1>2. /\ DOMAIN P = DOMAIN recset[d] \cup {sid}
      /\ \A x \in DOMAIN P : P[x] = IF x = sid THEN ids ELSE recset[d][x]
  BY DEF Put
<1> HIDE DEF P
<1>3. DOMAIN recset' = Replica /\ \A r \in Replica : recset'[r] = IF r = d THEN P ELSE recset[r]
  BY <1>1 DEF P
<1>4. SetsOK'
  BY <1>1, <1>2, <1>3 DEF SetsOK
<1>a. Agreed(sid, ids)'
  BY DEF Agreed
<1>5. ASSUME NEW x, NEW X, Agreed(x, X) PROVE Agreed(x, X)'
  <2>1. PICK q \in Replica, n \in Nat :
          x = <<n, q>> /\ n < sidcnt[q] /\ x \in DOMAIN recset[q] /\ recset[q][x] = X
    BY <1>5 DEF Agreed
  <2>2. n < sidcnt'[q]
    BY <1>1, <2>1
  <2>3. x \in DOMAIN recset'[q] /\ recset'[q][x] = X
    <3>1. CASE q # d
      BY <1>3, <2>1, <3>1
    <3>2. CASE q = d /\ x # sid
      BY <1>2, <1>3, <2>1, <3>2
    <3>3. CASE q = d /\ x = sid
      BY <1>2, <1>3, <2>1, <3>3
    <3> QED
      BY <3>1, <3>2, <3>3
  <2> QED
    BY <2>1, <2>2, <2>3 DEF Agreed
<1>6. ASSUME NEW r \in Replica, NEW x \in DOMAIN recset'[r], NEW X, X = recset'[r][x]
      PROVE  Agreed(x, X)'
  <2>1. CASE r = d /\ x = sid
    BY <1>2, <1>3, <1>a, <1>6, <2>1
  <2>2. CASE ~(r = d /\ x = sid)
    <3>1. x \in DOMAIN recset[r] /\ X = recset[r][x]
      BY <1>2, <1>3, <1>6, <2>2
    <3> QED
      BY <3>1, <1>5 DEF RInv, SetsAgreed
  <2> QED
    BY <2>1, <2>2
<1>7. ASSUME NEW s \in Replica, NEW e \in Replica, NEW m \in Elems(chan'[s][e]),
             m.type = "Record"
      PROVE  Agreed(m.sid, m.ids)'
  <2>1. CASE m \in Elems(chan[s][e])
    BY <1>5, <1>7, <2>1 DEF RInv, SetsAgreed
  <2>2. CASE m.sid = sid /\ m.ids = ids
    BY <1>a, <2>2
  <2> QED
    BY <1>7, <2>1, <2>2
<1>8. \A r \in Replica : \A x \in DOMAIN recset'[r] : Agreed(x, recset[r][x])'
  BY <1>6 DEF Agreed
<1> QED
  BY <1>4, <1>7, <1>8 DEF SetsAgreed

(* The recovered commands, and the sid that Accept proposes.                *)
LEMMA ProposeTypes ==
  ASSUME NEW P, NEW R \in SUBSET PrepReply, NEW ids \in RecoveredKeyIds(P),
         NEW sid \in Sids, NEW p \in ProposeSids(R, sid)
  PROVE  ids \in SUBSET Cmd /\ p \in Sids
<1>1. ids \in SUBSET Cmd
  BY DEF RecoveredKeyIds, Leading
<1>2. p = sid \/ \E m \in R : p = m.sid
  BY DEF ProposeSids
<1> QED
  BY <1>1, <1>2 DEF PrepReply

(* At the second round's Wait; a Prepare that had not failed yet is kept.   *)
SecondRound(k, prep, sid, propose, ok) ==
  [Rest(k) EXCEPT !.pc = "round2", !.prep = prep,
                  !.sid = sid, !.propose = propose, !.prep_ok = ok]

(* The second round's coroutine is well formed.                             *)
LEMMA SecondRoundAt ==
  ASSUME NEW k \in Coroutines, NEW prep \in SUBSET k.prep, NEW sid \in Sids,
         NEW propose \in Sids, NEW ok \in BOOLEAN
  PROVE  /\ SecondRound(k, prep, sid, propose, ok) \in Coroutines
         /\ SecondRound(k, prep, sid, propose, ok).pc = "round2"
<1>1. k.run \in Nat /\ IsFiniteSet(k.prep) /\ k.prep \in SUBSET PrepReply
  BY DEF Coroutines, Coro
<1>2. IsFiniteSet(prep) /\ IsFiniteSet({}) /\ prep \in SUBSET PrepReply
  BY <1>1, FS_Subset, FS_EmptySet
<1>3. Idle \in Coro /\ Idle.accept = {}
  BY IdleOK
<1> DEFINE R == Rest(k)
           S == SecondRound(k, prep, sid, propose, ok)
<1>4. R \in Coro /\ R.accept = {}
  BY <1>1, <1>3 DEF Rest, Coro
<1> HIDE DEF R
<1>5. S = [R EXCEPT !.pc = "round2", !.prep = prep,
                    !.sid = sid, !.propose = propose, !.prep_ok = ok]
  BY DEF SecondRound, R
<1>6. S \in Coro /\ S.prep = prep /\ S.accept = {} /\ S.pc = "round2"
  BY <1>2, <1>4, <1>5 DEF Coro
<1> QED
  BY <1>2, <1>6 DEF Coroutines

(* The recovered set is recorded under a fresh sid.                         *)
LEMMA Round1ProposesTypes ==
  ASSUME RInv, NEW r \in Replica, Round1Proposes(r)
  PROVE  RInv'
<1> DEFINE s == srv[r]
           sid == NewSid(r)
<1>1. /\ srv[r] \in Fields /\ co[r] \in Coroutines
      /\ srv \in [Replica -> Fields] /\ co \in [Replica -> Coroutines]
      /\ sidcnt \in [Replica -> Nat] /\ elections \in 0 .. MaxElections
      /\ DOMAIN recset = Replica
  BY DEF RInv, Types, SetsOK, BaseOK
<1>2. PICK P \in SUBSET co[r].pull, R \in SUBSET co[r].prep :
        /\ Round1Replies(r, P, R)
        /\ \E ids \in RecoveredKeyIds(P) :
             /\ recset' = [recset EXCEPT ![r] = Put(recset[r], sid, ids)]
             /\ \E p \in IF Yes(R) THEN ProposeSids(R, sid) ELSE {sid} :
                  /\ srv' = IF Yes(R) THEN [srv EXCEPT ![r].ballot = @ + 1] ELSE srv
                  /\ chan' = Broadcast(r,
                       << [type |-> "Record", run |-> co[r].run, je |-> s.je, oe |-> s.oe,
                           sid |-> sid, ids |-> ids,
                           missing |-> {c \in ids : ~Held(r, c)}] >> \o
                       IF Yes(R)
                       THEN << [type |-> "Accept", run |-> co[r].run, je |-> s.je,
                                oe |-> s.oe, sid |-> p, bal |-> s.ballot + 1] >>
                       ELSE << >>)
                  /\ co' = [co EXCEPT ![r] =
                       SecondRound(co[r], IF Yes(R) THEN {} ELSE co[r].prep, sid, p, Yes(R))]
  BY <1>1 DEF Round1Proposes, SecondRound
<1>3. PICK ids \in RecoveredKeyIds(P) :
        /\ recset' = [recset EXCEPT ![r] = Put(recset[r], sid, ids)]
        /\ \E p \in IF Yes(R) THEN ProposeSids(R, sid) ELSE {sid} :
             /\ srv' = IF Yes(R) THEN [srv EXCEPT ![r].ballot = @ + 1] ELSE srv
             /\ chan' = Broadcast(r,
                  << [type |-> "Record", run |-> co[r].run, je |-> s.je, oe |-> s.oe,
                      sid |-> sid, ids |-> ids,
                      missing |-> {c \in ids : ~Held(r, c)}] >> \o
                  IF Yes(R)
                  THEN << [type |-> "Accept", run |-> co[r].run, je |-> s.je,
                           oe |-> s.oe, sid |-> p, bal |-> s.ballot + 1] >>
                  ELSE << >>)
             /\ co' = [co EXCEPT ![r] =
                  SecondRound(co[r], IF Yes(R) THEN {} ELSE co[r].prep, sid, p, Yes(R))]
  BY <1>2
<1> DEFINE record == [type |-> "Record", run |-> co[r].run, je |-> s.je, oe |-> s.oe,
                      sid |-> sid, ids |-> ids, missing |-> {c \in ids : ~Held(r, c)}]
<1>4. PICK p \in IF Yes(R) THEN ProposeSids(R, sid) ELSE {sid} :
        /\ srv' = IF Yes(R) THEN [srv EXCEPT ![r].ballot = @ + 1] ELSE srv
        /\ chan' = Broadcast(r, <<record>> \o
             IF Yes(R) THEN << [type |-> "Accept", run |-> co[r].run, je |-> s.je,
                                oe |-> s.oe, sid |-> p, bal |-> s.ballot + 1] >>
             ELSE << >>)
        /\ co' = [co EXCEPT ![r] =
             SecondRound(co[r], IF Yes(R) THEN {} ELSE co[r].prep, sid, p, Yes(R))]
  BY <1>3
<1> DEFINE accept == [type |-> "Accept", run |-> co[r].run, je |-> s.je,
                      oe |-> s.oe, sid |-> p, bal |-> s.ballot + 1]
           rest == IF Yes(R) THEN <<accept>> ELSE << >>
           k == SecondRound(co[r], IF Yes(R) THEN {} ELSE co[r].prep, sid, p, Yes(R))
<1>5. UNCHANGED baseVars /\ sidcnt' = [sidcnt EXCEPT ![r] = sidcnt[r] + 1]
  BY <1>1 DEF Round1Proposes
<1>6. sidcnt[r] + 1 + Due(s.trig) <= elections /\ co[r].pc = "round1"
  <2>1. co[r].pc = "round1"
    BY <1>2 DEF Round1Replies
  <2>2. Due(co[r].pc = "round1") = 1
    BY <2>1 DEF Due
  <2> QED
    BY <2>1, <2>2 DEF RInv, Types, SidsPaid
<1>7. sid = <<sidcnt[r], r>> /\ sid \in Sids
  <2>1. Due(s.trig) \in {0, 1}
    BY DEF Due
  <2>2. sidcnt[r] \in 0 .. MaxElections
    BY <1>1, <1>6, <2>1, RecoveryAssumption DEF RecoveryAssumption
  <2> QED
    BY <2>2 DEF Sids, NewSid
<1> HIDE DEF sid
<1>8. ids \in SUBSET Cmd /\ p \in Sids
  <2>1. R \in SUBSET PrepReply
    BY <1>1 DEF Coroutines, Coro
  <2>2. \A x \in ProposeSids(R, sid) : ids \in SUBSET Cmd /\ x \in Sids
    BY <1>7, <2>1, ProposeTypes
  <2>3. ids \in SUBSET Cmd
    BY DEF RecoveredKeyIds, Leading
  <2>4. CASE Yes(R)
    BY <1>4, <2>2, <2>3, <2>4
  <2>5. CASE ~Yes(R)
    BY <1>4, <1>7, <2>3, <2>5
  <2> QED
    BY <2>4, <2>5
<1>9. Yes(R) \in BOOLEAN
  BY DEF Yes
<1>10. k \in Coroutines /\ k.pc = "round2"
  <2>1. (IF Yes(R) THEN {} ELSE co[r].prep) \in SUBSET co[r].prep
    OBVIOUS
  <2> QED
    BY <1>1, <1>7, <1>8, <1>9, <2>1, SecondRoundAt
<1>11. srv' \in [Replica -> Fields] /\ \A q \in Replica : srv'[q].trig = srv[q].trig
  <2>1. [s EXCEPT !.ballot = @ + 1] \in Fields /\ [s EXCEPT !.ballot = @ + 1].trig = s.trig
    BY <1>1 DEF Fields, ServerRecord
  <2>2. srv' = srv \/ srv' = [srv EXCEPT ![r] = [s EXCEPT !.ballot = @ + 1]]
    BY <1>1, <1>4
  <2> QED
    BY <1>1, <2>1, <2>2
<1>12. /\ record \in Msg /\ record.sid = sid /\ record.ids = ids
       /\ accept \in Msg /\ accept.type = "Accept"
  <2>1. /\ s.je \in Epoch /\ s.oe \in Epoch /\ s.ballot + 1 \in Int
        /\ co[r].run \in Nat
    BY <1>1 DEF Fields, ServerRecord, Coroutines, Coro
  <2>2. record \in RecordMsg /\ record.sid = sid /\ record.ids = ids
    BY <1>7, <1>8, <2>1 DEF RecordMsg
  <2>3. accept \in AcceptMsg /\ accept.type = "Accept"
    BY <1>8, <2>1 DEF AcceptMsg
  <2> QED
    BY <2>2, <2>3 DEF Msg
<1> HIDE DEF record, accept, k
<1>13. /\ chan' \in [Replica -> [Replica -> Seq(Msg)]]
       /\ \A a, d \in Replica : \A m \in Elems(chan'[a][d]) :
            m.type = "Record" => m \in Elems(chan[a][d]) \/ (m.sid = sid /\ m.ids = ids)
  <2>1. /\ <<record>> \in Seq(Msg) /\ Elems(<<record>>) = {record}
        /\ <<accept>> \in Seq(Msg) /\ Elems(<<accept>>) = {accept}
        /\ << >> \in Seq(Msg) /\ Elems(<< >>) = {}
    BY <1>12, OneTwo DEF Elems
  <2>2. rest \in Seq(Msg) /\ Elems(rest) \subseteq {accept}
    BY <2>1
  <2> DEFINE first == <<record>>
  <2> HIDE DEF rest, first
  <2>3. first \o rest \in Seq(Msg) /\ Elems(first \o rest) \subseteq {record, accept}
    <3>1. first \in Seq(Msg) /\ Elems(first) = {record}
      BY <2>1 DEF first
    <3> QED
      BY <2>2, <3>1, ElemsConcat
  <2>4. chan' = Broadcast(r, first \o rest)
    BY <1>4 DEF record, accept, rest, first
  <2>5. chan \in [Replica -> [Replica -> Seq(Msg)]]
    BY DEF RInv, Types
  <2>6. /\ chan' \in [Replica -> [Replica -> Seq(Msg)]]
        /\ \A a, d \in Replica :
             Elems(chan'[a][d]) \subseteq Elems(chan[a][d]) \cup {record, accept}
    BY <2>3, <2>4, <2>5, BroadcastSends
  <2> QED
    BY <1>12, <2>6
<1>14. co' \in [Replica -> Coroutines] /\ \A q \in Replica : q # r => co'[q] = co[q]
  BY <1>1, <1>4, <1>10 DEF k
<1>15. sidcnt' \in [Replica -> Nat] /\ \A q \in Replica : sidcnt'[q] >= sidcnt[q]
  BY <1>1, <1>5
<1>16. SetsOK' /\ SetsAgreed'
  <2>1. PICK x : x = sid
    OBVIOUS
  <2>2. recset' = [recset EXCEPT ![r] = Put(recset[r], x, ids)]
    BY <1>3, <2>1
  <2>3. \E q \in Replica, n \in Nat :
          x = <<n, q>> /\ n < sidcnt'[q] /\ x \in DOMAIN recset'[q] /\ recset'[q][x] = ids
    <3>1. /\ sidcnt[r] \in Nat /\ sidcnt[r] < sidcnt'[r]
      BY <1>1, <1>5
    <3>2. x \in DOMAIN recset'[r] /\ recset'[r][x] = ids
      <4>1. recset'[r] = Put(recset[r], x, ids)
        BY <1>1, <2>2
      <4> QED
        BY <4>1 DEF Put
    <3> QED
      BY <1>7, <2>1, <3>1, <3>2
  <2>4. \A n \in Nat : x = <<n, r>> /\ n < sidcnt[r] => recset[r][x] = ids
    BY <1>1, <1>7, <2>1
  <2>5. \A a, d \in Replica : \A m \in Elems(chan'[a][d]) :
          m.type = "Record" => m \in Elems(chan[a][d]) \/ (m.sid = x /\ m.ids = ids)
    BY <1>13, <2>1
  <2>6. Recorded(r, x, ids)
    BY <1>8, <1>15, <2>2, <2>3, <2>4, <2>5 DEF Recorded
  <2> QED
    BY <2>6, RecordKeeps
<1>17. SidsPaid'
  <2> SUFFICES ASSUME NEW q \in Replica
               PROVE  sidcnt'[q] + Due(co'[q].pc = "round1") + Due(srv'[q].trig) <= elections
    BY <1>5 DEF SidsPaid, baseVars
  <2>1. CASE q # r
    <3>1. sidcnt[q] + Due(co[q].pc = "round1") + Due(srv[q].trig) <= elections
      BY DEF RInv, Types, SidsPaid
    <3> QED
      BY <1>1, <1>5, <1>11, <1>14, <2>1, <3>1
  <2>2. CASE q = r
    <3>1. co'[r].pc = "round2" /\ sidcnt'[r] = sidcnt[r] + 1 /\ srv'[r].trig = s.trig
      BY <1>1, <1>4, <1>5, <1>10, <1>11 DEF k
    <3>2. Due(co'[r].pc = "round1") = 0 /\ Due(srv'[r].trig) = Due(s.trig)
      BY <3>1 DEF Due
    <3>3. Due(s.trig) \in {0, 1}
      BY DEF Due
    <3> QED
      BY <1>1, <1>6, <2>2, <3>1, <3>2, <3>3
  <2> QED
    BY <2>1, <2>2
<1> QED
  BY <1>5, <1>11, <1>13, <1>14, <1>16, <1>17 DEF RInv, Types, BaseOK, baseVars

(* The commands to resubmit have an order.                                  *)
LEMMA OrderExists ==
  ASSUME NEW todo \in SUBSET Cmd
  PROVE  /\ Cardinality(todo) \in Nat
         /\ \E f \in [1 .. Cardinality(todo) -> todo] :
              \A c \in todo : \E i \in DOMAIN f : f[i] = c
<1>1. IsFiniteSet(todo)
  BY FS_Subset, RecoveryAssumption DEF RecoveryAssumption
<1>2. Cardinality(todo) \in Nat /\ ExistsBijection(1 .. Cardinality(todo), todo)
  BY <1>1, FS_CardinalityType
<1>3. PICK f : f \in Bijection(1 .. Cardinality(todo), todo)
  BY <1>2 DEF ExistsBijection
<1> QED
  BY <1>2, <1>3 DEF Bijection, Injection, Surjection

(* Accept succeeded: Commit and the recovered commands, or FinishRecovery.  *)
LEMMA Round2CommitsTypes ==
  ASSUME RInv, NEW r \in Replica, Round2Commits(r)
  PROVE  RInv'
<1> DEFINE ask(c) == [type |-> "Dispatch", run |-> co[r].run, cmd |-> c]
           commit == [type |-> "Commit", run |-> co[r].run, je |-> srv[r].je,
                      oe |-> srv[r].oe, sid |-> co[r].propose]
           Order(todo) == CHOOSE f \in [1 .. Cardinality(todo) -> todo] :
                            \A c \in todo : \E i \in DOMAIN f : f[i] = c
<1>1. /\ srv[r] \in Fields /\ co[r] \in Coroutines
      /\ srv \in [Replica -> Fields] /\ co \in [Replica -> Coroutines]
      /\ chan \in [Replica -> [Replica -> Seq(Msg)]]
      /\ co[r].run \in Nat /\ co[r].propose \in Sids
  BY DEF RInv, Types, Coroutines, Coro
<1>2. UNCHANGED <<baseVars, recset, sidcnt, srv>>
  BY DEF Round2Commits
<1>3. PICK Q \in SUBSET co[r].rec :
        LET todo == Resubmittable(r, co[r].propose, Missed(r, Q))
        IN  \/ /\ chan' = [Broadcast(r, <<commit>>) EXCEPT ![r][Home] =
                            @ \o [i \in DOMAIN Order(todo) |-> ask(Order(todo)[i])]]
               /\ co' = [co EXCEPT ![r] = Resubmitting(co[r], co[r].propose, todo)]
            \/ /\ chan' = Broadcast(r, <<commit, FinishMsg(r)>>)
               /\ co' = [co EXCEPT ![r] = Finishing(co[r], co[r].propose)]
  BY <1>1 DEF Round2Commits, Resubmitting, Finishing
<1> DEFINE todo == Resubmittable(r, co[r].propose, Missed(r, Q))
           order == Order(todo)
<1>4. todo \in SUBSET Cmd
  BY DEF Resubmittable, RInv, Types, SetsOK
<1> HIDE DEF todo
<1>5. Cardinality(todo) \in Nat /\ order \in [1 .. Cardinality(todo) -> todo]
  BY <1>4, OrderExists
<1>6. /\ commit \in Msg /\ commit.type # "Record"
      /\ FinishMsg(r) \in Msg /\ FinishMsg(r).type # "Record"
      /\ \A c \in Cmd : ask(c) \in Msg /\ ask(c).type # "Record"
  <2>1. srv[r].je \in Epoch /\ srv[r].oe \in Epoch
    BY <1>1 DEF Fields, ServerRecord
  <2>2. commit \in CommitMsg /\ FinishMsg(r) \in FinishMsgs
    BY <1>1, <2>1 DEF CommitMsg, FinishMsgs, FinishMsg
  <2>3. \A c \in Cmd : ask(c) \in DispatchMsg
    BY <1>1 DEF DispatchMsg
  <2>4. commit.type # "Record" /\ FinishMsg(r).type # "Record"
    BY DEF FinishMsg
  <2> QED
    BY <2>2, <2>3, <2>4 DEF Msg
<1> HIDE DEF order, ask, commit
<1>7. srv' = [srv EXCEPT ![r] = srv[r]]
  BY <1>1, <1>2
<1>8. /\ Resubmitting(co[r], co[r].propose, todo) \in Coroutines
      /\ Resubmitting(co[r], co[r].propose, todo).pc = "resubmit"
      /\ Finishing(co[r], co[r].propose) \in Coroutines
      /\ Finishing(co[r], co[r].propose).pc = "finish"
  BY <1>1, <1>4, RestAt
<1>9. CASE /\ chan' = Broadcast(r, <<commit, FinishMsg(r)>>)
           /\ co' = [co EXCEPT ![r] = Finishing(co[r], co[r].propose)]
  <2>1. /\ <<commit, FinishMsg(r)>> \in Seq(Msg)
        /\ Elems(<<commit, FinishMsg(r)>>) = {commit, FinishMsg(r)}
    BY <1>6, OneTwo
  <2>2. SetsAgreed' /\ chan' \in [Replica -> [Replica -> Seq(Msg)]]
    BY <1>2, <1>6, <1>9, <2>1, BroadcastKeepsSets
  <2> QED
    BY <1>1, <1>2, <1>7, <1>8, <1>9, <2>2, CoroutineMoves
<1>10. CASE /\ chan' = [Broadcast(r, <<commit>>) EXCEPT ![r][Home] =
                         @ \o [i \in DOMAIN order |-> ask(order[i])]]
            /\ co' = [co EXCEPT ![r] = Resubmitting(co[r], co[r].propose, todo)]
  <2> DEFINE asks == [i \in DOMAIN order |-> ask(order[i])]
             B == Broadcast(r, <<commit>>)
  <2>1. asks \in Seq(Msg) /\ \A m \in Elems(asks) : m.type # "Record"
    <3>1. DOMAIN order = 1 .. Cardinality(todo) /\ \A i \in DOMAIN order : order[i] \in Cmd
      BY <1>4, <1>5
    <3>2. \A i \in 1 .. Cardinality(todo) : ask(order[i]) \in Msg /\ ask(order[i]).type # "Record"
      BY <1>6, <3>1
    <3>3. asks \in Seq(Msg)
      BY <1>5, <3>1, <3>2
    <3>4. \A i \in DOMAIN asks : asks[i].type # "Record"
      BY <3>1, <3>2
    <3> QED
      BY <3>3, <3>4 DEF Elems
  <2>2. <<commit>> \in Seq(Msg) /\ Elems(<<commit>>) = {commit}
    BY <1>6, OneTwo
  <2>3. /\ B \in [Replica -> [Replica -> Seq(Msg)]]
        /\ \A s, d \in Replica : Elems(B[s][d]) \subseteq Elems(chan[s][d]) \cup {commit}
    BY <1>1, <2>2, BroadcastSends
  <2> HIDE DEF asks, B
  <2>4. Home \in Replica
    BY RecoveryAssumption DEF RecoveryAssumption
  <2>5. /\ B[r][Home] \o asks \in Seq(Msg)
        /\ Elems(B[r][Home] \o asks) = Elems(B[r][Home]) \cup Elems(asks)
    BY <2>1, <2>3, <2>4, ElemsConcat
  <2>6. chan' = [B EXCEPT ![r][Home] = B[r][Home] \o asks]
    BY <1>10, <2>3, <2>4 DEF B, asks
  <2>7. /\ chan' \in [Replica -> [Replica -> Seq(Msg)]]
        /\ \A s, d \in Replica :
             chan'[s][d] = IF s = r /\ d = Home THEN B[r][Home] \o asks ELSE B[s][d]
    BY <2>3, <2>4, <2>5, <2>6
  <2>8. \A s, d \in Replica : \A m \in Elems(chan'[s][d]) :
          m.type = "Record" => m \in Elems(chan[s][d])
    <3> SUFFICES ASSUME NEW s \in Replica, NEW d \in Replica, NEW m \in Elems(chan'[s][d]),
                        m.type = "Record"
                 PROVE  m \in Elems(chan[s][d])
      OBVIOUS
    <3>1. Elems(chan'[s][d]) \subseteq Elems(B[s][d]) \cup Elems(asks)
      BY <2>5, <2>7
    <3>2. m \in Elems(B[s][d])
      BY <2>1, <3>1
    <3> QED
      BY <1>6, <2>3, <3>2
  <2>9. SetsAgreed'
    BY <1>2, <2>8, SetsKept DEF RInv
  <2> QED
    <3> DEFINE k == Resubmitting(co[r], co[r].propose, todo)
    <3>1. k \in Coroutines /\ k.pc # "round1" /\ co' = [co EXCEPT ![r] = k]
      BY <1>8, <1>10
    <3> HIDE DEF k
    <3> QED
      BY <1>1, <1>2, <1>7, <2>7, <2>9, <3>1, CoroutineMoves
<1> QED
  BY <1>3, <1>9, <1>10 DEF todo, order, commit, ask

--------------------------------------------------------------------------------
(* The replies each event of a coroutine takes.                             *)
ReplyOf(field) ==
  CASE field = "pull" -> [from: Replica, ok: BOOLEAN, ids: SUBSET Cmd]
    [] field = "prep" -> PrepReply
    [] field = "rec" -> [from: Replica, ok: BOOLEAN, cmds: SUBSET Cmd]
    [] field = "accept" -> AcceptReply
    [] field = "ack" -> Replica

(* A reply that is added to an event.                                       *)
LEMMA EventTakes ==
  ASSUME NEW k \in Coroutines, NEW field \in {"pull", "prep", "rec", "accept", "ack"},
         NEW rep \in ReplyOf(field)
  PROVE  /\ [k EXCEPT ![field] = @ \cup {rep}] \in Coroutines
         /\ [k EXCEPT ![field] = @ \cup {rep}].pc = k.pc
<1>1. k \in Coro /\ IsFiniteSet(k.prep) /\ IsFiniteSet(k.accept)
  BY DEF Coroutines
<1>2. IsFiniteSet(k.prep \cup {rep}) /\ IsFiniteSet(k.accept \cup {rep})
  BY <1>1, FS_AddElement
<1>3. CASE field = "pull"
  <2> DEFINE j == [k EXCEPT !.pull = @ \cup {rep}]
  <2>1. j \in Coro /\ j.prep = k.prep /\ j.accept = k.accept /\ j.pc = k.pc
    BY <1>1, <1>3 DEF Coro, ReplyOf
  <2> QED
    BY <1>1, <1>3, <2>1 DEF Coroutines
<1>4. CASE field = "prep"
  <2> DEFINE j == [k EXCEPT !.prep = @ \cup {rep}]
  <2>1. j \in Coro /\ j.prep = k.prep \cup {rep} /\ j.accept = k.accept /\ j.pc = k.pc
    BY <1>1, <1>4 DEF Coro, ReplyOf
  <2> QED
    BY <1>1, <1>2, <1>4, <2>1 DEF Coroutines
<1>5. CASE field = "rec"
  <2> DEFINE j == [k EXCEPT !.rec = @ \cup {rep}]
  <2>1. j \in Coro /\ j.prep = k.prep /\ j.accept = k.accept /\ j.pc = k.pc
    BY <1>1, <1>5 DEF Coro, ReplyOf
  <2> QED
    BY <1>1, <1>5, <2>1 DEF Coroutines
<1>6. CASE field = "accept"
  <2> DEFINE j == [k EXCEPT !.accept = @ \cup {rep}]
  <2>1. j \in Coro /\ j.prep = k.prep /\ j.accept = k.accept \cup {rep} /\ j.pc = k.pc
    BY <1>1, <1>6 DEF Coro, ReplyOf
  <2> QED
    BY <1>1, <1>2, <1>6, <2>1 DEF Coroutines
<1>7. CASE field = "ack"
  <2> DEFINE j == [k EXCEPT !.ack = @ \cup {rep}]
  <2>1. j \in Coro /\ j.prep = k.prep /\ j.accept = k.accept /\ j.pc = k.pc
    BY <1>1, <1>7 DEF Coro, ReplyOf
  <2> QED
    BY <1>1, <1>7, <2>1 DEF Coroutines
<1> QED
  BY <1>3, <1>4, <1>5, <1>6, <1>7

CoroutinesWait(k) ==
  k \in [Replica -> Coroutines] /\ \A q \in Replica : k[q].pc = co[q].pc

(* A reply moves no coroutine: it is read at the next step of its reader.   *)
LEMMA ReplyKeeps ==
  ASSUME co \in [Replica -> Coroutines], NEW s \in Replica, NEW m
  PROVE  \A field \in {"pull", "prep", "rec", "accept", "ack"} : \A rep \in ReplyOf(field) :
           CoroutinesWait(Reply(s, m, field, rep))
<1> SUFFICES ASSUME NEW field \in {"pull", "prep", "rec", "accept", "ack"},
                    NEW rep \in ReplyOf(field)
             PROVE  CoroutinesWait(Reply(s, m, field, rep))
  OBVIOUS
<1> DEFINE k == co[s]
           j == [k EXCEPT ![field] = @ \cup {rep}]
<1>1. j \in Coroutines /\ j.pc = k.pc
  BY EventTakes
<1>2. Reply(s, m, field, rep) = co \/ Reply(s, m, field, rep) = [co EXCEPT ![s] = j]
  BY DEF Reply
<1> HIDE DEF j
<1> QED
  BY <1>1, <1>2 DEF CoroutinesWait

(* A request's type tells its fields.                                       *)
LEMMA MsgKinds ==
  ASSUME NEW m \in Msg
  PROVE  /\ m.type = "Pull" => m \in PullMsg
         /\ m.type = "Prepare" => m \in PrepareMsg
         /\ m.type = "Record" => m \in RecordMsg
         /\ m.type = "Accept" => m \in AcceptMsg
         /\ m.type = "Commit" => m \in CommitMsg
         /\ m.type = "Finish" => m \in FinishMsgs
         /\ m.type = "Dispatch" => m \in DispatchMsg
<1>1. /\ m \in PullMsg => m.type = "Pull"
      /\ m \in PrepareMsg => m.type = "Prepare"
      /\ m \in RecordMsg => m.type = "Record"
      /\ m \in AcceptMsg => m.type = "Accept"
      /\ m \in CommitMsg => m.type = "Commit"
      /\ m \in FinishMsgs => m.type = "Finish"
      /\ m \in DispatchMsg => m.type = "Dispatch"
  BY DEF PullMsg, PrepareMsg, RecordMsg, AcceptMsg, CommitMsg, FinishMsgs, DispatchMsg
<1> QED
  BY <1>1 DEF Msg

(* A request is taken from its connection.                                  *)
LEMMA TakeRequest ==
  ASSUME chan \in [Replica -> [Replica -> Seq(Msg)]], NEW s \in Replica, NEW d \in Replica,
         chan[s][d] # << >>, chan' = [chan EXCEPT ![s][d] = Tail(@)]
  PROVE  /\ chan' \in [Replica -> [Replica -> Seq(Msg)]]
         /\ \A a, b \in Replica : Elems(chan'[a][b]) \subseteq Elems(chan[a][b])
         /\ Head(chan[s][d]) \in Msg /\ Head(chan[s][d]) \in Elems(chan[s][d])
<1>1. chan[s][d] \in Seq(Msg)
  OBVIOUS
<1>2. /\ Tail(chan[s][d]) \in Seq(Msg) /\ Elems(Tail(chan[s][d])) \subseteq Elems(chan[s][d])
      /\ Head(chan[s][d]) \in Msg /\ Head(chan[s][d]) \in Elems(chan[s][d])
  BY <1>1, ElemsTail
<1>3. /\ chan' \in [Replica -> [Replica -> Seq(Msg)]]
      /\ \A a, b \in Replica :
           chan'[a][b] = IF a = s /\ b = d THEN Tail(chan[s][d]) ELSE chan[a][b]
  BY <1>2
<1> QED
  BY <1>2, <1>3

(* What every handler leaves: a well-formed replica and event, no new       *)
(* leader, and the recovery where it was.                                   *)
Handled ==
  /\ srv' \in [Replica -> Fields]
  /\ \A q \in Replica : srv'[q].trig = srv[q].trig
  /\ CoroutinesWait(co')
  /\ isl' \subseteq isl
  /\ pend' \in Seq(Entry)

(* A handler's effect on its replica's fields.                              *)
LEMMA FieldsPut ==
  ASSUME srv \in [Replica -> Fields], NEW d \in Replica, NEW v \in Fields,
         v.trig = srv[d].trig, srv' = [srv EXCEPT ![d] = v]
  PROVE  srv' \in [Replica -> Fields] /\ \A q \in Replica : srv'[q].trig = srv[q].trig
OBVIOUS

(* OnJetpackPullRecovery.                                                   *)
LEMMA PullHandled ==
  ASSUME Types, NEW s \in Replica, NEW d \in Replica, NEW m \in PullMsg, OnPull(s, d, m)
  PROVE  Handled /\ UNCHANGED recset
<1> DEFINE v == OnJetpackBeginRecovery(srv[d], m)
           rep == [from |-> d, ok |-> m.je >= v.je,
                   ids |-> IF m.je >= v.je THEN ToRecover(v.pool) ELSE {}]
<1>1. srv \in [Replica -> Fields] /\ srv[d] \in Fields /\ co \in [Replica -> Coroutines]
      /\ pend \in Seq(Entry)
  BY DEF Types, BaseOK
<1>2. m.oe \in Epoch /\ m.view \in Replica
  BY DEF PullMsg
<1>3. v \in Fields /\ v.trig = srv[d].trig
  BY <1>1, <1>2, BeginKeeps
<1>4. /\ srv' = [srv EXCEPT ![d] = v] /\ co' = Reply(s, m, "pull", rep)
      /\ isl' \subseteq isl /\ UNCHANGED <<recset, pend>>
  BY DEF OnPull
<1> HIDE DEF v
<1>5. rep \in ReplyOf("pull")
  <2>1. ToRecover(v.pool) \in SUBSET Cmd
    BY <1>3, ToRecoverCmds
  <2>2. (m.je >= v.je) \in BOOLEAN
    OBVIOUS
  <2> QED
    BY <2>1, <2>2 DEF ReplyOf
<1> HIDE DEF rep
<1>6. CoroutinesWait(co')
  BY <1>1, <1>4, <1>5, ReplyKeeps
<1>7. srv' \in [Replica -> Fields] /\ \A q \in Replica : srv'[q].trig = srv[q].trig
  BY <1>1, <1>3, <1>4, FieldsPut
<1> QED
  BY <1>1, <1>4, <1>6, <1>7 DEF Handled

(* OnJetpackPrepare.                                                        *)
LEMMA PrepareHandled ==
  ASSUME Types, NEW s \in Replica, NEW d \in Replica, NEW m \in PrepareMsg, OnPrepare(s, d, m)
  PROVE  Handled /\ UNCHANGED recset
<1> DEFINE v == SeeBallot(srv[d], m)
           ok == BallotOk(srv[d], m)
           rep == [from |-> d, ok |-> ok, seen |-> v.ballot,
                   abal |-> IF ok THEN v.abal ELSE -1, sid |-> IF ok THEN v.sid ELSE NoSid]
<1>1. srv \in [Replica -> Fields] /\ srv[d] \in Fields /\ co \in [Replica -> Coroutines]
      /\ pend \in Seq(Entry)
  BY DEF Types, BaseOK
<1>2. v \in Fields /\ v.trig = srv[d].trig
  BY <1>1, SeeBallotKeeps DEF PrepareMsg
<1>3. /\ srv' = [srv EXCEPT ![d] = v] /\ co' = Reply(s, m, "prep", rep)
      /\ UNCHANGED <<isl, recset, pend>>
  BY DEF OnPrepare
<1>4. ok \in BOOLEAN
  BY DEF BallotOk, EpochOk
<1> HIDE DEF v, ok
<1>5. rep \in ReplyOf("prep")
  <2>1. v.ballot \in Int /\ (IF ok THEN v.abal ELSE -1) \in Int
        /\ (IF ok THEN v.sid ELSE NoSid) \in Sids
    BY <1>2 DEF Fields, ServerRecord, Sids
  <2> QED
    BY <1>4, <2>1 DEF ReplyOf, PrepReply
<1> HIDE DEF rep
<1>6. CoroutinesWait(co')
  BY <1>1, <1>3, <1>5, ReplyKeeps
<1>7. srv' \in [Replica -> Fields] /\ \A q \in Replica : srv'[q].trig = srv[q].trig
  BY <1>1, <1>2, <1>3, FieldsPut
<1> QED
  BY <1>1, <1>3, <1>6, <1>7 DEF Handled

(* OnJetpackRecordCmd.                                                      *)
LEMMA RecordHandled ==
  ASSUME Types, NEW s \in Replica, NEW d \in Replica, NEW m \in RecordMsg, OnRecord(s, d, m)
  PROVE  /\ Handled
         /\ \/ UNCHANGED recset
            \/ recset' = [recset EXCEPT ![d] = Put(recset[d], m.sid, m.ids)]
<1> DEFINE cmds == IF EpochOk(srv[d], m) THEN {c \in m.missing : Held(d, c)} ELSE {}
           rep == [from |-> d, ok |-> TRUE, cmds |-> cmds]
<1>1. /\ srv \in [Replica -> Fields] /\ co \in [Replica -> Coroutines]
      /\ pend \in Seq(Entry) /\ DOMAIN recset = Replica
  BY DEF Types, BaseOK, SetsOK
<1>2. /\ co' = Reply(s, m, "rec", rep) /\ UNCHANGED <<srv, isl, pend>>
      /\ \/ UNCHANGED recset
         \/ recset' = [recset EXCEPT ![d] = Put(recset[d], m.sid, m.ids)]
  BY <1>1 DEF OnRecord
<1>3. cmds \in SUBSET Cmd
  BY DEF RecordMsg
<1> HIDE DEF cmds
<1>4. rep \in ReplyOf("rec")
  BY <1>3 DEF ReplyOf
<1> HIDE DEF rep
<1>5. CoroutinesWait(co')
  BY <1>1, <1>2, <1>4, ReplyKeeps
<1> QED
  BY <1>1, <1>2, <1>5 DEF Handled

(* OnJetpackAccept.                                                         *)
LEMMA AcceptHandled ==
  ASSUME Types, NEW s \in Replica, NEW d \in Replica, NEW m \in AcceptMsg, OnAccept(s, d, m)
  PROVE  Handled /\ UNCHANGED recset
<1> DEFINE v == OnJetpackAccept(srv[d], m)
           ok == BallotOk(srv[d], m)
           rep == [from |-> d, ok |-> ok, seen |-> v.ballot]
<1>1. srv \in [Replica -> Fields] /\ srv[d] \in Fields /\ co \in [Replica -> Coroutines]
      /\ pend \in Seq(Entry)
  BY DEF Types, BaseOK
<1>2. m.bal \in Int /\ m.sid \in Sids
  BY DEF AcceptMsg
<1>3. v \in Fields /\ v.trig = srv[d].trig
  BY <1>1, <1>2, AcceptKeeps
<1>4. /\ srv' = [srv EXCEPT ![d] = v] /\ co' = Reply(s, m, "accept", rep)
      /\ UNCHANGED <<isl, recset, pend>>
  BY DEF OnAccept
<1>5. ok \in BOOLEAN
  BY DEF BallotOk, EpochOk
<1> HIDE DEF v, ok
<1>6. rep \in ReplyOf("accept")
  BY <1>3, <1>5 DEF ReplyOf, AcceptReply, Fields, ServerRecord
<1> HIDE DEF rep
<1>7. CoroutinesWait(co')
  BY <1>1, <1>4, <1>6, ReplyKeeps
<1>8. srv' \in [Replica -> Fields] /\ \A q \in Replica : srv'[q].trig = srv[q].trig
  BY <1>1, <1>3, <1>4, FieldsPut
<1> QED
  BY <1>1, <1>4, <1>7, <1>8 DEF Handled

(* OnJetpackCommit.                                                         *)
LEMMA CommitHandled ==
  ASSUME Types, NEW s \in Replica, NEW d \in Replica, NEW m \in CommitMsg, OnCommit(s, d, m)
  PROVE  Handled /\ UNCHANGED recset
<1> DEFINE v == OnJetpackCommit(srv[d], m)
<1>1. srv \in [Replica -> Fields] /\ srv[d] \in Fields /\ co \in [Replica -> Coroutines]
      /\ pend \in Seq(Entry)
  BY DEF Types, BaseOK
<1>2. v \in Fields /\ v.trig = srv[d].trig
  BY <1>1, CommitKeeps DEF CommitMsg
<1>3. srv' = [srv EXCEPT ![d] = v] /\ UNCHANGED <<co, isl, recset, pend>>
  BY <1>1 DEF OnCommit
<1> HIDE DEF v
<1>4. srv' \in [Replica -> Fields] /\ \A q \in Replica : srv'[q].trig = srv[q].trig
  BY <1>1, <1>2, <1>3, FieldsPut
<1> QED
  BY <1>1, <1>3, <1>4 DEF Handled, CoroutinesWait

(* OnJetpackFinishRecovery.                                                 *)
LEMMA FinishHandled ==
  ASSUME Types, NEW s \in Replica, NEW d \in Replica, NEW m \in FinishMsgs, OnFinish(s, d, m)
  PROVE  Handled /\ UNCHANGED recset
<1> DEFINE v == OnJetpackFinishRecovery(srv[d], m)
<1>1. srv \in [Replica -> Fields] /\ srv[d] \in Fields /\ co \in [Replica -> Coroutines]
      /\ pend \in Seq(Entry)
  BY DEF Types, BaseOK
<1>2. v \in Fields /\ v.trig = srv[d].trig
  BY <1>1, FinishKeeps DEF FinishMsgs
<1>3. /\ srv' = [srv EXCEPT ![d] = v] /\ co' = Reply(s, m, "ack", d)
      /\ UNCHANGED <<isl, recset, pend>>
  BY <1>1 DEF OnFinish
<1> HIDE DEF v
<1>4. d \in ReplyOf("ack")
  BY DEF ReplyOf
<1>5. CoroutinesWait(co')
  BY <1>1, <1>3, <1>4, ReplyKeeps
<1>6. srv' \in [Replica -> Fields] /\ \A q \in Replica : srv'[q].trig = srv[q].trig
  BY <1>1, <1>2, <1>3, FieldsPut
<1> QED
  BY <1>1, <1>3, <1>5, <1>6 DEF Handled

(* Submit of a recovered command.                                           *)
LEMMA DispatchHandled ==
  ASSUME Types, NEW s \in Replica, NEW d \in Replica, NEW m \in DispatchMsg,
         OnDispatch(s, d, m)
  PROVE  Handled /\ UNCHANGED recset
<1>1. srv \in [Replica -> Fields] /\ co[s] \in Coroutines /\ co \in [Replica -> Coroutines]
      /\ pend \in Seq(Entry)
  BY DEF Types, BaseOK
<1> DEFINE e == [cmd |-> m.cmd, from |-> s, run |-> m.run]
           j == [co[s] EXCEPT !.todo = @ \ {m.cmd}]
<1>2. /\ UNCHANGED <<srv, isl, recset>>
      /\ pend' = pend \/ pend' = Append(pend, e)
      /\ co' = co \/ co' = [co EXCEPT ![s] = j]
  BY <1>1 DEF OnDispatch
<1>3. e \in Entry
  BY DEF DispatchMsg, Entry
<1>4. j \in Coroutines /\ j.pc = co[s].pc
  BY <1>1, TodoPut
<1> HIDE DEF e, j
<1>5. CoroutinesWait(co')
  BY <1>1, <1>2, <1>4 DEF CoroutinesWait
<1>6. pend' \in Seq(Entry)
  BY <1>1, <1>2, <1>3
<1> QED
  BY <1>1, <1>2, <1>5, <1>6 DEF Handled

(* A request is delivered and handled.                                      *)
LEMMA DeliverTypes ==
  ASSUME RInv, NEW s \in Replica, NEW d \in Replica, Deliver(s, d)
  PROVE  RInv'
<1>1. PICK m : m = Head(chan[s][d])
  OBVIOUS
<1>2. /\ chan \in [Replica -> [Replica -> Seq(Msg)]] /\ chan[s][d] # << >>
      /\ chan' = [chan EXCEPT ![s][d] = Tail(@)]
      /\ UNCHANGED <<up, leader, log, exec, elections, sidcnt>> /\ Types /\ SetsAgreed
  BY DEF Deliver, RInv, Types
<1>3. /\ chan' \in [Replica -> [Replica -> Seq(Msg)]]
      /\ \A a, b \in Replica : Elems(chan'[a][b]) \subseteq Elems(chan[a][b])
      /\ m \in Msg /\ m \in Elems(chan[s][d])
  BY <1>1, <1>2, TakeRequest
<1>4. /\ Handled
      /\ \/ UNCHANGED recset
         \/ /\ m \in RecordMsg /\ m.type = "Record"
            /\ recset' = [recset EXCEPT ![d] = Put(recset[d], m.sid, m.ids)]
  <2>1. CASE m.type = "Pull" /\ OnPull(s, d, m)
    BY <1>2, <1>3, <2>1, MsgKinds, PullHandled
  <2>2. CASE m.type = "Prepare" /\ OnPrepare(s, d, m)
    BY <1>2, <1>3, <2>2, MsgKinds, PrepareHandled
  <2>3. CASE m.type = "Record" /\ OnRecord(s, d, m)
    BY <1>2, <1>3, <2>3, MsgKinds, RecordHandled
  <2>4. CASE m.type = "Accept" /\ OnAccept(s, d, m)
    BY <1>2, <1>3, <2>4, MsgKinds, AcceptHandled
  <2>5. CASE m.type = "Commit" /\ OnCommit(s, d, m)
    BY <1>2, <1>3, <2>5, MsgKinds, CommitHandled
  <2>6. CASE m.type = "Finish" /\ OnFinish(s, d, m)
    BY <1>2, <1>3, <2>6, MsgKinds, FinishHandled
  <2>7. CASE m.type = "Dispatch" /\ OnDispatch(s, d, m)
    BY <1>2, <1>3, <2>7, MsgKinds, DispatchHandled
  <2> QED
    BY <1>1, <2>1, <2>2, <2>3, <2>4, <2>5, <2>6, <2>7 DEF Deliver
<1>5. SidsPaid'
  BY <1>2, <1>4, SidsKept DEF Handled, CoroutinesWait
<1>6. BaseOK'
  BY <1>2, <1>4 DEF Types, BaseOK, Handled
<1>7. SetsOK' /\ SetsAgreed'
  <2>1. CASE UNCHANGED recset
    <3>1. SetsOK'
      BY <1>2, <2>1 DEF Types, SetsOK
    <3> QED
      BY <1>2, <1>3, <2>1, <3>1, SetsKept
  <2>2. CASE /\ m \in RecordMsg /\ m.type = "Record"
             /\ recset' = [recset EXCEPT ![d] = Put(recset[d], m.sid, m.ids)]
    <3>1. m.ids \in SUBSET Cmd /\ sidcnt \in [Replica -> Nat] /\ DOMAIN recset = Replica
      BY <1>2, <2>2 DEF RecordMsg, Types, SetsOK
    <3>2. PICK q \in Replica, n \in Nat :
            /\ m.sid = <<n, q>> /\ n < sidcnt[q]
            /\ m.sid \in DOMAIN recset[q] /\ recset[q][m.sid] = m.ids
      <4>1. Agreed(m.sid, m.ids)
        BY <1>2, <1>3, <2>2 DEF SetsAgreed
      <4> QED
        BY <4>1 DEF Agreed
    <3>3. m.sid \in DOMAIN recset'[q] /\ recset'[q][m.sid] = m.ids
      <4>1. CASE q # d
        BY <2>2, <3>1, <3>2, <4>1
      <4>2. CASE q = d
        <5>1. recset'[q] = Put(recset[q], m.sid, m.ids)
          BY <2>2, <3>1, <4>2
        <5> QED
          BY <5>1 DEF Put
      <4> QED
        BY <4>1, <4>2
    <3>4. \A x \in Nat : m.sid = <<x, d>> /\ x < sidcnt[d] => recset[d][m.sid] = m.ids
      BY <3>2
    <3>5. \A x \in Replica : sidcnt'[x] >= sidcnt[x]
      <4>1. sidcnt' = sidcnt
        BY <1>2
      <4> QED
        BY <3>1, <4>1
    <3>6. Recorded(d, m.sid, m.ids)
      BY <1>2, <1>3, <2>2, <3>1, <3>2, <3>3, <3>4, <3>5 DEF Recorded
    <3> QED
      BY <3>6, RecordKeeps
  <2> QED
    BY <1>4, <2>1, <2>2
<1> QED
  BY <1>3, <1>4, <1>5, <1>6, <1>7 DEF RInv, Types, Handled, CoroutinesWait

--------------------------------------------------------------------------------
(* The initial state, whatever the uninitialised epochs hold.               *)
LEMMA InitTypes == Init => RInv
<1> SUFFICES ASSUME Init PROVE RInv
  OBVIOUS
<1> USE RecoveryAssumption DEF RecoveryAssumption
<1>1. PICK je \in [Replica -> 0 .. MaxEpoch], oe \in [Replica -> 0 .. MaxEpoch] :
        srv = [r \in Replica |-> Server(je[r], oe[r])]
  BY DEF Init
<1>2. EmptyPool \in Pool /\ PoolOK(EmptyPool) /\ NoSid \in Sids
  BY EmptyPoolOK DEF PoolOK, Sids
<1>3. \A a, b \in Epoch : Server(a, b) \in Fields /\ Server(a, b).trig = FALSE
  <2> SUFFICES ASSUME NEW a \in Epoch, NEW b \in Epoch
               PROVE  Server(a, b) \in Fields /\ Server(a, b).trig = FALSE
    OBVIOUS
  <2>1. PICK e \in Pool : e = EmptyPool
    BY <1>2
  <2>2. PICK n \in Int : n = -1
    OBVIOUS
  <2> DEFINE v == Server(a, b)
  <2>3. v = [status |-> "READY", je |-> a, oe |-> b, view |-> FirstLeader,
             trig |-> FALSE, pool |-> e, ballot |-> n, abal |-> n, sid |-> NoSid]
    BY <2>1, <2>2, Zenon DEF Server
  <2> HIDE DEF v
  <2>4. v \in ServerRecord /\ v.pool = e /\ v.ballot = n /\ v.abal = n /\ v.trig = FALSE
    BY <1>2, <2>3 DEF ServerRecord
  <2>5. v.ballot >= v.abal
    BY <2>2, <2>4
  <2> QED
    BY <1>2, <2>1, <2>4, <2>5 DEF Fields, v
<1>4. srv \in [Replica -> Fields] /\ \A r \in Replica : srv[r].trig = FALSE
  BY <1>1, <1>3 DEF Epoch
<1>5. Idle \in Coroutines /\ Idle.pc = "idle"
  <2>1. IsFiniteSet({})
    BY FS_EmptySet
  <2>2. Idle.pc = "idle"
    BY DEF Idle
  <2> QED
    BY <2>1, <2>2, IdleOK DEF Coroutines
<1>6. co \in [Replica -> Coroutines] /\ \A r \in Replica : co[r].pc = "idle"
  BY <1>5 DEF Init
<1>7. BaseOK
  BY DEF Init, BaseOK
<1>8. SetsOK
  BY DEF Init, SetsOK
<1>9. SidsPaid
  <2>1. \A r \in Replica : Due(co[r].pc = "round1") = 0 /\ Due(srv[r].trig) = 0
    BY <1>4, <1>6 DEF Due
  <2> QED
    BY <2>1 DEF Init, SidsPaid
<1>10. chan \in [Replica -> [Replica -> Seq(Msg)]]
       /\ \A s, d \in Replica : chan[s][d] = << >>
  BY DEF Init
<1>11. SetsAgreed
  BY <1>10 DEF Init, SetsAgreed, Elems
<1> QED
  BY <1>4, <1>6, <1>7, <1>8, <1>9, <1>10, <1>11 DEF RInv, Types

(* Every step.                                                              *)
LEMMA NextTypes == RInv /\ [Next]_vars => RInv'
<1> SUFFICES ASSUME RInv, [Next]_vars PROVE RInv'
  OBVIOUS
<1>1. CASE UNCHANGED vars
  <2>1. UNCHANGED <<up, leader, isl, pend, log, exec, elections, recset, sidcnt, srv, co, chan>>
    BY <1>1 DEF vars, baseVars, setVars
  <2>2. SidsPaid' /\ SetsAgreed'
    BY <2>1, SidsKept, SetsKept DEF RInv
  <2> QED
    BY <2>1, <2>2 DEF RInv, Types, BaseOK, SetsOK
<1>2. CASE \E c \in Cmd : Dispatch(c) \/ \E r \in Replica : SpecExec(c, r)
  BY <1>2, DispatchTypes, SpecExecTypes
<1>3. CASE BaseCommit
  BY <1>3, BaseCommitTypes
<1>4. CASE \E r \in Replica : Apply(r) \/ Elect(r) \/ StepDown(r) \/ Crash(r)
  BY <1>4, ApplyTypes, ElectTypes, StepDownTypes, CrashTypes
<1>5. CASE \E r \in Replica : Coroutine(r)
  <2>1. PICK r \in Replica : Coroutine(r)
    BY <1>5
  <2> QED
    BY <2>1, StartRecoveryTypes, Round1FailsTypes, Round1ProposesTypes, Round2FailsTypes,
       Round2CommitsTypes, ResubmittedTypes, RecoveryDoneTypes DEF Coroutine
<1>6. CASE \E s, d \in Replica : Deliver(s, d)
  BY <1>6, DeliverTypes
<1> QED
  BY <1>1, <1>2, <1>3, <1>4, <1>5, <1>6 DEF Next

(* The invariant holds in every state of every recovery.                    *)
LEMMA AlwaysTypes == Spec => []RInv
BY InitTypes, NextTypes, PTL DEF Spec

(* The fields of the replicas and of the coroutines keep their types; an    *)
(* accepted ballot never exceeds the largest seen; and the sids that        *)
(* recoveries take stay below the number of elections.                      *)
THEOREM RecoveryTypes == Spec => []TypeOK
<1>1. RInv => TypeOK
  <2> SUFFICES ASSUME RInv PROVE TypeOK
    OBVIOUS
  <2>1. ASSUME NEW r \in Replica
        PROVE  /\ srv[r].status \in {"READY", "RECOVERY"}
               /\ {srv[r].je, srv[r].oe} \subseteq 0 .. MaxEpoch
               /\ srv[r].pool \in Pool /\ srv[r].ballot >= srv[r].abal /\ srv[r].sid \in Sids
    BY DEF RInv, Types, Fields, ServerRecord, Epoch
  <2>2. ASSUME NEW r \in Replica
        PROVE  /\ co[r].pc \in {"idle", "round1", "round2", "resubmit", "finish"}
               /\ co[r].todo \subseteq Cmd
    BY DEF RInv, Types, Coroutines, Coro
  <2>3. \A r \in Replica : exec[r] \in 0 .. Len(log)
    BY DEF RInv, Types, BaseOK
  <2> QED
    BY <2>1, <2>2, <2>3 DEF TypeOK, RInv, Types, BaseOK
<1> QED
  BY <1>1, AlwaysTypes, PTL

(* Whatever the elections, crashes, failed recoveries and late messages,    *)
(* and whatever epochs the replicas started with, two replicas that         *)
(* recorded a recovery set under one sid recorded the same set: the sid a   *)
(* recovery agrees on stands for one set of commands.                       *)
THEOREM OneSetPerSid == Spec => []RecSetAgreement
<1>1. RInv => RecSetAgreement
  <2> SUFFICES ASSUME RInv, NEW r \in Replica, NEW q \in Replica,
                      NEW sid \in DOMAIN recset[r] \cap DOMAIN recset[q]
               PROVE  recset[r][sid] = recset[q][sid]
    BY DEF RecSetAgreement
  <2>1. Agreed(sid, recset[r][sid]) /\ Agreed(sid, recset[q][sid])
    BY DEF RInv, SetsAgreed
  <2> QED
    BY <2>1 DEF Agreed
<1> QED
  BY <1>1, AlwaysTypes, PTL

--------------------------------------------------------------------------------
(***************************************************************************)
(* Fast commits survive the recovery that Home runs.  The conditions are   *)
(* NoTies, HomeEpochsLead and OnlyHomeElected; HInv is the inductive       *)
(* invariant, one lemma per action shows that it is kept.                  *)
(***************************************************************************)

(* Two commands cannot tie in a PullRecovery's count: with N = 2, 6, 10 ...  *)
(* replicas a fast quorum and a quorum may share only half of the replies.  *)
NoTies == N % 4 # 2

(* A set of replies with at most one from each replica.                     *)
OnePer(S) ==
  /\ \A m \in S : m.from \in Replica
  /\ \A m, n \in S : m.from = n.from => m = n

--------------------------------------------------------------------------------
(* SimpleRWCommand's arithmetic: what a fast quorum and a quorum share      *)
(* reaches majority_threshold_ and is more than half of the quorum.         *)
LEMMA QuorumFacts ==
  /\ N \in Nat /\ N >= 1
  /\ RuleSuperMajority \in Nat /\ Quorum \in Nat /\ majority_threshold \in Nat
  /\ majority_threshold >= 1 /\ Quorum <= N
  /\ RuleSuperMajority + Quorum - N >= majority_threshold
  /\ NoTies => 2 * RuleSuperMajority + Quorum > 2 * N
<1>1. N \in Nat /\ N >= 1
  <2>1. IsFiniteSet(Replica) /\ Home \in Replica
    BY RecoveryAssumption DEF RecoveryAssumption
  <2>2. Cardinality(Replica) \in Nat /\ Cardinality(Replica) # 0
    BY <2>1, FS_CardinalityType, FS_EmptySet
  <2> QED
    BY <2>2 DEF N
<1>2. PICK n \in Nat : n = N /\ n >= 1
  BY <1>1
<1>3. PICK f \in Nat : f = MaxFailure /\ (n = 2 * f + 1 \/ n = 2 * f + 2)
  <2>1. MaxFailure = (n - 1) \div 2
    BY <1>2 DEF MaxFailure
  <2> QED
    BY <1>2, <2>1
<1>4. PICK h \in Nat : h = (f + 1) \div 2 /\ (f = 2 * h \/ f + 1 = 2 * h)
  OBVIOUS
<1>5. RuleSuperMajority = f + h + 1
  BY <1>3, <1>4 DEF RuleSuperMajority
<1>6. majority_threshold = h + 1
  <2>1. majority_threshold = (f + 2 + 1) \div 2
    BY <1>3 DEF majority_threshold
  <2>2. (f + 3) \div 2 = h + 1
    BY <1>4
  <2> QED
    BY <2>1, <2>2
<1>7. Quorum = n \div 2 + 1 /\ (n = 2 * f + 1 => Quorum = f + 1)
      /\ (n = 2 * f + 2 => Quorum = f + 2)
  <2>1. Quorum = n \div 2 + 1
    BY <1>2 DEF Quorum
  <2> QED
    BY <1>3, <2>1
<1>8. NoTies => ~(n = 2 * f + 2 /\ f = 2 * h)
  <2>1. NoTies => n % 4 # 2
    BY <1>2 DEF NoTies
  <2>2. n = 4 * h + 2 => n % 4 = 2
    OBVIOUS
  <2> QED
    BY <2>1, <2>2
<1> QED
  BY <1>2, <1>3, <1>4, <1>5, <1>6, <1>7, <1>8

(* As many replies as replicas that gave them.                              *)
LEMMA RepliesCounted ==
  ASSUME NEW S, OnePer(S)
  PROVE  /\ IsFiniteSet(S) /\ Cardinality(S) = Cardinality(Froms(S))
         /\ Froms(S) \in SUBSET Replica /\ IsFiniteSet(Froms(S))
<1>1. IsFiniteSet(Replica)
  BY RecoveryAssumption DEF RecoveryAssumption
<1>2. Froms(S) \in SUBSET Replica /\ IsFiniteSet(Froms(S))
  BY <1>1, FS_Subset DEF OnePer, Froms
<1> DEFINE f == [m \in S |-> m.from]
<1>3. f \in Injection(S, Froms(S)) /\ f \in Surjection(S, Froms(S))
  BY DEF Injection, IsInjective, Surjection, OnePer, Froms
<1> QED
  BY <1>2, <1>3, FS_Injection

(* What two sets of replicas share.                                         *)
LEMMA Overlap ==
  ASSUME NEW X \in SUBSET Replica, NEW Y \in SUBSET Replica
  PROVE  /\ IsFiniteSet(X) /\ IsFiniteSet(Y) /\ IsFiniteSet(X \cap Y)
         /\ Cardinality(X) \in Nat /\ Cardinality(Y) \in Nat /\ Cardinality(X \cap Y) \in Nat
         /\ Cardinality(X \cap Y) >= Cardinality(X) + Cardinality(Y) - N
         /\ X \subseteq Y => Cardinality(X) <= Cardinality(Y)
<1>1. IsFiniteSet(Replica) /\ Cardinality(Replica) = N
  BY RecoveryAssumption DEF RecoveryAssumption, N
<1>2. IsFiniteSet(X) /\ IsFiniteSet(Y) /\ IsFiniteSet(X \cap Y) /\ IsFiniteSet(X \cup Y)
  BY <1>1, FS_Subset
<1>3. /\ Cardinality(X) \in Nat /\ Cardinality(Y) \in Nat /\ Cardinality(X \cap Y) \in Nat
      /\ Cardinality(X \cup Y) \in Nat
  BY <1>2, FS_CardinalityType
<1>4. Cardinality(X \cup Y) = Cardinality(X) + Cardinality(Y) - Cardinality(X \cap Y)
  BY <1>2, FS_Union
<1>5. X \cup Y \in SUBSET Replica
  OBVIOUS
<1>6. Cardinality(X \cup Y) <= N
  BY <1>1, <1>5, FS_Subset
<1>7. X \subseteq Y => Cardinality(X) <= Cardinality(Y)
  BY <1>2, FS_Subset
<1>8. N \in Nat
  BY QuorumFacts
<1> QED
  BY <1>2, <1>3, <1>4, <1>6, <1>7, <1>8

--------------------------------------------------------------------------------
(* A reply names at most one command of a key.                              *)
OneOfKey(ids) == \A c, d \in ids : KeyOf[c] = KeyOf[d] => c = d

(* GetRecoveredKeyIds on the replies P of a PullRecovery, when each replica *)
(* of a set X as large as a fast quorum that answered has named w: every    *)
(* set it may return has w.                                                 *)
LEMMA QuorumRecovers ==
  ASSUME NoTies, NEW P, OnePer(P), \A m \in P : m.ok /\ OneOfKey(m.ids), Yes(P),
         NEW w \in Cmd, NEW X \in SUBSET Replica, Cardinality(X) >= RuleSuperMajority,
         \A m \in P : m.from \in X => w \in m.ids,
         NEW ids \in RecoveredKeyIds(P)
  PROVE  w \in ids
<1> USE PoolAssumption
<1> DEFINE F == Froms(P)
           Z == X \cap F
           M(c) == {m \in P : m.ok /\ c \in m.ids}
<1>1. F \in SUBSET Replica /\ Cardinality(P) = Cardinality(F)
  BY RepliesCounted
<1>2. Cardinality(F) >= Quorum
  <2>1. {m \in P : m.ok} = P
    OBVIOUS
  <2> QED
    BY <1>1, <2>1 DEF Yes
<1>3. \A c : OnePer(M(c)) /\ Froms(M(c)) \in SUBSET Replica
             /\ Cardinality(M(c)) = Cardinality(Froms(M(c)))
  <2>1. \A c : OnePer(M(c))
    BY DEF OnePer
  <2> HIDE DEF M
  <2> QED
    BY <2>1, RepliesCounted
<1>4. Z \in SUBSET Replica /\ Z \subseteq Froms(M(w))
  BY <1>1 DEF Froms
<1>5. /\ Cardinality(Z) \in Nat /\ Cardinality(F) \in Nat
      /\ Cardinality(Z) >= Cardinality(X) + Cardinality(F) - N
      /\ Cardinality(X) \in Nat
  BY <1>1, Overlap
<1>6. Cardinality(Froms(M(w))) \in Nat /\ Cardinality(Z) <= Cardinality(Froms(M(w)))
  BY <1>3, <1>4, Overlap
<1>7. \A c \in Cmd : Count(P, c) = Cardinality(Froms(M(c)))
  BY <1>3 DEF Count
<1>8. Count(P, w) >= majority_threshold /\ Count(P, w) \in Nat /\ Count(P, w) >= Cardinality(Z)
      /\ 2 * Cardinality(Z) > Cardinality(F)
  <2> HIDE DEF F, Z, M
  <2> QED
    BY <1>2, <1>5, <1>6, <1>7, QuorumFacts
<1>9. ASSUME NEW c \in Cmd, KeyOf[c] = KeyOf[w], c # w
      PROVE  Count(P, c) \in Nat /\ Count(P, c) < Count(P, w)
  <2>1. Froms(M(c)) \subseteq F \ Z
    <3> SUFFICES ASSUME NEW m \in P, c \in m.ids PROVE m.from \notin X
      BY DEF Froms
    <3> QED
      BY <1>9 DEF OneOfKey
  <2>2. /\ IsFiniteSet(F) /\ IsFiniteSet(F \ Z) /\ F \ Z \in SUBSET Replica
        /\ Cardinality(F \ Z) = Cardinality(F) - Cardinality(F \cap Z)
    BY <1>1, Overlap, FS_Difference
  <2>3. F \cap Z = Z
    OBVIOUS
  <2>4. Cardinality(Froms(M(c))) \in Nat /\ Cardinality(Froms(M(c))) <= Cardinality(F \ Z)
    BY <1>3, <2>1, <2>2, Overlap
  <2>5. Cardinality(F \ Z) = Cardinality(F) - Cardinality(Z)
    BY <2>2, <2>3
  <2> HIDE DEF F, Z, M
  <2> QED
    BY <1>5, <1>7, <1>8, <2>4, <2>5
<1>10. Leading(P, KeyOf[w]) = {w}
  <2>1. w \in Leading(P, KeyOf[w])
    <3>1. \A d \in Cmd : KeyOf[d] = KeyOf[w] => Count(P, d) <= Count(P, w)
      BY <1>8, <1>9
    <3> QED
      BY <1>8, <3>1 DEF Leading
  <2>2. ASSUME NEW c \in Leading(P, KeyOf[w]) PROVE c = w
    <3>1. c \in Cmd /\ KeyOf[c] = KeyOf[w] /\ Count(P, w) <= Count(P, c)
      BY DEF Leading
    <3> QED
      BY <1>8, <1>9, <3>1
  <2> QED
    BY <2>1, <2>2
<1>11. Cardinality(ids \cap {w}) = 1
  BY <1>10 DEF RecoveredKeyIds
<1>12. ids \cap {w} # {}
  BY <1>11, FS_EmptySet
<1> QED
  BY <1>12

--------------------------------------------------------------------------------
(* The write w is in its bucket, and is the bucket's command to recover.    *)
Names(p, w) == w \in p.cand[KeyOf[w]].cmds /\ p.cand[KeyOf[w]].to_recover = w

(* What a replica that names w reports and tracks.                          *)
LEMMA NamedReported ==
  ASSUME NEW p, PoolOK(p), NEW w \in Cmd, Names(p, w)
  PROVE  w \in ToRecover(p) /\ w \in Tracked(p)
<1> USE PoolAssumption
<1>1. KeyOf[w] \in Key /\ w # NoCmd
  OBVIOUS
<1>2. CmdToRecover(p.cand[KeyOf[w]]) = w
  BY DEF Names, CmdToRecover
<1>3. w \in Tracked(p)
  BY TrackedInOwnBucket DEF Names
<1> QED
  BY <1>1, <1>2, <1>3 DEF ToRecover

(* What a replica reports has one command of each key.                      *)
LEMMA ReportsOneOfKey ==
  ASSUME NEW p, PoolOK(p)
  PROVE  OneOfKey(ToRecover(p))
<1> USE PoolAssumption
<1>1. ASSUME NEW k \in Key, CmdToRecover(p.cand[k]) # NoCmd
      PROVE  CmdToRecover(p.cand[k]) \in p.cand[k].cmds /\ KeyOf[CmdToRecover(p.cand[k])] = k
  <2>1. CmdToRecover(p.cand[k]) \in p.cand[k].cmds
    BY <1>1 DEF CmdToRecover
  <2>2. BucketOK(p.cand[k], k)
    BY DEF PoolOK
  <2> QED
    BY <2>1, <2>2 DEF BucketOK
<1>2. \A c \in ToRecover(p) : \E k \in Key : c = CmdToRecover(p.cand[k]) /\ c # NoCmd
  BY DEF ToRecover
<1>3. ASSUME NEW c \in ToRecover(p), NEW d \in ToRecover(p), KeyOf[c] = KeyOf[d]
      PROVE  c = d
  <2>1. PICK k \in Key : c = CmdToRecover(p.cand[k]) /\ c # NoCmd
    BY <1>2
  <2>2. PICK l \in Key : d = CmdToRecover(p.cand[l]) /\ d # NoCmd
    BY <1>2
  <2> QED
    BY <1>1, <1>3, <2>1, <2>2
<1> QED
  BY <1>3 DEF OneOfKey

(* A push takes no name away, and gives a promised write its own.           *)
LEMMA NamesPush ==
  ASSUME NEW p, PoolOK(p), NEW c \in Cmd, NEW w \in Cmd
  PROVE  /\ Names(p, w) => Names(PoolPush(p, c), w)
         /\ c \in Writes /\ PushOk(p, c) => Names(PoolPush(p, c), c)
<1> USE PoolAssumption
<1> DEFINE q == PoolPush(p, c)
           b == p.cand[KeyOf[c]]
<1>1. p \in Pool /\ KeyOf[c] \in Key /\ KeyOf[w] \in Key /\ BucketOK(b, KeyOf[c])
  BY DEF PoolOK
<1>2. /\ q.cand[KeyOf[c]] = BucketPush(b, c)
      /\ \A k \in Key \ {KeyOf[c]} : q.cand[k] = p.cand[k]
  BY <1>1 DEF PoolPush, Pool
<1>3. /\ BucketPush(b, c).cmds = b.cmds \cup {c}
      /\ BucketPush(b, c).to_recover =
           IF b.total_write = 0 /\ c \in Writes THEN c ELSE b.to_recover
  BY DEF BucketPush
<1>4. ASSUME Names(p, w), KeyOf[w] = KeyOf[c] PROVE b.total_write # 0
  BY <1>1, <1>4 DEF Names, BucketOK
<1>5. Names(p, w) => Names(q, w)
  <2>1. CASE KeyOf[w] = KeyOf[c]
    BY <1>2, <1>3, <1>4, <2>1 DEF Names
  <2>2. CASE KeyOf[w] # KeyOf[c]
    BY <1>1, <1>2, <2>2 DEF Names
  <2> QED
    BY <2>1, <2>2
<1>6. c \in Writes /\ PushOk(p, c) => Names(q, c)
  BY <1>2, <1>3 DEF Names, PushOk
<1> QED
  BY <1>5, <1>6

(* The removal of an applied command takes no other name away.              *)
LEMMA NamesRemove ==
  ASSUME NEW p, PoolOK(p), NEW c \in Cmd, NEW w \in Writes, w # c, Names(p, w)
  PROVE  Names(PoolRemove(p, c), w)
<1> USE PoolAssumption
<1> DEFINE q == PoolRemove(p, c)
           b == p.cand[KeyOf[c]]
<1>1. p \in Pool /\ KeyOf[c] \in Key /\ KeyOf[w] \in Key /\ BucketOK(b, KeyOf[c])
  BY DEF PoolOK
<1>2. CASE c \notin b.cmds
  BY <1>2 DEF PoolRemove
<1>3. CASE c \in b.cmds
  <2>1. /\ q.cand[KeyOf[c]] = BucketRemove(b, c)
        /\ \A k \in Key \ {KeyOf[c]} : q.cand[k] = p.cand[k]
    BY <1>1, <1>3 DEF PoolRemove, Pool
  <2>2. CASE KeyOf[w] = KeyOf[c]
    <3>1. w \in b.cmds \cap Writes /\ b.to_recover = w
      BY <2>2 DEF Names
    <3>2. BucketRemove(b, c).to_recover = w
      BY <1>1, <3>1, BucketRemoveKeepsName
    <3>3. w \in BucketRemove(b, c).cmds
      BY <1>3, <3>1 DEF BucketRemove
    <3> QED
      BY <2>1, <2>2, <3>2, <3>3 DEF Names
  <2>3. CASE KeyOf[w] # KeyOf[c]
    BY <1>1, <2>1, <2>3 DEF Names
  <2> QED
    BY <2>2, <2>3
<1> QED
  BY <1>2, <1>3

--------------------------------------------------------------------------------
(* As long as the only election was of the replica to which commands are    *)
(* dispatched.  With another leader recovered commands get lost: README,    *)
(* section 5.                                                               *)
OnlyHomeElected == elections = 0 \/ (elections = 1 /\ leader = Home)

(* No replica starts with a larger epoch than Home, which recovers.  With   *)
(* smaller epochs than a majority its recovery fails and empties its pool.  *)
HomeEpochsLead ==
  \A r \in Replica \ {Home} : \A x \in InitEpochs[r], y \in InitEpochs[Home] : x <= y

(* r promised c before its first FinishRecovery, or since its last one.     *)
FirstPromise(c, r) == \E a \in acc : a.cmd = c /\ a.from = r /\ a.gen = 0
LastPromise(c, r)  == \E a \in acc : a.cmd = c /\ a.from = r /\ a.gen = fin[r]

(* r makes no more promises before its first FinishRecovery.                *)
Closed(r) == srv[r].status = "RECOVERY" \/ fin[r] > 0

(* Who promised w before its first FinishRecovery, or still may.            *)
Possible(w) == {r \in Replica : FirstPromise(w, r) \/ ~Closed(r)}

(* A write that a fast quorum promised, or still may, is in the log or in S. *)
Settled(S) ==
  \A w \in Writes :
    Cardinality(Possible(w)) >= RuleSuperMajority => InLog(w) \/ w \in S

(* FinishRecovery has not been broadcast yet.                               *)
Unfinished == co[Home].run = 0 \/ co[Home].pc \in {"round1", "round2", "resubmit"}

(* No other replica recovers.                                               *)
Alone ==
  \A r \in Replica \ {Home} :
    ~srv[r].trig /\ co[r].pc = "idle" /\ \A d \in Replica : chan[r][d] = << >>

(* Home recovers once, after its election, and leads from then on.          *)
Stage ==
  /\ co[Home].run = 0 =>
       co[Home].pc = "idle" /\ \A d \in Replica : chan[Home][d] = << >>
  /\ co[Home].run > 0 \/ srv[Home].trig => elections = 1
  /\ co[Home].run > 0 => ~srv[Home].trig
  /\ elections = 1 => srv[Home].view = Home /\ (Home \in up => Home \in isl)

(* A connection's requests in their order: PullRecovery first, one          *)
(* RecordCmd, FinishRecovery last.                                          *)
Ordered(q) ==
  \A i, j \in 1 .. Len(q) : i < j =>
    /\ q[j].type # "Pull" /\ q[i].type # "Finish"
    /\ q[i].type = "Record" => q[j].type # "Record"

NoneOf(q, type) == \A m \in Elems(q) : m.type # type

(* A request on its way to d passes d's tests.                              *)
RequestOK(m, d) ==
  /\ m.type # "Dispatch" => m.oe = srv[Home].oe
  /\ m.type \notin {"Dispatch", "Finish"} => m.je >= srv[d].je
  /\ m.type = "Pull" => m.view = Home
  /\ m.type = "Prepare" => m.bal = -1
  /\ m.type = "Accept" => m.bal = 0
  /\ m.type \in {"Record", "Accept"} => co[Home].pc # "round1"
  /\ m.type = "Dispatch" => d = Home
  /\ m.type = "Finish" => ~Unfinished /\ fin[d] = 0

Queues ==
  \A d \in Replica :
    /\ Ordered(chan[Home][d])
    /\ \A m \in Elems(chan[Home][d]) : RequestOK(m, d)
    /\ co[Home].run > 0 /\ NoneOf(chan[Home][d], "Pull") => Closed(d)

(* Home's epochs and ballot are the largest.                                *)
Numbers ==
  \A d \in Replica :
    /\ srv[d].oe <= srv[Home].oe
    /\ Unfinished => fin[d] = 0 /\ srv[d].je <= srv[Home].je
    /\ srv[d].ballot <= 0
    /\ co[Home].run = 0 \/ co[Home].pc = "round1" =>
         srv[d].ballot = -1 /\ srv[d].abal = -1

(* A promised write stays named until it is in the log or the pool is reset. *)
Kept ==
  /\ acc \subseteq [cmd: Cmd, from: Replica, gen: Nat, ldr: BOOLEAN]
  /\ fin \in [Replica -> {0, 1}]
  /\ \A a \in acc : a.gen <= fin[a.from]
  /\ \A r \in Replica : \A w \in Writes :
       LastPromise(w, r) => InLog(w) \/ Names(srv[r].pool, w)

(* PullRecovery's replies: from replicas that promise no more, of all they  *)
(* had promised.                                                            *)
PullOK(m) ==
  /\ m.ok /\ OneOfKey(m.ids) /\ Closed(m.from)
  /\ NoneOf(chan[Home][m.from], "Pull")
  /\ \A w \in Writes : FirstPromise(w, m.from) => w \in m.ids \/ InLog(w)

FirstRoundOK ==
  co[Home].pc = "round1" =>
    /\ OnePer(co[Home].pull)
    /\ \A m \in co[Home].pull : PullOK(m)
    /\ \A m \in co[Home].prep : m.ok /\ m.abal = -1

(* Whoever recorded the set and had promised a write of it sends the write, *)
(* when Home does not have it.                                              *)
RecordOK(m) ==
  /\ m.sid = co[Home].sid /\ m.ids = recset[Home][co[Home].sid]
  /\ \A c \in m.ids : c \in m.missing \/ Held(Home, c) \/ InLog(c)

RecOK(m) ==
  /\ Closed(m.from)
  /\ NoneOf(chan[Home][m.from], "Record")
  /\ \A w \in Writes \cap recset[Home][co[Home].sid] :
       FirstPromise(w, m.from) => w \in m.cmds \/ Held(Home, w) \/ InLog(w)

SecondRoundOK ==
  co[Home].pc = "round2" =>
    /\ co[Home].prep_ok /\ co[Home].propose = co[Home].sid
    /\ co[Home].sid \in DOMAIN recset[Home]
    /\ Settled(recset[Home][co[Home].sid])
    /\ \A m \in co[Home].accept : m.ok
    /\ \A d \in Replica : \A m \in Elems(chan[Home][d]) : m.type = "Record" => RecordOK(m)
    /\ OnePer(co[Home].rec)
    /\ \A m \in co[Home].rec : RecOK(m)

LaterOK ==
  /\ co[Home].pc = "resubmit" => Settled(co[Home].todo)
  /\ ~Unfinished => Settled({})

HInv ==
  Alone /\ Stage /\ Queues /\ Numbers /\ Kept /\ FirstRoundOK /\ SecondRoundOK /\ LaterOK

--------------------------------------------------------------------------------
(* What only grows: the log, who has closed, and with it the promises that  *)
(* can no longer be made.                                                   *)
Growing ==
  /\ \A c : InLog(c) => InLog(c)'
  /\ \A r \in Replica : Closed(r) => Closed(r)'
  /\ \A c : \A r \in Replica : FirstPromise(c, r)' => FirstPromise(c, r) \/ ~Closed(r)

(* A settled set stays settled, when what leaves it is in the log.          *)
LEMMA SettledKept ==
  ASSUME Growing, NEW S, NEW T, Settled(S), \A c \in S : c \in T \/ InLog(c)'
  PROVE  Settled(T)'
<1> SUFFICES ASSUME NEW w \in Writes, Cardinality(Possible(w)') >= RuleSuperMajority
             PROVE  InLog(w)' \/ w \in T
  BY DEF Settled
<1>1. Possible(w)' \subseteq Possible(w)
  BY DEF Possible, Growing
<1>2. Possible(w) \in SUBSET Replica /\ Possible(w)' \in SUBSET Replica
  BY DEF Possible
<1>3. /\ Cardinality(Possible(w)') <= Cardinality(Possible(w))
      /\ Cardinality(Possible(w)') \in Nat /\ Cardinality(Possible(w)) \in Nat
  <2> DEFINE A == Possible(w)'
             B == Possible(w)
  <2> HIDE DEF A, B
  <2>1. A \in SUBSET Replica /\ B \in SUBSET Replica /\ A \subseteq B
    BY <1>1, <1>2 DEF A, B
  <2>2. Cardinality(A) <= Cardinality(B) /\ Cardinality(A) \in Nat /\ Cardinality(B) \in Nat
    BY <2>1, Overlap
  <2> QED
    BY <2>2 DEF A, B
<1>4. Cardinality(Possible(w)) >= RuleSuperMajority
  BY <1>3, QuorumFacts
<1>5. InLog(w) \/ w \in S
  BY <1>4 DEF Settled
<1> QED
  BY <1>5 DEF Growing

--------------------------------------------------------------------------------
(* What is behind the head of an ordered connection.                        *)
LEMMA OrderedTail ==
  ASSUME NEW q \in Seq(Msg), q # << >>, Ordered(q)
  PROVE  /\ Ordered(Tail(q)) /\ NoneOf(Tail(q), "Pull")
         /\ Head(q).type # "Pull" => NoneOf(q, "Pull")
         /\ Head(q).type = "Record" => NoneOf(Tail(q), "Record")
         /\ Head(q).type = "Finish" => Tail(q) = << >>
         /\ Elems(q) = Elems(Tail(q)) \cup {Head(q)}
<1> DEFINE t == Tail(q)
<1>1. /\ Len(q) \in Nat /\ Len(q) >= 1 /\ Len(t) = Len(q) - 1 /\ t \in Seq(Msg)
      /\ \A i \in 1 .. Len(t) : t[i] = q[i + 1] /\ i + 1 \in 1 .. Len(q) /\ 1 < i + 1
      /\ Head(q) = q[1] /\ 1 \in 1 .. Len(q)
      /\ DOMAIN q = 1 .. Len(q) /\ DOMAIN t = 1 .. Len(t)
  OBVIOUS
<1> HIDE DEF t
<1>2. \A i, j \in 1 .. Len(t) : i < j => i + 1 < j + 1
  OBVIOUS
<1>3. Ordered(t)
  BY <1>1, <1>2 DEF Ordered
<1>4. /\ NoneOf(t, "Pull")
      /\ Head(q).type = "Record" => NoneOf(t, "Record")
  BY <1>1 DEF Ordered, NoneOf, Elems
<1>5. Head(q).type = "Finish" => t = << >>
  <2>1. ASSUME t # << >> PROVE 1 \in 1 .. Len(t)
    BY <1>1, <2>1
  <2> QED
    BY <1>1, <2>1 DEF Ordered
<1>6. \A i \in 1 .. Len(q) : i = 1 \/ (i - 1 \in 1 .. Len(t) /\ t[i - 1] = q[i])
  BY <1>1
<1>7. Elems(q) = Elems(t) \cup {Head(q)}
  <2>1. ASSUME NEW x \in Elems(q) PROVE x \in Elems(t) \cup {Head(q)}
    BY <1>1, <1>6 DEF Elems
  <2>2. \A i \in 1 .. Len(t) : t[i] \in Elems(q)
    BY <1>1 DEF Elems
  <2>3. Elems(t) \subseteq Elems(q) /\ Head(q) \in Elems(q)
    BY <1>1, <2>2 DEF Elems
  <2> QED
    BY <2>1, <2>3
<1> QED
  BY <1>3, <1>4, <1>5, <1>7 DEF NoneOf, t

(* New requests behind the earlier ones.                                    *)
LEMMA OrderedConcat ==
  ASSUME NEW p \in Seq(Msg), NEW q \in Seq(Msg), Ordered(p), Ordered(q),
         NoneOf(p, "Finish"), NoneOf(q, "Pull"), NoneOf(p, "Record") \/ NoneOf(q, "Record")
  PROVE  Ordered(p \o q)
<1>1. /\ Len(p) \in Nat /\ Len(q) \in Nat /\ Len(p \o q) = Len(p) + Len(q)
      /\ DOMAIN p = 1 .. Len(p) /\ DOMAIN q = 1 .. Len(q)
      /\ \A i \in 1 .. Len(p) + Len(q) :
           (p \o q)[i] = IF i <= Len(p) THEN p[i] ELSE q[i - Len(p)]
  OBVIOUS
<1>2. /\ \A i \in 1 .. Len(p) : p[i].type # "Finish"
      /\ \A i \in 1 .. Len(q) : q[i].type # "Pull"
      /\ \A i \in 1 .. Len(p) : \A j \in 1 .. Len(q) :
           p[i].type = "Record" => q[j].type # "Record"
  BY <1>1 DEF NoneOf, Elems
<1> SUFFICES ASSUME NEW i \in 1 .. Len(p) + Len(q), NEW j \in 1 .. Len(p) + Len(q), i < j
             PROVE  /\ (p \o q)[j].type # "Pull" /\ (p \o q)[i].type # "Finish"
                    /\ (p \o q)[i].type = "Record" => (p \o q)[j].type # "Record"
  BY <1>1 DEF Ordered
<1>3. CASE j <= Len(p)
  <2>1. i \in 1 .. Len(p) /\ j \in 1 .. Len(p) /\ (p \o q)[i] = p[i] /\ (p \o q)[j] = p[j]
    BY <1>1, <1>3
  <2> QED
    BY <2>1 DEF Ordered
<1>4. CASE i > Len(p)
  <2>1. /\ i - Len(p) \in 1 .. Len(q) /\ j - Len(p) \in 1 .. Len(q)
        /\ i - Len(p) < j - Len(p)
        /\ (p \o q)[i] = q[i - Len(p)] /\ (p \o q)[j] = q[j - Len(p)]
    BY <1>1, <1>4
  <2> QED
    BY <2>1 DEF Ordered
<1>5. CASE i <= Len(p) /\ j > Len(p)
  <2>1. /\ i \in 1 .. Len(p) /\ j - Len(p) \in 1 .. Len(q)
        /\ (p \o q)[i] = p[i] /\ (p \o q)[j] = q[j - Len(p)]
    BY <1>1, <1>5
  <2> QED
    BY <1>2, <2>1
<1> QED
  BY <1>1, <1>3, <1>4, <1>5

(* The order of one request, or two.                                        *)
LEMMA OrderedFew ==
  ASSUME NEW m \in Msg, NEW n \in Msg, m.type # "Finish", n.type \notin {"Pull", "Record"}
  PROVE  Ordered(<<m, n>>) /\ Ordered(<<m>>) /\ Ordered(<<n>>)
BY DEF Ordered

--------------------------------------------------------------------------------
(* What the fields of a replica and of a coroutine are numbers and sets of. *)
LEMMA FieldTypes ==
  ASSUME RInv
  PROVE  /\ Home \in Replica
         /\ \A r \in Replica :
              /\ srv[r].je \in Int /\ srv[r].oe \in Int
              /\ srv[r].ballot \in Int /\ srv[r].abal \in Int
              /\ srv[r].status \in {"READY", "RECOVERY"} /\ srv[r].trig \in BOOLEAN
              /\ PoolOK(srv[r].pool) /\ srv[r] \in Fields /\ co[r] \in Coroutines
              /\ co[r].run \in Nat /\ co[r].prep_ok \in BOOLEAN /\ co[r].sid \in Sids
         /\ srv \in [Replica -> Fields] /\ co \in [Replica -> Coroutines]
         /\ chan \in [Replica -> [Replica -> Seq(Msg)]]
         /\ log \in Seq(Cmd) /\ elections \in Nat
<1>1. Home \in Replica
  BY RecoveryAssumption DEF RecoveryAssumption
<1>2. /\ srv \in [Replica -> Fields] /\ co \in [Replica -> Coroutines]
      /\ chan \in [Replica -> [Replica -> Seq(Msg)]]
      /\ log \in Seq(Cmd) /\ elections \in Nat
  BY DEF RInv, Types, BaseOK
<1>3. \A s \in Fields :
        /\ s.je \in Int /\ s.oe \in Int /\ s.ballot \in Int /\ s.abal \in Int
        /\ s.status \in {"READY", "RECOVERY"} /\ s.trig \in BOOLEAN /\ PoolOK(s.pool)
  BY RecoveryAssumption DEF Fields, ServerRecord, Epoch, RecoveryAssumption
<1>4. \A k \in Coroutines : k.run \in Nat /\ k.prep_ok \in BOOLEAN /\ k.sid \in Sids
  BY DEF Coroutines, Coro
<1> QED
  BY <1>1, <1>2, <1>3, <1>4

(* The replies of the first round stay good ones.                           *)
LEMMA FirstRoundKept ==
  ASSUME Growing, FirstRoundOK,
         co'[Home].pc = "round1" =>
           /\ co[Home].pc = "round1" /\ OnePer(co'[Home].pull)
           /\ \A m \in co'[Home].pull : m \in co[Home].pull \/ PullOK(m)'
           /\ \A m \in co'[Home].prep : m \in co[Home].prep \/ (m.ok /\ m.abal = -1)
           /\ \A d \in Replica : Elems(chan'[Home][d]) \subseteq Elems(chan[Home][d])
  PROVE  FirstRoundOK'
<1> SUFFICES ASSUME co'[Home].pc = "round1"
             PROVE  /\ OnePer(co'[Home].pull)
                    /\ \A m \in co'[Home].pull : PullOK(m)'
                    /\ \A m \in co'[Home].prep : m.ok /\ m.abal = -1
  BY DEF FirstRoundOK, OnePer
<1>1. co[Home].pc = "round1"
  OBVIOUS
<1>2. ASSUME NEW m \in co[Home].pull PROVE PullOK(m)'
  <2>1. PullOK(m) /\ m.from \in Replica
    BY <1>1 DEF FirstRoundOK, OnePer
  <2>2. Closed(m.from)'
    BY <2>1 DEF PullOK, Growing
  <2>3. \A w \in Writes : FirstPromise(w, m.from)' => w \in m.ids \/ InLog(w)'
    BY <2>1 DEF PullOK, Growing
  <2>4. \A x \in Elems(chan'[Home][m.from]) : x.type # "Pull"
    BY <2>1 DEF PullOK, NoneOf
  <2> QED
    BY <2>1, <2>2, <2>3, <2>4 DEF PullOK, NoneOf
<1> QED
  BY <1>1, <1>2 DEF FirstRoundOK

(* The replies of the second round and the requests of it stay good ones.   *)
LEMMA SecondRoundKept ==
  ASSUME Growing, SecondRoundOK,
         co'[Home].pc = "round2" =>
           /\ co[Home].pc = "round2" /\ co'[Home].sid = co[Home].sid
           /\ co'[Home].propose = co[Home].propose /\ co'[Home].prep_ok = co[Home].prep_ok
           /\ co[Home].sid \in DOMAIN recset'[Home]
           /\ recset'[Home][co[Home].sid] = recset[Home][co[Home].sid]
           /\ \A m \in co'[Home].accept : m \in co[Home].accept \/ m.ok
           /\ OnePer(co'[Home].rec)
           /\ \A m \in co'[Home].rec : m \in co[Home].rec \/ RecOK(m)'
           /\ \A d \in Replica : Elems(chan'[Home][d]) \subseteq Elems(chan[Home][d])
           /\ \A c : Held(Home, c) => Held(Home, c)' \/ InLog(c)'
  PROVE  SecondRoundOK'
<1> SUFFICES ASSUME co'[Home].pc = "round2" PROVE SecondRoundOK'
  BY DEF SecondRoundOK
<1>1. /\ co[Home].pc = "round2" /\ co'[Home].sid = co[Home].sid
      /\ recset'[Home][co'[Home].sid] = recset[Home][co[Home].sid]
  OBVIOUS
<1>2. Settled(recset[Home][co[Home].sid])'
  <2>1. PICK S : S = recset[Home][co[Home].sid]
    OBVIOUS
  <2>2. Settled(S) /\ S = recset'[Home][co'[Home].sid]
    BY <1>1, <2>1 DEF SecondRoundOK
  <2>3. Settled(S)'
    BY <2>2, SettledKept
  <2> QED
    BY <2>2, <2>3 DEF Settled
<1>3. ASSUME NEW m, RecordOK(m), NEW d \in Replica PROVE RecordOK(m)'
  <2>1. m.sid = co'[Home].sid /\ m.ids = recset'[Home][co'[Home].sid]
    BY <1>1, <1>3 DEF RecordOK
  <2>2. \A c \in m.ids : c \in m.missing \/ Held(Home, c)' \/ InLog(c)'
    BY <1>3 DEF RecordOK, Growing
  <2> QED
    BY <2>1, <2>2 DEF RecordOK
<1>4. ASSUME NEW m \in co[Home].rec PROVE RecOK(m)'
  <2>1. RecOK(m) /\ m.from \in Replica
    BY <1>1 DEF SecondRoundOK, OnePer
  <2>2. Closed(m.from)'
    BY <2>1 DEF RecOK, Growing
  <2>3. \A x \in Elems(chan'[Home][m.from]) : x.type # "Record"
    BY <2>1 DEF RecOK, NoneOf
  <2>4. \A w \in Writes \cap recset[Home][co[Home].sid] :
          FirstPromise(w, m.from)' => w \in m.cmds \/ Held(Home, w)' \/ InLog(w)'
    BY <2>1 DEF RecOK, Growing
  <2> QED
    BY <1>1, <2>2, <2>3, <2>4 DEF RecOK, NoneOf
<1>5. /\ co'[Home].prep_ok /\ co'[Home].propose = co'[Home].sid
      /\ co'[Home].sid \in DOMAIN recset'[Home]
      /\ \A m \in co'[Home].accept : m.ok
  BY <1>1 DEF SecondRoundOK
<1>6. \A d \in Replica : \A m \in Elems(chan'[Home][d]) : m.type = "Record" => RecordOK(m)'
  BY <1>1, <1>3 DEF SecondRoundOK
<1>7. OnePer(co'[Home].rec) /\ \A m \in co'[Home].rec : RecOK(m)'
  BY <1>4
<1> QED
  BY <1>2, <1>5, <1>6, <1>7 DEF SecondRoundOK, OnePer

--------------------------------------------------------------------------------
(* The fields that clients and the original protocol leave alone.           *)
SameFields ==
  /\ UNCHANGED <<chan, fin, recset, elections>>
  /\ \A r \in Replica :
       /\ srv'[r].status = srv[r].status /\ srv'[r].je = srv[r].je /\ srv'[r].oe = srv[r].oe
       /\ srv'[r].view = srv[r].view /\ srv'[r].trig = srv[r].trig
       /\ srv'[r].ballot = srv[r].ballot /\ srv'[r].abal = srv[r].abal
       /\ co'[r].pc = co[r].pc /\ co'[r].run = co[r].run /\ co'[r].pull = co[r].pull
       /\ co'[r].prep = co[r].prep /\ co'[r].rec = co[r].rec /\ co'[r].accept = co[r].accept
       /\ co'[r].sid = co[r].sid /\ co'[r].propose = co[r].propose
       /\ co'[r].prep_ok = co[r].prep_ok

(* A step of a client or of the original protocol.                          *)
LEMMA QuietStep ==
  ASSUME RInv, HInv, Growing, SameFields, Kept',
         elections = 1 /\ Home \in up' => Home \in isl',
         \A c : Held(Home, c) => Held(Home, c)' \/ InLog(c)',
         \A c \in co[Home].todo : c \in co'[Home].todo \/ InLog(c)'
  PROVE  HInv'
<1>1. Home \in Replica
  BY FieldTypes
<1>2. Alone' /\ Stage'
  BY <1>1 DEF HInv, Alone, Stage, SameFields
<1>3. Unfinished' <=> Unfinished
  BY <1>1 DEF Unfinished, SameFields
<1>4. \A r \in Replica : Closed(r)' <=> Closed(r)
  BY DEF Closed, SameFields
<1>5. Queues'
  <2>1. ASSUME NEW d \in Replica, NEW m PROVE RequestOK(m, d)' <=> RequestOK(m, d)
    BY <1>1, <1>3 DEF RequestOK, SameFields
  <2>2. ASSUME NEW d \in Replica
        PROVE  /\ Ordered(chan'[Home][d])
               /\ \A m \in Elems(chan'[Home][d]) : RequestOK(m, d)'
               /\ co'[Home].run > 0 /\ NoneOf(chan'[Home][d], "Pull") => Closed(d)'
    BY <1>1, <1>4, <2>1 DEF HInv, Queues, SameFields
  <2> QED
    BY <2>2 DEF Queues, NoneOf, Ordered, Elems
<1>6. Numbers'
  BY <1>1, <1>3 DEF HInv, Numbers, SameFields
<1>7. FirstRoundOK'
  <2>1. co'[Home].pc = "round1" => co[Home].pc = "round1" /\ OnePer(co'[Home].pull)
    BY <1>1 DEF HInv, FirstRoundOK, SameFields
  <2> QED
    BY <1>1, <2>1, FirstRoundKept DEF HInv, SameFields
<1>8. SecondRoundOK'
  <2>1. co'[Home].pc = "round2" => OnePer(co'[Home].rec) /\ co[Home].sid \in DOMAIN recset'[Home]
    BY <1>1 DEF HInv, SecondRoundOK, SameFields
  <2> QED
    BY <1>1, <2>1, SecondRoundKept DEF HInv, SameFields
<1>9. LaterOK'
  <2>1. ASSUME co'[Home].pc = "resubmit" PROVE Settled(co[Home].todo)'
    <3>1. PICK S : S = co[Home].todo
      OBVIOUS
    <3>2. PICK T : T = co'[Home].todo
      OBVIOUS
    <3>3. Settled(S) /\ \A c \in S : c \in T \/ InLog(c)'
      BY <1>1, <2>1, <3>1, <3>2 DEF HInv, LaterOK, SameFields
    <3>4. Settled(T)'
      BY <3>3, SettledKept
    <3> QED
      BY <3>2, <3>4 DEF Settled
  <2>2. ~Unfinished' => Settled({})'
    BY <1>3, SettledKept DEF HInv, LaterOK
  <2> QED
    BY <2>1, <2>2 DEF LaterOK
<1> QED
  BY <1>2, <1>5, <1>6, <1>7, <1>8, <1>9 DEF HInv

--------------------------------------------------------------------------------
(* Nothing was promised and Home's epochs are the largest.                  *)
LEMMA InitHome ==
  ASSUME HomeEpochsLead, Init
  PROVE  HInv
<1>1. RInv /\ Home \in Replica
  BY InitTypes, FieldTypes
<1>2. PICK je \in [Replica -> 0 .. MaxEpoch], oe \in [Replica -> 0 .. MaxEpoch] :
        /\ \A r \in Replica : {je[r], oe[r]} \subseteq InitEpochs[r]
        /\ srv = [r \in Replica |-> Server(je[r], oe[r])]
  BY DEF Init
<1>3. \A r \in Replica : je[r] <= je[Home] /\ oe[r] <= oe[Home]
  <2>1. MaxEpoch \in Nat
    BY RecoveryAssumption DEF RecoveryAssumption
  <2>2. je[Home] \in Int /\ oe[Home] \in Int /\ je[Home] <= je[Home] /\ oe[Home] <= oe[Home]
    BY <1>1, <2>1
  <2>3. ASSUME NEW r \in Replica, r # Home PROVE je[r] <= je[Home] /\ oe[r] <= oe[Home]
    BY <1>1, <1>2, <2>3 DEF HomeEpochsLead
  <2> QED
    BY <2>2, <2>3
<1>4. \A r \in Replica : /\ srv[r].je = je[r] /\ srv[r].oe = oe[r] /\ srv[r].trig = FALSE
                         /\ srv[r].ballot = -1 /\ srv[r].abal = -1
  BY <1>2 DEF Server
<1>5. /\ \A r \in Replica : co[r].pc = "idle" /\ co[r].run = 0 /\ fin[r] = 0
      /\ \A s, d \in Replica : chan[s][d] = << >>
      /\ elections = 0 /\ acc = {} /\ fin \in [Replica -> {0, 1}]
  BY DEF Init, Idle
<1>6. Elems(<< >>) = {} /\ Ordered(<< >>)
  BY DEF Elems, Ordered
<1>7. Alone /\ Stage
  BY <1>1, <1>4, <1>5 DEF Alone, Stage
<1>8. Queues
  BY <1>1, <1>5, <1>6 DEF Queues
<1>9. Numbers
  BY <1>1, <1>3, <1>4, <1>5 DEF Numbers
<1>10. Kept
  BY <1>5 DEF Kept, LastPromise
<1>11. FirstRoundOK /\ SecondRoundOK /\ LaterOK
  BY <1>1, <1>5 DEF FirstRoundOK, SecondRoundOK, LaterOK, Unfinished
<1> QED
  BY <1>7, <1>8, <1>9, <1>10, <1>11 DEF HInv

(* What is in the log stays there.                                          *)
LEMMA LogGrows ==
  ASSUME log \in Seq(Cmd), NEW c \in Cmd, log' = Append(log, c)
  PROVE  InLog(c)' /\ \A x : InLog(x) => InLog(x)'
<1>1. /\ Len(log) \in Nat /\ Len(log') = Len(log) + 1 /\ log'[Len(log) + 1] = c
      /\ \A i \in 1 .. Len(log) : log'[i] = log[i] /\ i \in 1 .. Len(log')
      /\ Len(log) + 1 \in 1 .. Len(log')
  OBVIOUS
<1> QED
  BY <1>1 DEF InLog

(* A promise is named as soon as it is made.                                *)
LEMMA SpecExecHome ==
  ASSUME RInv, HInv, NEW c \in Cmd, NEW r \in Replica, SpecExec(c, r)
  PROVE  HInv'
<1> USE PoolAssumption
<1>1. srv \in [Replica -> Fields] /\ PoolOK(srv[r].pool) /\ srv[r] \in Fields /\ Home \in Replica
  BY FieldTypes
<1>2. UNCHANGED <<up, isl, log, co, chan, fin, recset, elections>>
  BY DEF SpecExec, baseVars, setVars
<1>3. /\ \A x : InLog(x)' <=> InLog(x)
      /\ fin \in [Replica -> {0, 1}] /\ \A a \in acc : a.gen <= fin[a.from]
      /\ acc \subseteq [cmd: Cmd, from: Replica, gen: Nat, ldr: BOOLEAN]
  BY <1>2 DEF InLog, HInv, Kept
<1> DEFINE p == PoolPush(srv[r].pool, c)
           a == [cmd |-> c, from |-> r, gen |-> fin[r], ldr |-> r \in isl]
           v == [srv[r] EXCEPT !.pool = p]
<1>4. CASE srv[r].status = "RECOVERY"
  <2>1. UNCHANGED <<srv, acc>>
    BY <1>4 DEF SpecExec
  <2>2. Growing /\ SameFields /\ Kept'
    BY <1>2, <1>3, <2>1 DEF Growing, Closed, FirstPromise, SameFields, Kept, HInv, LastPromise
  <2>3. \A x : Held(Home, x) => Held(Home, x)'
    BY <2>1 DEF Held
  <2> QED
    BY <1>2, <2>2, <2>3, QuietStep DEF HInv, Stage
<1>5. CASE srv[r].status # "RECOVERY"
  <2>1. /\ srv' = [srv EXCEPT ![r] = v]
        /\ acc' = IF PushOk(srv[r].pool, c) THEN acc \cup {a} ELSE acc
    BY <1>1, <1>5 DEF SpecExec
  <2>2. /\ v.pool = p /\ v.status = srv[r].status /\ v.je = srv[r].je /\ v.oe = srv[r].oe
        /\ v.view = srv[r].view /\ v.trig = srv[r].trig /\ v.ballot = srv[r].ballot
        /\ v.abal = srv[r].abal
    BY <1>1 DEF Fields, ServerRecord
  <2>3. /\ a \in [cmd: Cmd, from: Replica, gen: Nat, ldr: BOOLEAN]
        /\ a.cmd = c /\ a.from = r /\ a.gen = fin[r] /\ a.gen <= fin[r]
    BY <1>3
  <2>4. Tracked(p) = Tracked(srv[r].pool) \cup {c}
    BY <1>1, TrackedPush
  <2>5. \A w \in Cmd : Names(srv[r].pool, w) => Names(p, w)
    BY <1>1, NamesPush
  <2>6. c \in Writes /\ PushOk(srv[r].pool, c) => Names(p, c)
    BY <1>1, NamesPush
  <2> HIDE DEF p, a, v
  <2>7. \A q \in Replica : srv'[q] = IF q = r THEN v ELSE srv[q]
    BY <1>1, <2>1
  <2>8. SameFields
    BY <1>2, <2>2, <2>7 DEF SameFields
  <2>9. \A q \in Replica : Closed(q)' <=> Closed(q)
    BY <1>2, <2>2, <2>7 DEF Closed
  <2>10. ASSUME NEW w, NEW q \in Replica, FirstPromise(w, q)'
         PROVE  FirstPromise(w, q) \/ ~Closed(q)
    <3>1. PICK b \in acc' : b.cmd = w /\ b.from = q /\ b.gen = 0
      BY <2>10 DEF FirstPromise
    <3>2. CASE b \in acc
      BY <3>1, <3>2 DEF FirstPromise
    <3>3. CASE b = a
      BY <1>3, <1>5, <2>3, <3>1, <3>3 DEF Closed
    <3> QED
      BY <2>1, <3>1, <3>2, <3>3
  <2>11. Growing
    BY <1>3, <2>9, <2>10 DEF Growing
  <2>12. \A q \in Replica : \A w \in Writes :
           LastPromise(w, q)' => InLog(w)' \/ Names(srv'[q].pool, w)
    <3> SUFFICES ASSUME NEW q \in Replica, NEW w \in Writes, LastPromise(w, q)'
                 PROVE  InLog(w) \/ Names(srv'[q].pool, w)
      BY <1>3
    <3>1. PICK b \in acc' : b.cmd = w /\ b.from = q /\ b.gen = fin[q]
      BY <1>2 DEF LastPromise
    <3>2. CASE b \in acc
      <4>1. InLog(w) \/ Names(srv[q].pool, w)
        BY <3>1, <3>2 DEF LastPromise, HInv, Kept
      <4> QED
        BY <2>2, <2>5, <2>7, <4>1
    <3>3. CASE b \notin acc
      BY <2>1, <2>2, <2>3, <2>6, <2>7, <3>1, <3>3
    <3> QED
      BY <3>2, <3>3
  <2>13. Kept'
    <3>1. acc' \subseteq [cmd: Cmd, from: Replica, gen: Nat, ldr: BOOLEAN]
      BY <1>3, <2>1, <2>3
    <3>2. \A b \in acc' : b.gen <= fin'[b.from]
      BY <1>2, <1>3, <2>1, <2>3
    <3> QED
      BY <1>2, <1>3, <2>12, <3>1, <3>2 DEF Kept
  <2>14. \A x : Held(Home, x) => Held(Home, x)'
    BY <1>1, <2>2, <2>4, <2>7 DEF Held
  <2> QED
    BY <1>2, <2>8, <2>11, <2>13, <2>14, QuietStep DEF HInv, Stage
<1> QED
  BY <1>4, <1>5

(* A dispatched command changes nothing of the recovery.                    *)
LEMMA DispatchHome ==
  ASSUME RInv, HInv, NEW c \in Cmd, Dispatch(c)
  PROVE  HInv'
<1>1. UNCHANGED <<up, isl, log, srv, co, chan, fin, recset, elections, acc>>
  BY DEF Dispatch, setVars
<1>2. Growing /\ SameFields /\ Kept' /\ \A x : Held(Home, x) => Held(Home, x)'
  BY <1>1 DEF Growing, InLog, Closed, FirstPromise, SameFields, HInv, Kept, LastPromise, Held
<1> QED
  BY <1>1, <1>2, QuietStep DEF HInv, Stage

(* What a recovery no longer waits for is in the log.                       *)
LEMMA BaseCommitHome ==
  ASSUME RInv, HInv, BaseCommit
  PROVE  HInv'
<1>1. UNCHANGED <<up, isl, srv, chan, fin, recset, elections, acc>>
  BY DEF BaseCommit, clientVars, setVars
<1>2. PICK e : e = Head(pend)
  OBVIOUS
<1>3. e \in Entry /\ e.cmd \in Cmd
  <2>1. pend \in Seq(Entry) /\ pend # << >>
    BY DEF RInv, Types, BaseOK, BaseCommit
  <2>2. e \in Entry
    BY <1>2, <2>1, ElemsTail
  <2> QED
    BY <2>2 DEF Entry
<1>4. /\ log' = Append(log, e.cmd)
      /\ \/ co' = co
         \/ e.from \in Replica /\ co' = [co EXCEPT ![e.from].todo = @ \ {e.cmd}]
  BY <1>2 DEF BaseCommit
<1>5. InLog(e.cmd)' /\ \A x : InLog(x) => InLog(x)'
  BY <1>3, <1>4, FieldTypes, LogGrows
<1>6. \A r \in Replica :
        /\ co'[r].pc = co[r].pc /\ co'[r].run = co[r].run /\ co'[r].pull = co[r].pull
        /\ co'[r].prep = co[r].prep /\ co'[r].rec = co[r].rec /\ co'[r].accept = co[r].accept
        /\ co'[r].sid = co[r].sid /\ co'[r].propose = co[r].propose
        /\ co'[r].prep_ok = co[r].prep_ok
        /\ \A x \in co[r].todo : x \in co'[r].todo \/ x = e.cmd
  <2>1. co \in [Replica -> Coro]
    BY FieldTypes DEF Coroutines
  <2>2. CASE co' = co
    BY <2>2
  <2>3. CASE e.from \in Replica /\ co' = [co EXCEPT ![e.from].todo = @ \ {e.cmd}]
    BY <2>1, <2>3 DEF Coro
  <2> QED
    BY <1>4, <2>2, <2>3
<1>7. Growing /\ SameFields
  BY <1>1, <1>5, <1>6 DEF Growing, Closed, FirstPromise, SameFields
<1>8. Kept'
  BY <1>1, <1>5 DEF HInv, Kept, LastPromise
<1>9. \A x : Held(Home, x) => Held(Home, x)'
  BY <1>1 DEF Held
<1>10. \A x \in co[Home].todo : x \in co'[Home].todo \/ InLog(x)'
  BY <1>5, <1>6, FieldTypes
<1> QED
  BY <1>1, <1>7, <1>8, <1>9, <1>10, QuietStep DEF HInv, Stage

(* Only what is in the log is collected.                                    *)
LEMMA ApplyHome ==
  ASSUME RInv, HInv, NEW r \in Replica, Apply(r)
  PROVE  HInv'
<1>1. /\ srv \in [Replica -> Fields] /\ PoolOK(srv[r].pool) /\ srv[r] \in Fields
      /\ Home \in Replica /\ log \in Seq(Cmd)
  BY FieldTypes
<1>2. UNCHANGED <<up, isl, log, co, chan, fin, recset, elections, acc>>
  BY DEF Apply, clientVars, setVars
<1>3. PICK c \in Cmd : c = log[exec[r] + 1] /\ InLog(c)
  <2>1. exec[r] \in Nat /\ exec[r] < Len(log)
    BY DEF RInv, Types, BaseOK, Apply
  <2>2. exec[r] + 1 \in 1 .. Len(log)
    BY <1>1, <2>1
  <2> QED
    BY <1>1, <2>2 DEF InLog
<1> DEFINE p == PoolRemove(srv[r].pool, c)
           v == [srv[r] EXCEPT !.pool = p]
<1>4. srv' = [srv EXCEPT ![r] = v]
  BY <1>1, <1>3 DEF Apply
<1>5. /\ v.pool = p /\ v.status = srv[r].status /\ v.je = srv[r].je /\ v.oe = srv[r].oe
      /\ v.view = srv[r].view /\ v.trig = srv[r].trig /\ v.ballot = srv[r].ballot
      /\ v.abal = srv[r].abal
  BY <1>1 DEF Fields, ServerRecord
<1>6. Tracked(p) = Tracked(srv[r].pool) \ {c}
  BY <1>1, TrackedRemove
<1>7. \A w \in Writes : Names(srv[r].pool, w) => Names(p, w) \/ w = c
  <2>1. \A w \in Writes : w \in Cmd
    BY PoolAssumption DEF PoolAssumption
  <2> QED
    BY <1>1, NamesRemove
<1> HIDE DEF p, v
<1>8. \A q \in Replica : srv'[q] = IF q = r THEN v ELSE srv[q]
  BY <1>1, <1>4
<1>9. \A x : InLog(x)' <=> InLog(x)
  BY <1>2 DEF InLog
<1>10. Growing /\ SameFields
  BY <1>2, <1>5, <1>8, <1>9 DEF Growing, Closed, FirstPromise, SameFields
<1>11. Kept'
  <2>1. ASSUME NEW q \in Replica, NEW w \in Writes, LastPromise(w, q)'
        PROVE  InLog(w)' \/ Names(srv'[q].pool, w)
    <3>1. InLog(w) \/ Names(srv[q].pool, w)
      BY <1>2, <2>1 DEF LastPromise, HInv, Kept
    <3> QED
      BY <1>3, <1>5, <1>7, <1>8, <1>9, <3>1
  <2> QED
    BY <1>2, <2>1 DEF HInv, Kept
<1>12. \A x : Held(Home, x) => Held(Home, x)' \/ InLog(x)'
  BY <1>1, <1>3, <1>5, <1>6, <1>8, <1>9 DEF Held
<1> QED
  BY <1>2, <1>10, <1>11, <1>12, QuietStep DEF HInv, Stage

(* Home, once elected, does not step down.                                  *)
LEMMA StepDownHome ==
  ASSUME RInv, HInv, OnlyHomeElected, NEW r \in Replica, StepDown(r)
  PROVE  HInv'
<1>1. /\ UNCHANGED <<up, log, srv, co, chan, fin, recset, elections, acc>>
      /\ r # leader /\ isl' = isl \ {r}
  BY DEF StepDown, clientVars, setVars
<1>2. Growing /\ SameFields /\ Kept' /\ \A x : Held(Home, x) => Held(Home, x)'
  BY <1>1 DEF Growing, InLog, Closed, FirstPromise, SameFields, HInv, Kept, LastPromise, Held
<1>3. elections = 1 /\ Home \in up' => Home \in isl'
  BY <1>1 DEF HInv, Stage, OnlyHomeElected
<1> QED
  BY <1>1, <1>2, <1>3, QuietStep

(* A crash takes no promise back.                                           *)
LEMMA CrashHome ==
  ASSUME RInv, HInv, NEW r \in Replica, Crash(r)
  PROVE  HInv'
<1>1. /\ UNCHANGED <<log, srv, co, chan, fin, recset, elections, acc>>
      /\ up' = up \ {r} /\ isl' = isl \ {r}
  BY DEF Crash, clientVars, setVars
<1>2. Growing /\ SameFields /\ Kept' /\ \A x : Held(Home, x) => Held(Home, x)'
  BY <1>1 DEF Growing, InLog, Closed, FirstPromise, SameFields, HInv, Kept, LastPromise, Held
<1>3. elections = 1 /\ Home \in up' => Home \in isl'
  BY <1>1 DEF HInv, Stage
<1> QED
  BY <1>1, <1>2, <1>3, QuietStep

--------------------------------------------------------------------------------
(* Home is elected once, before any recovery.                               *)
LEMMA ElectHome ==
  ASSUME RInv, HInv, OnlyHomeElected', NEW r \in Replica, Elect(r)
  PROVE  HInv'
<1>1. /\ srv \in [Replica -> Fields] /\ elections \in Nat /\ Home \in Replica
      /\ co[Home].run \in Nat
  BY FieldTypes
<1>2. /\ UNCHANGED <<up, log, co, chan, fin, recset, acc>>
      /\ elections' = elections + 1 /\ leader' = r /\ isl' = isl \cup {r}
      /\ srv' = [srv EXCEPT ![r].view = r, ![r].trig = TRUE]
  BY DEF Elect, clientVars, setVars
<1>3. elections = 0 /\ elections' = 1 /\ r = Home
  BY <1>1, <1>2 DEF OnlyHomeElected
<1> DEFINE v == [srv[Home] EXCEPT !.view = Home, !.trig = TRUE]
<1>4. /\ v.status = srv[Home].status /\ v.je = srv[Home].je /\ v.oe = srv[Home].oe
      /\ v.view = Home /\ v.pool = srv[Home].pool /\ v.ballot = srv[Home].ballot
      /\ v.abal = srv[Home].abal
  BY <1>1 DEF Fields, ServerRecord
<1>5. srv' = [srv EXCEPT ![Home] = v]
  BY <1>1, <1>2, <1>3
<1> HIDE DEF v
<1>6. \A q \in Replica : srv'[q] = IF q = Home THEN v ELSE srv[q]
  BY <1>1, <1>5
<1>7. /\ co[Home].run = 0 /\ co[Home].pc = "idle"
      /\ \A d \in Replica : chan[Home][d] = << >>
  BY <1>1, <1>3 DEF HInv, Stage
<1>8. Unfinished /\ Unfinished'
  BY <1>2, <1>7 DEF Unfinished
<1>9. Alone' /\ Stage'
  <2>1. Alone'
    BY <1>2, <1>6 DEF HInv, Alone
  <2>2. Stage'
    BY <1>1, <1>2, <1>3, <1>4, <1>6, <1>7 DEF Stage
  <2> QED
    BY <2>1, <2>2
<1>10. Queues'
  BY <1>2, <1>7 DEF Queues, Ordered, Elems
<1>11. Numbers'
  BY <1>1, <1>2, <1>4, <1>6, <1>7, <1>8 DEF HInv, Numbers
<1>12. Kept'
  <2>1. \A x : InLog(x)' <=> InLog(x)
    BY <1>2 DEF InLog
  <2>2. \A q \in Replica : srv'[q].pool = srv[q].pool
    BY <1>4, <1>6
  <2> QED
    BY <1>2, <2>1, <2>2 DEF HInv, Kept, LastPromise
<1>13. FirstRoundOK' /\ SecondRoundOK' /\ LaterOK'
  BY <1>2, <1>7, <1>8 DEF FirstRoundOK, SecondRoundOK, LaterOK
<1> QED
  BY <1>9, <1>10, <1>11, <1>12, <1>13 DEF HInv

--------------------------------------------------------------------------------
(* What a broadcast leaves on each connection.                              *)
LEMMA BroadcastAt ==
  ASSUME RInv, NEW msgs \in Seq(Msg)
  PROVE  \A s, d \in Replica :
           Broadcast(Home, msgs)[s][d] =
             IF s = Home THEN chan[s][d] \o msgs ELSE chan[s][d]
<1>1. chan \in [Replica -> [Replica -> Seq(Msg)]] /\ Home \in Replica
  BY FieldTypes
<1> QED
  BY <1>1 DEF Broadcast

(* Home starts its only recovery.                                           *)
LEMMA StartRecoveryHome ==
  ASSUME RInv, HInv, StartRecovery(Home)
  PROVE  HInv'
<1> DEFINE s == srv[Home]
           v == [s EXCEPT !.trig = FALSE, !.status = "RECOVERY"]
           k == FirstRound(co[Home])
           pull == [type |-> "Pull", run |-> co[Home].run + 1, je |-> s.je, oe |-> s.oe,
                    view |-> s.view]
           prepare == [type |-> "Prepare", run |-> co[Home].run + 1, je |-> s.je, oe |-> s.oe,
                       bal |-> s.ballot]
<1>1. /\ srv \in [Replica -> Fields] /\ co \in [Replica -> Coroutines] /\ Home \in Replica
      /\ s \in Fields /\ co[Home] \in Coroutines /\ co[Home].run \in Nat
      /\ chan \in [Replica -> [Replica -> Seq(Msg)]]
      /\ \A r \in Replica : srv[r].je \in Int /\ srv[r].oe \in Int
  BY FieldTypes
<1>2. /\ UNCHANGED <<up, isl, log, elections, recset, fin, acc>> /\ s.trig
      /\ srv' = [srv EXCEPT ![Home] = v]
      /\ co' = [co EXCEPT ![Home] = k]
      /\ chan' = Broadcast(Home, <<pull, prepare>>)
  BY <1>1 DEF StartRecovery, FirstRound, baseVars, clientVars, setVars
<1>3. /\ v.status = "RECOVERY" /\ v.je = s.je /\ v.oe = s.oe /\ v.trig = FALSE
      /\ v.view = s.view /\ v.pool = s.pool /\ v.ballot = s.ballot
      /\ v.abal = s.abal
  BY <1>1 DEF Fields, ServerRecord
<1>4. k.pc = "round1" /\ k.run = co[Home].run + 1 /\ k.pull = {} /\ k.prep = {}
  BY DEF FirstRound, Idle
<1>5. /\ elections = 1 /\ co[Home].run = 0 /\ s.view = Home
      /\ \A d \in Replica : chan[Home][d] = << >>
  BY <1>1, <1>2 DEF HInv, Stage
<1>6. s.ballot = -1
  BY <1>1, <1>5 DEF HInv, Numbers
<1>7. pull \in Msg /\ prepare \in Msg
  <2>1. s.je \in Epoch /\ s.oe \in Epoch /\ s.view \in Replica /\ s.ballot \in Int
    <3>1. s \in Fields
      BY <1>1
    <3> QED
      BY <3>1 DEF Fields, ServerRecord
  <2>a. co[Home].run + 1 \in Nat
    BY <1>1
  <2>2. pull \in PullMsg /\ prepare \in PrepareMsg
    BY <2>1, <2>a DEF PullMsg, PrepareMsg
  <2> QED
    BY <2>2 DEF Msg
<1>8. /\ pull.type = "Pull" /\ pull.je = s.je /\ pull.oe = s.oe /\ pull.view = Home
      /\ prepare.type = "Prepare" /\ prepare.je = s.je /\ prepare.oe = s.oe
      /\ prepare.bal = -1
  BY <1>5, <1>6
<1> HIDE DEF v, k, pull, prepare
<1>9. PICK x \in Msg, y \in Msg : x = pull /\ y = prepare
  BY <1>7
<1>a. <<x, y>> \in Seq(Msg) /\ Elems(<<x, y>>) = {x, y} /\ Ordered(<<x, y>>)
  BY <1>8, <1>9, OneTwo, OrderedFew
<1>10. /\ \A d \in Replica : chan'[Home][d] = <<x, y>>
       /\ \A r \in Replica \ {Home} : \A d \in Replica : chan'[r][d] = chan[r][d]
  <2>1. PICK msgs \in Seq(Msg) : msgs = <<x, y>>
    BY <1>a
  <2>2. chan' = Broadcast(Home, msgs)
    BY <1>2, <1>9, <2>1
  <2>3. /\ \A d \in Replica : chan'[Home][d] = chan[Home][d] \o msgs
        /\ \A r \in Replica \ {Home} : \A d \in Replica : chan'[r][d] = chan[r][d]
    BY <1>1, <2>2, BroadcastAt
  <2>4. << >> \o msgs = msgs
    OBVIOUS
  <2> QED
    BY <1>5, <2>1, <2>3, <2>4
<1>11. /\ \A q \in Replica : srv'[q] = IF q = Home THEN v ELSE srv[q]
       /\ \A q \in Replica : co'[q] = IF q = Home THEN k ELSE co[q]
  BY <1>1, <1>2
<1>12. Unfinished /\ Unfinished'
  BY <1>1, <1>4, <1>5, <1>11 DEF Unfinished
<1>13. Alone' /\ Stage'
  <2>1. Alone'
    BY <1>10, <1>11 DEF HInv, Alone
  <2>2. Home \in up => Home \in isl
    BY <1>5 DEF HInv, Stage
  <2>3. Stage'
    BY <1>1, <1>2, <1>3, <1>4, <1>5, <1>11, <2>2 DEF Stage
  <2> QED
    BY <2>1, <2>3
<1>14. Numbers'
  BY <1>1, <1>2, <1>3, <1>5, <1>11, <1>12 DEF HInv, Numbers
<1>15. Queues'
  <2> SUFFICES ASSUME NEW d \in Replica
               PROVE  /\ Ordered(chan'[Home][d])
                      /\ \A m \in Elems(chan'[Home][d]) : RequestOK(m, d)'
                      /\ ~NoneOf(chan'[Home][d], "Pull")
    BY DEF Queues, NoneOf, Ordered, Elems
  <2>1. s.je >= srv'[d].je /\ srv'[Home].oe = s.oe
    BY <1>1, <1>3, <1>11, <1>12 DEF HInv, Numbers
  <2>2. RequestOK(x, d)' /\ RequestOK(y, d)'
    BY <1>8, <1>9, <2>1 DEF RequestOK
  <2> QED
    BY <1>8, <1>9, <1>10, <1>a, <2>2 DEF NoneOf
<1>16. Kept'
  <2>1. \A c : InLog(c)' <=> InLog(c)
    BY <1>2 DEF InLog
  <2>2. \A q \in Replica : srv'[q].pool = srv[q].pool
    BY <1>3, <1>11
  <2> QED
    BY <1>2, <2>1, <2>2 DEF HInv, Kept, LastPromise
<1>17. FirstRoundOK' /\ SecondRoundOK' /\ LaterOK'
  BY <1>1, <1>4, <1>11, <1>12 DEF FirstRoundOK, SecondRoundOK, LaterOK, OnePer
<1> QED
  BY <1>13, <1>14, <1>15, <1>16, <1>17 DEF HInv

--------------------------------------------------------------------------------
(* What the coroutine's steps leave of the replicas' fields.                *)
SameServers ==
  \A r \in Replica :
    /\ srv'[r].status = srv[r].status /\ srv'[r].je = srv[r].je /\ srv'[r].oe = srv[r].oe
    /\ srv'[r].view = srv[r].view /\ srv'[r].trig = srv[r].trig
    /\ srv'[r].pool = srv[r].pool

(* t[d] is put behind what is on its way to d.                              *)
Sends(t) ==
  \A r, d \in Replica :
    chan'[r][d] = IF r = Home THEN chan[r][d] \o t[d] ELSE chan[r][d]

(* Home's coroutine goes on to the second round or beyond, and sends t.     *)
LEMMA CoroutineSends ==
  ASSUME RInv, HInv, Unfinished, co[Home].run > 0, SameServers,
         UNCHANGED <<up, isl, log, elections, fin, acc>>,
         NEW k, co' = [co EXCEPT ![Home] = k], k.run = co[Home].run,
         k.pc \in {"round2", "resubmit", "finish"},
         NEW t \in [Replica -> Seq(Msg)], Sends(t),
         \A d \in Replica :
           /\ Ordered(t[d])
           /\ \A m \in Elems(t[d]) :
                /\ m.type # "Pull" /\ RequestOK(m, d)'
                /\ m.type = "Record" => co[Home].pc = "round1"
  PROVE  Alone' /\ Stage' /\ Queues' /\ Kept' /\ Growing
<1>1. /\ co \in [Replica -> Coroutines] /\ Home \in Replica
      /\ chan \in [Replica -> [Replica -> Seq(Msg)]] /\ co[Home].run \in Nat
  BY FieldTypes
<1>2. \A r \in Replica : co'[r] = IF r = Home THEN k ELSE co[r]
  BY <1>1
<1>3. Alone'
  BY <1>2 DEF HInv, Alone, SameServers, Sends
<1>4. Stage'
  BY <1>1, <1>2 DEF HInv, Stage, SameServers
<1>5. \A r \in Replica : Closed(r)' <=> Closed(r)
  BY DEF Closed, SameServers
<1>6. Queues'
  <2> SUFFICES ASSUME NEW d \in Replica
               PROVE  /\ Ordered(chan'[Home][d])
                      /\ \A m \in Elems(chan'[Home][d]) : RequestOK(m, d)'
                      /\ NoneOf(chan'[Home][d], "Pull") => Closed(d)'
    BY DEF Queues, NoneOf, Ordered, Elems
  <2>1. PICK p \in Seq(Msg), q \in Seq(Msg) : p = chan[Home][d] /\ q = t[d]
    BY <1>1
  <2>2. /\ chan'[Home][d] = p \o q /\ Elems(p \o q) = Elems(p) \cup Elems(q)
    <3>1. Elems(p \o q) = Elems(p) \cup Elems(q)
      BY ElemsConcat
    <3>2. chan'[Home][d] = p \o q
      BY <1>1, <2>1 DEF Sends
    <3> QED
      BY <3>1, <3>2
  <2>3. /\ Ordered(p) /\ Ordered(q) /\ NoneOf(q, "Pull")
        /\ \A m \in Elems(p) : RequestOK(m, d)
    BY <2>1 DEF HInv, Queues, NoneOf
  <2>4. NoneOf(p, "Finish")
    BY <2>3 DEF NoneOf, RequestOK
  <2>5. NoneOf(p, "Record") \/ NoneOf(q, "Record")
    BY <2>1, <2>3 DEF NoneOf, RequestOK
  <2>6. Ordered(p \o q)
    BY <2>3, <2>4, <2>5, OrderedConcat
  <2>7. ASSUME NEW m \in Elems(p) PROVE RequestOK(m, d)'
    <3>1. RequestOK(m, d) /\ m.type # "Finish"
      BY <2>3, <2>4 DEF NoneOf
    <3>2. co'[Home].pc # "round1"
      BY <1>1, <1>2
    <3> QED
      BY <1>1, <3>1, <3>2 DEF RequestOK, SameServers
  <2>8. NoneOf(p \o q, "Pull") => Closed(d)
    <3>1. NoneOf(p \o q, "Pull") => NoneOf(p, "Pull")
      BY <2>2 DEF NoneOf
    <3> QED
      BY <2>1, <3>1 DEF HInv, Queues
  <2> QED
    BY <1>5, <2>1, <2>2, <2>6, <2>7, <2>8
<1>7. \A c : InLog(c)' <=> InLog(c)
  BY DEF InLog
<1>8. Kept'
  BY <1>7 DEF HInv, Kept, LastPromise, SameServers
<1>9. Growing
  BY <1>5, <1>7 DEF Growing, FirstPromise
<1> QED
  BY <1>3, <1>4, <1>6, <1>8, <1>9

(* No replica refuses: an event whose replies are all Yes has not failed.   *)
LEMMA AllYes ==
  ASSUME NEW S, \A m \in S : m.ok
  PROVE  ~No(S)
<1>1. {m \in S : ~m.ok} = {}
  OBVIOUS
<1>2. Cardinality({m \in S : ~m.ok}) = 0
  BY <1>1, FS_EmptySet
<1> QED
  BY <1>2, QuorumFacts DEF No

(* Home's first round does not fail, and no earlier recovery has accepted a *)
(* sid.                                                                     *)
LEMMA FirstRoundReady ==
  ASSUME HInv, NEW P \in SUBSET co[Home].pull, NEW R \in SUBSET co[Home].prep,
         Round1Replies(Home, P, R)
  PROVE  /\ Yes(P) /\ Yes(R) /\ OnePer(P) /\ \A m \in P : PullOK(m)
         /\ \A sid : ProposeSids(R, sid) = {sid}
<1>1. /\ OnePer(co[Home].pull) /\ \A m \in co[Home].pull : PullOK(m)
      /\ \A m \in co[Home].prep : m.ok /\ m.abal = -1
  BY DEF HInv, FirstRoundOK, Round1Replies
<1>2. OnePer(P) /\ \A m \in P : PullOK(m) /\ m.ok
  BY <1>1 DEF OnePer, PullOK
<1>3. Yes(P) /\ Yes(R)
  BY <1>1, <1>2, AllYes DEF Round1Replies, IsReady
<1>4. {m \in R : m.ok /\ m.abal > -1} = {}
  BY <1>1
<1>5. \A sid : ProposeSids(R, sid) = {sid}
  BY <1>4 DEF ProposeSids
<1> QED
  BY <1>2, <1>3, <1>5

(* What the first round recovers settles every write that a fast quorum may *)
(* have promised.                                                           *)
LEMMA RecoversSettled ==
  ASSUME NoTies, RInv, NEW P, OnePer(P), Yes(P), \A m \in P : PullOK(m),
         NEW ids \in RecoveredKeyIds(P)
  PROVE  Settled(ids)
<1> SUFFICES ASSUME NEW w \in Writes, Cardinality(Possible(w)) >= RuleSuperMajority,
                    ~InLog(w)
             PROVE  w \in ids
  BY DEF Settled
<1>1. w \in Cmd
  BY PoolAssumption DEF PoolAssumption
<1>2. PICK X \in SUBSET Replica : X = Possible(w)
  BY DEF Possible
<1>3. \A m \in P : m.ok /\ OneOfKey(m.ids)
  BY DEF PullOK
<1>4. \A m \in P : m.from \in X => w \in m.ids
  BY <1>2 DEF PullOK, Possible
<1> QED
  BY <1>1, <1>2, <1>3, <1>4, QuorumRecovers

(* Home records and proposes the recovered set.                             *)
LEMMA Round1ProposesHome ==
  ASSUME NoTies, RInv, HInv, Round1Proposes(Home)
  PROVE  HInv'
<1> DEFINE s == srv[Home]
           Record(sid, ids) ==
             [type |-> "Record", run |-> co[Home].run, je |-> s.je, oe |-> s.oe,
              sid |-> sid, ids |-> ids, missing |-> {c \in ids : ~Held(Home, c)}]
           Accept(sid) ==
             [type |-> "Accept", run |-> co[Home].run, je |-> s.je, oe |-> s.oe,
              sid |-> sid, bal |-> s.ballot + 1]
<1>1. /\ srv \in [Replica -> Fields] /\ co \in [Replica -> Coroutines] /\ Home \in Replica
      /\ s \in Fields /\ co[Home] \in Coroutines /\ co[Home].run \in Nat
      /\ chan \in [Replica -> [Replica -> Seq(Msg)]]
      /\ \A r \in Replica : srv[r].je \in Int /\ srv[r].oe \in Int
      /\ DOMAIN recset = Replica
  BY FieldTypes DEF RInv, Types, SetsOK
<1>2. PICK P \in SUBSET co[Home].pull, R \in SUBSET co[Home].prep :
        /\ Round1Replies(Home, P, R)
        /\ \E ids \in RecoveredKeyIds(P) :
             /\ recset' = [recset EXCEPT ![Home] = Put(recset[Home], NewSid(Home), ids)]
             /\ \E p \in IF Yes(R) THEN ProposeSids(R, NewSid(Home)) ELSE {NewSid(Home)} :
                  /\ srv' = IF Yes(R) THEN [srv EXCEPT ![Home].ballot = @ + 1] ELSE srv
                  /\ chan' = Broadcast(Home, <<Record(NewSid(Home), ids)>> \o
                       IF Yes(R) THEN <<Accept(p)>> ELSE << >>)
                  /\ co' = [co EXCEPT ![Home] =
                       SecondRound(co[Home], IF Yes(R) THEN {} ELSE co[Home].prep,
                                   NewSid(Home), p, Yes(R))]
  BY <1>1 DEF Round1Proposes, SecondRound
<1>3. PICK sid : sid = NewSid(Home)
  OBVIOUS
<1>4. /\ Yes(P) /\ Yes(R) = TRUE /\ OnePer(P) /\ \A m \in P : PullOK(m)
      /\ ProposeSids(R, sid) = {sid} /\ co[Home].pc = "round1"
  <2>1. Yes(R) \in BOOLEAN
    BY DEF Yes
  <2> QED
    BY <1>2, <2>1, FirstRoundReady DEF Round1Replies
<1>5. PICK ids \in RecoveredKeyIds(P) :
        /\ recset' = [recset EXCEPT ![Home] = Put(recset[Home], sid, ids)]
        /\ srv' = [srv EXCEPT ![Home].ballot = @ + 1]
        /\ chan' = Broadcast(Home, <<Record(sid, ids)>> \o <<Accept(sid)>>)
        /\ co' = [co EXCEPT ![Home] = SecondRound(co[Home], {}, sid, sid, TRUE)]
  BY <1>2, <1>3, <1>4
<1>6. Settled(ids)
  BY <1>4, RecoversSettled
<1>7. /\ UNCHANGED <<up, isl, log, elections, fin, acc>>
  BY DEF Round1Proposes, baseVars, clientVars
<1>8. co[Home].run > 0 /\ Unfinished
  BY <1>1, <1>4 DEF HInv, Stage, Unfinished
<1> DEFINE v == [s EXCEPT !.ballot = @ + 1]
           k == SecondRound(co[Home], {}, sid, sid, TRUE)
<1>9. s.ballot = -1 /\ s.abal = -1
  BY <1>1, <1>4 DEF HInv, Numbers
<1>10. /\ v.status = s.status /\ v.je = s.je /\ v.oe = s.oe /\ v.trig = s.trig
       /\ v.view = s.view /\ v.pool = s.pool /\ v.ballot = 0
       /\ v.abal = -1
  BY <1>1, <1>9 DEF Fields, ServerRecord
<1>11. /\ k.pc = "round2" /\ k.run = co[Home].run /\ k.sid = sid /\ k.propose = sid
       /\ k.prep_ok = TRUE /\ k.rec = {} /\ k.accept = {}
  BY DEF SecondRound, Rest, Idle
<1>12. srv' = [srv EXCEPT ![Home] = v]
  BY <1>1, <1>5
<1>13. sid \in Sids /\ ids \in SUBSET Cmd
  <2>1. co'[Home].sid = sid
    BY <1>1, <1>5, <1>11
  <2>2. RInv'
    BY Round1ProposesTypes, <1>1
  <2>3. co'[Home].sid \in Sids
    BY <1>1, <2>2 DEF RInv, Types, Coroutines, Coro
  <2> QED
    BY <2>1, <2>3 DEF RecoveredKeyIds, Leading
<1>14. PICK x \in Msg, y \in Msg : x = Record(sid, ids) /\ y = Accept(sid)
  <2>1. /\ s.je \in Epoch /\ s.oe \in Epoch /\ s.ballot + 1 \in Int
    <3>1. s \in Fields
      BY <1>1
    <3> QED
      BY <3>1 DEF Fields, ServerRecord
  <2>2. co[Home].run \in Nat
    BY <1>1
  <2>3. Record(sid, ids) \in RecordMsg /\ Accept(sid) \in AcceptMsg
    BY <1>13, <2>1, <2>2 DEF RecordMsg, AcceptMsg
  <2> QED
    BY <2>3 DEF Msg
<1>15. /\ x.type = "Record" /\ x.je = s.je /\ x.oe = s.oe /\ x.sid = sid /\ x.ids = ids
       /\ x.missing = {c \in ids : ~Held(Home, c)}
       /\ y.type = "Accept" /\ y.je = s.je /\ y.oe = s.oe /\ y.bal = 0
  BY <1>9, <1>14
<1> HIDE DEF v, k, Record, Accept
<1>16. PICK msgs \in Seq(Msg) :
         Elems(msgs) = {x, y} /\ Ordered(msgs) /\ chan' = Broadcast(Home, msgs)
  <2>a. Ordered(<<x>>) /\ Ordered(<<y>>)
    BY <1>15, OrderedFew
  <2>b. PICK p \in Seq(Msg) : p = <<x>> /\ Elems(p) = {x}
    BY OneTwo
  <2>c. PICK q \in Seq(Msg) : q = <<y>> /\ Elems(q) = {y}
    BY OneTwo
  <2>1. p = <<x>> /\ Elems(p) = {x} /\ Ordered(p) /\ q = <<y>> /\ Elems(q) = {y} /\ Ordered(q)
    BY <2>a, <2>b, <2>c
  <2>2. NoneOf(p, "Finish") /\ NoneOf(q, "Pull") /\ NoneOf(q, "Record")
    BY <1>15, <2>1 DEF NoneOf
  <2>3. p \o q \in Seq(Msg) /\ Elems(p \o q) = Elems(p) \cup Elems(q)
    BY ElemsConcat
  <2>4. Ordered(p \o q)
    BY <2>1, <2>2, OrderedConcat
  <2>5. chan' = Broadcast(Home, p \o q)
    BY <1>5, <1>14, <2>1
  <2> QED
    BY <2>1, <2>3, <2>4, <2>5
<1>17. PICK t \in [Replica -> Seq(Msg)] : t = [d \in Replica |-> msgs]
  OBVIOUS
<1>18. Sends(t)
  BY <1>16, <1>17, BroadcastAt DEF Sends
<1>19. /\ \A q \in Replica : srv'[q] = IF q = Home THEN v ELSE srv[q]
       /\ \A q \in Replica : co'[q] = IF q = Home THEN k ELSE co[q]
       /\ co' = [co EXCEPT ![Home] = k]
  BY <1>1, <1>5, <1>12 DEF k
<1>20. SameServers
  BY <1>10, <1>19 DEF SameServers
<1>21. Unfinished'
  BY <1>1, <1>11, <1>19 DEF Unfinished
<1>22. ASSUME NEW d \in Replica PROVE RequestOK(x, d)' /\ RequestOK(y, d)'
  <2>1. s.je >= srv'[d].je /\ srv'[Home].oe = s.oe /\ co'[Home].pc = "round2"
    BY <1>1, <1>8, <1>11, <1>19, <1>20 DEF HInv, Numbers, SameServers
  <2> QED
    BY <1>15, <2>1 DEF RequestOK
<1>23. Alone' /\ Stage' /\ Queues' /\ Kept' /\ Growing
  <2>1. \A d \in Replica :
          /\ Ordered(t[d])
          /\ \A m \in Elems(t[d]) :
               /\ m.type # "Pull" /\ RequestOK(m, d)'
               /\ m.type = "Record" => co[Home].pc = "round1"
    BY <1>4, <1>15, <1>16, <1>17, <1>22
  <2>2. k.run = co[Home].run /\ k.pc \in {"round2", "resubmit", "finish"}
    BY <1>11
  <2> QED
    BY <1>7, <1>8, <1>18, <1>19, <1>20, <2>1, <2>2, CoroutineSends
<1>24. Numbers'
  <2>1. \A d \in Replica :
          /\ srv'[d].oe <= srv'[Home].oe /\ fin'[d] = 0 /\ srv'[d].je <= srv'[Home].je
          /\ srv'[d].ballot <= 0
    <3> SUFFICES ASSUME NEW d \in Replica
                 PROVE  /\ srv'[d].oe <= srv'[Home].oe /\ fin'[d] = 0
                        /\ srv'[d].je <= srv'[Home].je /\ srv'[d].ballot <= 0
      OBVIOUS
    <3>1. /\ srv[d].oe <= srv[Home].oe /\ fin[d] = 0 /\ srv[d].je <= srv[Home].je
          /\ srv[d].ballot <= 0
      BY <1>8 DEF HInv, Numbers
    <3>2. srv'[d].ballot = srv[d].ballot \/ srv'[d].ballot = 0
      BY <1>10, <1>19
    <3> QED
      BY <1>1, <1>7, <1>20, <3>1, <3>2 DEF SameServers
  <2> QED
    BY <1>1, <1>8, <1>11, <1>19, <2>1 DEF Numbers
<1>25. FirstRoundOK' /\ LaterOK'
  BY <1>1, <1>11, <1>19, <1>21 DEF FirstRoundOK, LaterOK
<1>26. SecondRoundOK'
  <2>1. sid \in DOMAIN recset'[Home] /\ recset'[Home][sid] = ids
    <3>1. recset'[Home] = Put(recset[Home], sid, ids)
      BY <1>1, <1>5
    <3> QED
      BY <3>1 DEF Put
  <2>2. co'[Home] = k
    BY <1>1, <1>19
  <2>3. Settled(recset[Home][co[Home].sid])'
    <3>1. Settled(ids)'
      BY <1>6, <1>23, SettledKept
    <3> QED
      BY <1>11, <2>1, <2>2, <3>1 DEF Settled
  <2>4. ASSUME NEW d \in Replica, NEW m \in Elems(chan'[Home][d]), m.type = "Record"
        PROVE  RecordOK(m)'
    <3>1. Elems(chan'[Home][d]) = Elems(chan[Home][d]) \cup {x, y}
      <4>1. PICK p \in Seq(Msg) : p = chan[Home][d]
        BY <1>1
      <4>2. chan'[Home][d] = p \o msgs
        BY <1>1, <1>17, <1>18, <4>1 DEF Sends
      <4>3. Elems(p \o msgs) = Elems(p) \cup Elems(msgs)
        BY ElemsConcat
      <4> QED
        BY <1>16, <4>1, <4>2, <4>3
    <3>2. m \notin Elems(chan[Home][d])
      BY <1>4, <2>4 DEF HInv, Queues, RequestOK
    <3>3. m = x
      BY <1>15, <2>4, <3>1, <3>2
    <3>4. \A c : Held(Home, c)' <=> Held(Home, c)
      BY <1>1, <1>20 DEF Held, SameServers
    <3> QED
      BY <1>11, <1>15, <2>1, <2>2, <3>3, <3>4 DEF RecordOK
  <2> QED
    BY <1>11, <2>1, <2>2, <2>3, <2>4 DEF SecondRoundOK, OnePer
<1> QED
  BY <1>23, <1>24, <1>25, <1>26 DEF HInv

--------------------------------------------------------------------------------
(* A fast quorum and the replicas that answered RecordCmd share one, and it *)
(* has sent the write if Home does not have it.                             *)
LEMMA ResubmitsSettled ==
  ASSUME RInv, HInv, co[Home].pc = "round2", NEW Q \in SUBSET co[Home].rec, Yes(Q)
  PROVE  Settled(Resubmittable(Home, co[Home].propose, Missed(Home, Q)))
<1> DEFINE sid == co[Home].sid
           M == Missed(Home, Q)
<1>1. /\ co[Home].propose = sid /\ sid \in DOMAIN recset[Home]
      /\ Settled(recset[Home][sid])
      /\ OnePer(co[Home].rec) /\ \A m \in co[Home].rec : RecOK(m)
  BY DEF HInv, SecondRoundOK
<1>2. sid \in DOMAIN M /\ M[sid] = UNION {m.cmds : m \in Q}
  BY DEF Missed, Put
<1>3. Resubmittable(Home, co[Home].propose, M)
        = {c \in recset[Home][sid] : Held(Home, c) \/ c \in M[sid]}
  BY <1>1, <1>2 DEF Resubmittable
<1> SUFFICES ASSUME NEW w \in Writes, Cardinality(Possible(w)) >= RuleSuperMajority,
                    ~InLog(w)
             PROVE  w \in recset[Home][sid] /\ (Held(Home, w) \/ w \in M[sid])
  BY <1>3 DEF Settled
<1>4. w \in recset[Home][sid]
  BY <1>1 DEF Settled
<1>5. PICK X \in SUBSET Replica : X = Possible(w)
  BY DEF Possible
<1>6. PICK S : S = {m \in Q : m.ok}
  OBVIOUS
<1>7. OnePer(S) /\ Cardinality(S) >= Quorum
  BY <1>1, <1>6 DEF OnePer, Yes
<1>8. PICK F \in SUBSET Replica : F = Froms(S) /\ Cardinality(F) >= Quorum
  BY <1>7, RepliesCounted
<1>9. /\ Cardinality(X \cap F) >= Cardinality(X) + Cardinality(F) - N
      /\ Cardinality(X \cap F) \in Nat /\ Cardinality(X) \in Nat /\ Cardinality(F) \in Nat
      /\ Cardinality(X) >= RuleSuperMajority
  BY <1>5, Overlap
<1>10. Cardinality(X \cap F) # 0
  BY <1>8, <1>9, QuorumFacts
<1>11. X \cap F # {}
  BY <1>10, FS_EmptySet
<1>12. PICK m \in Q : m.from \in Possible(w)
  BY <1>5, <1>6, <1>8, <1>11 DEF Froms
<1>13. RecOK(m) /\ FirstPromise(w, m.from)
  BY <1>1, <1>12 DEF RecOK, Possible
<1>14. w \in m.cmds \/ Held(Home, w)
  BY <1>4, <1>13 DEF RecOK
<1> QED
  BY <1>2, <1>4, <1>14

(* Home's second round does not fail.                                       *)
LEMMA NoRound2Fails ==
  ASSUME HInv
  PROVE  ~Round2Fails(Home)
<1> SUFFICES ASSUME Round2Fails(Home) PROVE FALSE
  OBVIOUS
<1>1. PICK Q \in SUBSET co[Home].rec, A \in SUBSET co[Home].accept :
        /\ Round2Replies(Home, Q, A)
        /\ co[Home].prep_ok => ~Yes(A)
  BY DEF Round2Fails
<1>2. co[Home].prep_ok /\ \A m \in A : m.ok
  BY <1>1 DEF HInv, SecondRoundOK, Round2Replies
<1>3. ~No(A)
  BY <1>2, AllYes
<1> QED
  BY <1>1, <1>2, <1>3 DEF Round2Replies, IsReady

(* Home's coroutine goes on with its fields as they are.                    *)
LEMMA CoroutineGoesOn ==
  ASSUME RInv, HInv, co[Home].pc \in {"round2", "resubmit"}, UNCHANGED srv,
         UNCHANGED <<up, isl, log, elections, fin, acc>>,
         NEW k, co' = [co EXCEPT ![Home] = k], k.run = co[Home].run,
         k.pc \in {"resubmit", "finish"},
         NEW S, Settled(S), k.pc = "resubmit" => k.todo = S, k.pc = "finish" => S = {},
         NEW t \in [Replica -> Seq(Msg)], Sends(t),
         \A d \in Replica :
           /\ Ordered(t[d])
           /\ \A m \in Elems(t[d]) :
                \/ /\ m.type = "Commit" /\ m.oe = srv[Home].oe /\ m.je = srv[Home].je
                \/ m.type = "Dispatch" /\ d = Home
                \/ m.type = "Finish" /\ m.oe = srv[Home].oe /\ k.pc = "finish"
  PROVE  HInv'
<1>1. /\ co \in [Replica -> Coroutines] /\ Home \in Replica /\ co[Home].run \in Nat
      /\ \A r \in Replica : srv[r].je \in Int /\ srv[r].oe \in Int
  BY FieldTypes
<1>2. co'[Home] = k /\ \A r \in Replica : co'[r] = IF r = Home THEN k ELSE co[r]
  BY <1>1
<1>3. co[Home].run > 0 /\ Unfinished
  BY <1>1 DEF HInv, Stage, Unfinished
<1>4. Unfinished' <=> k.pc = "resubmit"
  BY <1>1, <1>2, <1>3 DEF Unfinished
<1>5. SameServers
  BY DEF SameServers
<1>6. ASSUME NEW d \in Replica, NEW m \in Elems(t[d])
      PROVE  m.type # "Pull" /\ RequestOK(m, d)' /\ m.type # "Record"
  <2>1. srv[Home].je >= srv[d].je /\ fin[d] = 0
    BY <1>1, <1>3 DEF HInv, Numbers
  <2>2. CASE m.type = "Commit" /\ m.oe = srv[Home].oe /\ m.je = srv[Home].je
    BY <2>1, <2>2 DEF RequestOK
  <2>3. CASE m.type = "Dispatch" /\ d = Home
    BY <2>3 DEF RequestOK
  <2>4. CASE m.type = "Finish" /\ m.oe = srv[Home].oe /\ k.pc = "finish"
    BY <1>4, <2>1, <2>4 DEF RequestOK
  <2> QED
    BY <2>2, <2>3, <2>4
<1>7. Alone' /\ Stage' /\ Queues' /\ Kept' /\ Growing
  <2>1. \A d \in Replica :
          /\ Ordered(t[d])
          /\ \A m \in Elems(t[d]) :
               /\ m.type # "Pull" /\ RequestOK(m, d)'
               /\ m.type = "Record" => co[Home].pc = "round1"
    BY <1>6
  <2>2. k.pc \in {"round2", "resubmit", "finish"}
    OBVIOUS
  <2> QED
    BY <1>3, <1>5, <2>1, <2>2, CoroutineSends
<1>8. Numbers'
  BY <1>1, <1>2, <1>3 DEF HInv, Numbers
<1>9. FirstRoundOK' /\ SecondRoundOK'
  BY <1>2 DEF FirstRoundOK, SecondRoundOK
<1>10. LaterOK'
  <2>1. Settled(S)'
    BY <1>7, SettledKept
  <2> QED
    BY <1>2, <1>4, <2>1 DEF LaterOK, Settled
<1> QED
  BY <1>7, <1>8, <1>9, <1>10 DEF HInv

(* FinishRecovery is broadcast once the recovered commands are in the log.  *)
LEMMA ResubmittedHome ==
  ASSUME RInv, HInv, Resubmitted(Home)
  PROVE  HInv'
<1> DEFINE k == Finishing(co[Home], co[Home].propose)
<1>1. /\ co \in [Replica -> Coroutines] /\ Home \in Replica
      /\ srv[Home] \in Fields /\ co[Home].run \in Nat
  BY FieldTypes
<1>2. /\ UNCHANGED <<up, isl, log, elections, fin, acc>> /\ UNCHANGED srv
      /\ co[Home].pc = "resubmit" /\ co[Home].todo = {}
      /\ chan' = Broadcast(Home, <<FinishMsg(Home)>>)
      /\ co' = [co EXCEPT ![Home] = k]
  BY <1>1 DEF Resubmitted, Finishing, baseVars, clientVars
<1>3. k.run = co[Home].run /\ k.pc = "finish"
  BY DEF Finishing, Rest, Idle
<1>4. PICK m \in Msg : m = FinishMsg(Home) /\ m.type = "Finish" /\ m.oe = srv[Home].oe
  <2>1. srv[Home].oe \in Epoch
    BY <1>1 DEF Fields, ServerRecord
  <2>2. FinishMsg(Home) \in FinishMsgs
    BY <1>1, <2>1 DEF FinishMsg, FinishMsgs
  <2> QED
    BY <2>2 DEF Msg, FinishMsg
<1> HIDE DEF k
<1>5. PICK msgs \in Seq(Msg) : msgs = <<m>> /\ Elems(msgs) = {m} /\ Ordered(msgs)
  <2>1. Ordered(<<m>>)
    BY DEF Ordered
  <2> QED
    BY <2>1, OneTwo
<1>6. PICK t \in [Replica -> Seq(Msg)] : t = [d \in Replica |-> msgs]
  OBVIOUS
<1>7. Sends(t)
  BY <1>2, <1>4, <1>5, <1>6, BroadcastAt DEF Sends
<1>8. \A d \in Replica :
        /\ Ordered(t[d])
        /\ \A x \in Elems(t[d]) : x.type = "Finish" /\ x.oe = srv[Home].oe /\ k.pc = "finish"
  BY <1>3, <1>4, <1>5, <1>6
<1>9. Settled({})
  BY <1>2 DEF HInv, LaterOK
<1> QED
  BY <1>2, <1>3, <1>7, <1>8, <1>9, CoroutineGoesOn

(* Commit, and the recovered commands or FinishRecovery.                    *)
LEMMA Round2CommitsHome ==
  ASSUME RInv, HInv, Round2Commits(Home)
  PROVE  HInv'
<1> DEFINE ask(c) == [type |-> "Dispatch", run |-> co[Home].run, cmd |-> c]
           commit == [type |-> "Commit", run |-> co[Home].run, je |-> srv[Home].je,
                      oe |-> srv[Home].oe, sid |-> co[Home].propose]
           Order(todo) == CHOOSE f \in [1 .. Cardinality(todo) -> todo] :
                            \A c \in todo : \E i \in DOMAIN f : f[i] = c
<1>1. /\ srv[Home] \in Fields /\ co[Home] \in Coroutines /\ Home \in Replica
      /\ co \in [Replica -> Coroutines]
      /\ chan \in [Replica -> [Replica -> Seq(Msg)]]
      /\ co[Home].run \in Nat
  BY FieldTypes
<1>2. UNCHANGED <<up, isl, log, elections, fin, acc>> /\ UNCHANGED srv
  BY DEF Round2Commits, baseVars, clientVars
<1>3. PICK Q \in SUBSET co[Home].rec, A \in SUBSET co[Home].accept :
        /\ Round2Replies(Home, Q, A)
        /\ LET todo == Resubmittable(Home, co[Home].propose, Missed(Home, Q))
           IN  IF todo # {}
               THEN /\ chan' = [Broadcast(Home, <<commit>>) EXCEPT ![Home][Home] =
                                 @ \o [i \in DOMAIN Order(todo) |-> ask(Order(todo)[i])]]
                    /\ co' = [co EXCEPT ![Home] =
                                Resubmitting(co[Home], co[Home].propose, todo)]
               ELSE /\ chan' = Broadcast(Home, <<commit, FinishMsg(Home)>>)
                    /\ co' = [co EXCEPT ![Home] = Finishing(co[Home], co[Home].propose)]
  BY <1>1 DEF Round2Commits, Resubmitting, Finishing
<1>4. PICK todo : todo = Resubmittable(Home, co[Home].propose, Missed(Home, Q))
  OBVIOUS
<1>5. co[Home].pc = "round2" /\ Settled(todo) /\ todo \in SUBSET Cmd
  <2>1. todo \in SUBSET Cmd
    BY <1>1, <1>4 DEF Resubmittable, RInv, Types, SetsOK
  <2> QED
    BY <1>3, <1>4, <2>1, ResubmitsSettled DEF Round2Replies
<1>6. PICK x \in Msg : /\ x = commit /\ x.type = "Commit"
                       /\ x.oe = srv[Home].oe /\ x.je = srv[Home].je
  <2>1. srv[Home].je \in Epoch /\ srv[Home].oe \in Epoch
    <3>1. srv[Home] \in Fields
      BY <1>1
    <3> QED
      BY <3>1 DEF Fields, ServerRecord
  <2>2. co[Home].propose \in Sids
    BY <1>1 DEF Coroutines, Coro
  <2>3. commit \in CommitMsg
    BY <1>1, <2>1, <2>2 DEF CommitMsg
  <2> QED
    BY <2>3 DEF Msg
<1>7. PICK y \in Msg : y = FinishMsg(Home) /\ y.type = "Finish" /\ y.oe = srv[Home].oe
  <2>1. srv[Home].oe \in Epoch
    BY <1>1 DEF Fields, ServerRecord
  <2>2. FinishMsg(Home) \in FinishMsgs
    BY <1>1, <2>1 DEF FinishMsg, FinishMsgs
  <2> QED
    BY <2>2 DEF Msg, FinishMsg
<1> HIDE DEF commit
<1>8. CASE todo = {}
  <2>1. /\ chan' = Broadcast(Home, <<x, y>>)
        /\ co' = [co EXCEPT ![Home] = Finishing(co[Home], co[Home].propose)]
    BY <1>3, <1>4, <1>6, <1>7, <1>8
  <2>2. PICK k : k = Finishing(co[Home], co[Home].propose)
    OBVIOUS
  <2>3. k.run = co[Home].run /\ k.pc = "finish" /\ co' = [co EXCEPT ![Home] = k]
    BY <2>1, <2>2 DEF Finishing, Rest, Idle
  <2>4. PICK msgs \in Seq(Msg) : msgs = <<x, y>> /\ Elems(msgs) = {x, y} /\ Ordered(msgs)
    <3>1. Ordered(<<x, y>>)
      BY <1>6, <1>7, OrderedFew
    <3> QED
      BY <3>1, OneTwo
  <2>5. PICK t \in [Replica -> Seq(Msg)] : t = [d \in Replica |-> msgs]
    OBVIOUS
  <2>6. Sends(t)
    BY <2>1, <2>4, <2>5, BroadcastAt DEF Sends
  <2>7. \A d \in Replica :
          /\ Ordered(t[d])
          /\ \A m \in Elems(t[d]) :
               \/ m.type = "Commit" /\ m.oe = srv[Home].oe /\ m.je = srv[Home].je
               \/ m.type = "Dispatch" /\ d = Home
               \/ m.type = "Finish" /\ m.oe = srv[Home].oe /\ k.pc = "finish"
    BY <1>6, <1>7, <2>3, <2>4, <2>5
  <2>8. k.pc \in {"resubmit", "finish"} /\ (k.pc = "resubmit" => k.todo = todo)
    BY <2>3
  <2> QED
    BY <1>2, <1>5, <1>8, <2>3, <2>6, <2>7, <2>8, CoroutineGoesOn
<1>9. CASE todo # {}
  <2>1. PICK order \in [1 .. Cardinality(todo) -> todo] : order = Order(todo)
    BY <1>5, OrderExists
  <2> HIDE DEF Order
  <2>2. PICK asks : asks = [i \in DOMAIN order |-> ask(order[i])]
    OBVIOUS
  <2>3. /\ chan' = [Broadcast(Home, <<x>>) EXCEPT ![Home][Home] = @ \o asks]
        /\ co' = [co EXCEPT ![Home] = Resubmitting(co[Home], co[Home].propose, todo)]
    BY <1>3, <1>4, <1>6, <1>9, <2>1, <2>2
  <2>4. asks \in Seq(Msg) /\ \A i \in DOMAIN asks : asks[i].type = "Dispatch"
    <3>1. Cardinality(todo) \in Nat
      BY <1>5, OrderExists
    <3>2. \A i \in 1 .. Cardinality(todo) : order[i] \in Cmd
      BY <1>5
    <3>3. \A c \in Cmd : ask(c) \in DispatchMsg /\ ask(c).type = "Dispatch"
      BY <1>1 DEF DispatchMsg
    <3> HIDE DEF ask
    <3>4. /\ DOMAIN asks = 1 .. Cardinality(todo)
          /\ \A i \in 1 .. Cardinality(todo) :
               asks[i] = ask(order[i]) /\ asks[i] \in Msg /\ asks[i].type = "Dispatch"
      BY <2>2, <3>2, <3>3 DEF Msg
    <3>5. asks = [i \in 1 .. Cardinality(todo) |-> ask(order[i])]
      BY <2>1, <2>2
    <3> QED
      BY <3>1, <3>4, <3>5
  <2>5. Ordered(asks) /\ \A m \in Elems(asks) : m.type = "Dispatch"
    <3>1. \A i \in 1 .. Len(asks) : asks[i].type = "Dispatch"
      BY <2>4
    <3> QED
      BY <2>4, <3>1 DEF Ordered, Elems
  <2>6. PICK msgs \in Seq(Msg) : msgs = <<x>> /\ Elems(msgs) = {x} /\ Ordered(msgs)
    <3>1. Ordered(<<x>>)
      BY DEF Ordered
    <3> QED
      BY <3>1, OneTwo
  <2>7. /\ msgs \o asks \in Seq(Msg) /\ Elems(msgs \o asks) = Elems(msgs) \cup Elems(asks)
        /\ Ordered(msgs \o asks)
    <3>1. NoneOf(msgs, "Finish") /\ NoneOf(asks, "Pull") /\ NoneOf(asks, "Record")
      BY <1>6, <2>5, <2>6 DEF NoneOf
    <3> QED
      BY <2>4, <2>5, <2>6, <3>1, ElemsConcat, OrderedConcat
  <2>8. PICK t \in [Replica -> Seq(Msg)] :
          t = [d \in Replica |-> IF d = Home THEN msgs \o asks ELSE msgs]
    BY <2>7
  <2>9. Sends(t)
    <3>1. PICK B \in [Replica -> [Replica -> Seq(Msg)]] : B = Broadcast(Home, msgs)
      BY <1>1, BroadcastSends
    <3>2. \A s, d \in Replica : B[s][d] = IF s = Home THEN chan[s][d] \o msgs ELSE chan[s][d]
      BY <3>1, BroadcastAt
    <3>3. chan' = [B EXCEPT ![Home][Home] = B[Home][Home] \o asks]
      BY <1>1, <2>3, <2>6, <3>1
    <3>4. \A s, d \in Replica :
            chan'[s][d] = IF s = Home /\ d = Home THEN B[Home][Home] \o asks ELSE B[s][d]
      BY <1>1, <3>1, <3>3
    <3>5. (chan[Home][Home] \o msgs) \o asks = chan[Home][Home] \o (msgs \o asks)
      <4>1. PICK q \in Seq(Msg) : q = chan[Home][Home]
        BY <1>1
      <4>2. (q \o msgs) \o asks = q \o (msgs \o asks)
        BY <2>4, ConcatAssociative
      <4> QED
        BY <4>1, <4>2
    <3> QED
      BY <1>1, <2>8, <3>2, <3>4, <3>5 DEF Sends
  <2>10. PICK k : k = Resubmitting(co[Home], co[Home].propose, todo)
    OBVIOUS
  <2>11. /\ k.run = co[Home].run /\ k.pc = "resubmit" /\ k.todo = todo
         /\ co' = [co EXCEPT ![Home] = k]
    BY <2>3, <2>10 DEF Resubmitting, Rest, Idle
  <2>12. \A d \in Replica :
          /\ Ordered(t[d])
          /\ \A m \in Elems(t[d]) :
               \/ m.type = "Commit" /\ m.oe = srv[Home].oe /\ m.je = srv[Home].je
               \/ m.type = "Dispatch" /\ d = Home
               \/ m.type = "Finish" /\ m.oe = srv[Home].oe /\ k.pc = "finish"
    BY <1>6, <2>5, <2>6, <2>7, <2>8
  <2>13. k.pc \in {"resubmit", "finish"} /\ (k.pc = "finish" => todo = {})
    BY <2>11
  <2> QED
    BY <1>2, <1>5, <2>9, <2>11, <2>12, <2>13, CoroutineGoesOn
<1> QED
  BY <1>8, <1>9

(* The recovery is over.                                                    *)
LEMMA RecoveryDoneHome ==
  ASSUME RInv, HInv, RecoveryDone(Home)
  PROVE  HInv'
<1>1. co \in [Replica -> Coroutines] /\ Home \in Replica /\ co[Home].run \in Nat
  BY FieldTypes
<1>2. PICK k : k = Rest(co[Home])
  OBVIOUS
<1>3. /\ UNCHANGED <<up, isl, log, elections, fin, acc>> /\ UNCHANGED <<srv, chan, recset>>
      /\ co[Home].pc = "finish" /\ co' = [co EXCEPT ![Home] = k]
  BY <1>1, <1>2 DEF RecoveryDone, baseVars, clientVars, setVars
<1>4. k.pc = "idle" /\ k.run = co[Home].run
  BY <1>2 DEF Rest, Idle
<1>5. \A r \in Replica : co'[r] = IF r = Home THEN k ELSE co[r]
  BY <1>1, <1>3
<1>6. co[Home].run > 0 /\ ~Unfinished /\ ~Unfinished'
  BY <1>1, <1>3, <1>4, <1>5 DEF HInv, Stage, Unfinished
<1>7. Alone' /\ Stage'
  BY <1>1, <1>3, <1>4, <1>5, <1>6 DEF HInv, Alone, Stage
<1>8. Queues'
  <2>1. \A r \in Replica : Closed(r)' <=> Closed(r)
    BY <1>3 DEF Closed
  <2>2. ASSUME NEW d \in Replica, NEW m, RequestOK(m, d) PROVE RequestOK(m, d)'
    BY <1>1, <1>3, <1>4, <1>5, <1>6, <2>2 DEF RequestOK
  <2>3. ASSUME NEW d \in Replica
        PROVE  /\ Ordered(chan'[Home][d])
               /\ \A m \in Elems(chan'[Home][d]) : RequestOK(m, d)'
               /\ NoneOf(chan'[Home][d], "Pull") => Closed(d)'
    BY <1>3, <1>6, <2>1, <2>2 DEF HInv, Queues
  <2> QED
    BY <2>3 DEF Queues, NoneOf, Ordered, Elems
<1>9. Numbers'
  BY <1>1, <1>3, <1>4, <1>5, <1>6 DEF HInv, Numbers
<1>10. \A c : InLog(c)' <=> InLog(c)
  BY <1>3 DEF InLog
<1>11. Kept'
  BY <1>3, <1>10 DEF HInv, Kept, LastPromise
<1>12. FirstRoundOK' /\ SecondRoundOK'
  BY <1>1, <1>4, <1>5 DEF FirstRoundOK, SecondRoundOK
<1>13. LaterOK'
  <2>1. Growing
    BY <1>3, <1>10 DEF Growing, Closed, FirstPromise
  <2>2. Settled({})'
    BY <1>6, <2>1, SettledKept DEF HInv, LaterOK
  <2> QED
    BY <1>1, <1>4, <1>5, <2>2 DEF LaterOK
<1> QED
  BY <1>7, <1>8, <1>9, <1>11, <1>12, <1>13 DEF HInv

--------------------------------------------------------------------------------
(* A request of Home that d has taken.                                      *)
Taken(d) ==
  /\ chan[Home][d] # << >> /\ d \in up
  /\ chan' = [chan EXCEPT ![Home][d] = Tail(@)]
  /\ UNCHANGED <<up, leader, log, exec, elections, acc>>

(* What is left of the connections, and what it says of d's requests.       *)
LEMMA TakenAt ==
  ASSUME RInv, HInv, NEW d \in Replica, Taken(d), NEW m, m = Head(chan[Home][d])
  PROVE  /\ m \in Msg /\ RequestOK(m, d) /\ m \in Elems(chan[Home][d])
         /\ \A r, e \in Replica :
              chan'[r][e] = IF r = Home /\ e = d THEN Tail(chan[r][e]) ELSE chan[r][e]
         /\ \A e \in Replica : /\ Elems(chan'[Home][e]) \subseteq Elems(chan[Home][e])
                               /\ Ordered(chan'[Home][e])
         /\ NoneOf(chan'[Home][d], "Pull")
         /\ m.type # "Pull" => Closed(d)
         /\ m.type = "Record" => NoneOf(chan'[Home][d], "Record")
         /\ m.type = "Finish" => chan'[Home][d] = << >>
         /\ co[Home].run > 0 /\ elections = 1 /\ Home \in Replica
<1>1. Home \in Replica /\ chan \in [Replica -> [Replica -> Seq(Msg)]] /\ co[Home].run \in Nat
  BY FieldTypes
<1>2. PICK q \in Seq(Msg) : q = chan[Home][d]
  BY <1>1
<1>3. q # << >> /\ Ordered(q) /\ \A x \in Elems(q) : RequestOK(x, d)
  BY <1>2 DEF Taken, HInv, Queues
<1>4. /\ Ordered(Tail(q)) /\ NoneOf(Tail(q), "Pull")
      /\ Head(q).type # "Pull" => NoneOf(q, "Pull")
      /\ Head(q).type = "Record" => NoneOf(Tail(q), "Record")
      /\ Head(q).type = "Finish" => Tail(q) = << >>
  BY <1>3, OrderedTail
<1>5. Elems(Tail(q)) \subseteq Elems(q) /\ Head(q) \in Msg /\ Head(q) \in Elems(q)
      /\ Tail(q) \in Seq(Msg)
  BY <1>3, ElemsTail
<1>6. \A r, e \in Replica :
        chan'[r][e] = IF r = Home /\ e = d THEN Tail(chan[r][e]) ELSE chan[r][e]
  BY <1>1, <1>2, <1>5 DEF Taken
<1>7. chan'[Home][d] = Tail(q)
  BY <1>1, <1>2, <1>6
<1>8. \A e \in Replica : /\ Elems(chan'[Home][e]) \subseteq Elems(chan[Home][e])
                         /\ Ordered(chan'[Home][e])
  <2> SUFFICES ASSUME NEW e \in Replica
               PROVE  /\ Elems(chan'[Home][e]) \subseteq Elems(chan[Home][e])
                      /\ Ordered(chan'[Home][e])
    OBVIOUS
  <2>1. CASE e = d
    BY <1>2, <1>4, <1>5, <1>7, <2>1
  <2>2. CASE e # d
    <3>1. chan'[Home][e] = chan[Home][e]
      BY <1>1, <1>6, <2>2
    <3> QED
      BY <3>1 DEF HInv, Queues
  <2> QED
    BY <2>1, <2>2
<1>9. co[Home].run > 0 /\ elections = 1
  BY <1>1 DEF HInv, Stage, Taken
<1>10. m.type # "Pull" => Closed(d)
  BY <1>2, <1>4, <1>9 DEF HInv, Queues
<1> QED
  BY <1>1, <1>2, <1>3, <1>4, <1>5, <1>6, <1>7, <1>8, <1>9, <1>10

(* What d does with a request other than FinishRecovery.                    *)
Serves(d) ==
  /\ \A r \in Replica \ {d} : srv'[r] = srv[r]
  /\ srv'[d].pool = srv[d].pool /\ srv'[d].trig = srv[d].trig /\ srv'[d].je = srv[d].je
  /\ srv'[d].oe \in {srv[d].oe, srv[Home].oe}
  /\ srv'[d].status \in {srv[d].status, "RECOVERY"}
  /\ srv'[d].view \in {srv[d].view, Home}
  /\ srv'[d].ballot <= 0
  /\ co[Home].pc = "round1" => srv'[d].ballot = -1 /\ srv'[d].abal = -1
  /\ isl' = isl \/ (d # Home /\ isl' = isl \ {d})

(* What Home's events take.                                                 *)
Answers ==
  /\ \A r \in Replica \ {Home} : co'[r] = co[r]
  /\ co'[Home].pc = co[Home].pc /\ co'[Home].run = co[Home].run
  /\ co'[Home].sid = co[Home].sid /\ co'[Home].propose = co[Home].propose
  /\ co'[Home].prep_ok = co[Home].prep_ok /\ co'[Home].todo = co[Home].todo
  /\ co[Home].pc = "round1" =>
       /\ OnePer(co'[Home].pull)
       /\ \A m \in co'[Home].pull : m \in co[Home].pull \/ PullOK(m)'
       /\ \A m \in co'[Home].prep : m \in co[Home].prep \/ (m.ok /\ m.abal = -1)
  /\ co[Home].pc = "round2" =>
       /\ \A m \in co'[Home].accept : m \in co[Home].accept \/ m.ok
       /\ OnePer(co'[Home].rec)
       /\ \A m \in co'[Home].rec : m \in co[Home].rec \/ RecOK(m)'
       /\ co[Home].sid \in DOMAIN recset'[Home]
       /\ recset'[Home][co[Home].sid] = recset[Home][co[Home].sid]

(* A request other than FinishRecovery is handled.                          *)
LEMMA ServeKeeps ==
  ASSUME RInv, HInv, NEW d \in Replica, Taken(d), Serves(d), UNCHANGED fin, Answers,
         Head(chan[Home][d]).type = "Pull" => srv'[d].status = "RECOVERY"
  PROVE  HInv'
<1>1. PICK m : m = Head(chan[Home][d])
  OBVIOUS
<1>2. /\ m \in Msg /\ RequestOK(m, d) /\ m \in Elems(chan[Home][d])
      /\ \A r, e \in Replica :
           chan'[r][e] = IF r = Home /\ e = d THEN Tail(chan[r][e]) ELSE chan[r][e]
      /\ \A e \in Replica : /\ Elems(chan'[Home][e]) \subseteq Elems(chan[Home][e])
                            /\ Ordered(chan'[Home][e])
      /\ NoneOf(chan'[Home][d], "Pull")
      /\ m.type # "Pull" => Closed(d)
      /\ co[Home].run > 0 /\ elections = 1 /\ Home \in Replica
  BY <1>1, TakenAt
<1>3. UNCHANGED <<up, log, elections, acc, fin>>
  BY DEF Taken
<1>4. Alone'
  BY <1>2 DEF HInv, Alone, Serves, Answers
<1>5. Stage'
  <2>1. co'[Home].run > 0 /\ elections' = 1 /\ ~srv'[Home].trig
    BY <1>2, <1>3 DEF HInv, Stage, Serves, Answers
  <2>2. srv'[Home].view = Home
    BY <1>2 DEF HInv, Stage, Serves
  <2>3. Home \in up' => Home \in isl'
    BY <1>2, <1>3 DEF HInv, Stage, Serves
  <2>4. co'[Home].run # 0
    BY <1>2, FieldTypes DEF Answers
  <2> QED
    BY <2>1, <2>2, <2>3, <2>4 DEF Stage
<1>6. Unfinished' <=> Unfinished
  BY DEF Unfinished, Answers
<1>7. /\ \A r \in Replica : Closed(r) => Closed(r)'
      /\ Closed(d)'
  BY <1>1, <1>2, <1>3 DEF Closed, Serves
<1>8. \A c : InLog(c)' <=> InLog(c)
  BY <1>3 DEF InLog
<1>9. Growing
  BY <1>3, <1>7, <1>8 DEF Growing, FirstPromise
<1>10. Numbers'
  <2>1. /\ \A r \in Replica : srv[r].oe \in Int
        /\ \A r \in Replica : srv[r].oe <= srv[Home].oe
    BY FieldTypes DEF HInv, Numbers
  <2>2. srv'[Home].oe = srv[Home].oe /\ srv'[Home].je = srv[Home].je
    BY <1>2 DEF Serves
  <2>3. \A r \in Replica : srv'[r].oe <= srv'[Home].oe
    BY <1>2, <2>1, <2>2 DEF Serves
  <2>4. \A r \in Replica : Unfinished' => fin'[r] = 0 /\ srv'[r].je <= srv'[Home].je
    BY <1>2, <1>3, <1>6, <2>2 DEF HInv, Numbers, Serves
  <2>5. \A r \in Replica : srv'[r].ballot <= 0
    BY DEF HInv, Numbers, Serves
  <2>6. \A r \in Replica : co[Home].pc = "round1" => srv'[r].ballot = -1 /\ srv'[r].abal = -1
    BY DEF HInv, Numbers, Serves
  <2>7. co'[Home].run # 0 /\ co'[Home].pc = co[Home].pc
    BY <1>2, FieldTypes DEF Answers
  <2> QED
    BY <2>3, <2>4, <2>5, <2>6, <2>7 DEF Numbers
<1>11. Queues'
  <2>1. ASSUME NEW e \in Replica, NEW x, RequestOK(x, e) PROVE RequestOK(x, e)'
    <3>1. srv'[Home].oe = srv[Home].oe /\ srv'[e].je = srv[e].je
      BY <1>2 DEF Serves
    <3> QED
      BY <1>3, <1>6, <2>1, <3>1 DEF RequestOK, Answers
  <2>2. ASSUME NEW e \in Replica
        PROVE  /\ Ordered(chan'[Home][e])
               /\ \A x \in Elems(chan'[Home][e]) : RequestOK(x, e)'
               /\ NoneOf(chan'[Home][e], "Pull") => Closed(e)'
    <3>1. \A x \in Elems(chan'[Home][e]) : RequestOK(x, e)'
      BY <1>2, <2>1 DEF HInv, Queues
    <3>2. CASE e = d
      BY <1>2, <1>7, <3>1, <3>2
    <3>3. CASE e # d
      <4>1. chan'[Home][e] = chan[Home][e]
        BY <1>2, <3>3
      <4> QED
        BY <1>2, <1>7, <3>1, <4>1 DEF HInv, Queues
    <3> QED
      BY <3>2, <3>3
  <2> QED
    BY <2>2 DEF Queues, NoneOf, Ordered, Elems
<1>12. \A r \in Replica : srv'[r].pool = srv[r].pool
  BY DEF Serves
<1>13. Kept'
  BY <1>3, <1>8, <1>12 DEF HInv, Kept, LastPromise
<1>14. FirstRoundOK'
  BY <1>2, <1>9, FirstRoundKept DEF HInv, Answers
<1>15. SecondRoundOK'
  <2>1. \A c : Held(Home, c) => Held(Home, c)'
    BY <1>2, <1>12 DEF Held
  <2> QED
    BY <1>2, <1>9, <2>1, SecondRoundKept DEF HInv, Answers
<1>16. LaterOK'
  <2>1. ASSUME co'[Home].pc = "resubmit" PROVE Settled(co[Home].todo)'
    <3>1. PICK S : S = co[Home].todo
      OBVIOUS
    <3>2. Settled(S) /\ S = co'[Home].todo
      BY <2>1, <3>1 DEF HInv, LaterOK, Answers
    <3>3. Settled(S)'
      BY <1>9, <3>2, SettledKept
    <3> QED
      BY <3>2, <3>3 DEF Settled
  <2>2. ~Unfinished' => Settled({})'
    BY <1>6, <1>9, SettledKept DEF HInv, LaterOK
  <2> QED
    BY <2>1, <2>2 DEF LaterOK
<1> QED
  BY <1>4, <1>5, <1>10, <1>11, <1>13, <1>14, <1>15, <1>16 DEF HInv

(* A reply to Home: which event takes it, and at which Wait.                *)
LEMMA ReplyAt ==
  ASSUME RInv, NEW m, NEW rep, NEW field \in {"pull", "prep", "rec", "accept", "ack"},
         co' = Reply(Home, m, field, rep)
  PROVE  /\ \A r \in Replica \ {Home} : co'[r] = co[r]
         /\ co'[Home].pc = co[Home].pc /\ co'[Home].run = co[Home].run
         /\ co'[Home].sid = co[Home].sid /\ co'[Home].propose = co[Home].propose
         /\ co'[Home].prep_ok = co[Home].prep_ok /\ co'[Home].todo = co[Home].todo
         /\ \/ co'[Home].pull = co[Home].pull
            \/ field = "pull" /\ co'[Home].pull = co[Home].pull \cup {rep}
         /\ \/ co'[Home].prep = co[Home].prep
            \/ /\ field = "prep" /\ co'[Home].prep = co[Home].prep \cup {rep}
               /\ co[Home].pc = "round1" \/ ~co[Home].prep_ok
         /\ \/ co'[Home].rec = co[Home].rec
            \/ field = "rec" /\ co'[Home].rec = co[Home].rec \cup {rep}
         /\ \/ co'[Home].accept = co[Home].accept
            \/ field = "accept" /\ co'[Home].accept = co[Home].accept \cup {rep}
<1>1. co \in [Replica -> Coroutines] /\ Home \in Replica
  BY FieldTypes
<1>2. PICK k \in Coro : k = co[Home]
  BY <1>1 DEF Coroutines
<1>3. CASE co' = co
  BY <1>3
<1>4. CASE Reads(co[Home], field) /\ co' = [co EXCEPT ![Home][field] = @ \cup {rep}]
  <2>1. PICK j : j = [k EXCEPT ![field] = @ \cup {rep}]
    OBVIOUS
  <2>2. co'[Home] = j /\ \A r \in Replica \ {Home} : co'[r] = co[r]
    BY <1>1, <1>2, <1>4, <2>1
  <2>3. /\ j.pc = k.pc /\ j.run = k.run /\ j.sid = k.sid /\ j.propose = k.propose
        /\ j.prep_ok = k.prep_ok /\ j.todo = k.todo
        /\ j.pull = IF field = "pull" THEN k.pull \cup {rep} ELSE k.pull
        /\ j.prep = IF field = "prep" THEN k.prep \cup {rep} ELSE k.prep
        /\ j.rec = IF field = "rec" THEN k.rec \cup {rep} ELSE k.rec
        /\ j.accept = IF field = "accept" THEN k.accept \cup {rep} ELSE k.accept
    <3>1. CASE field = "pull"
      BY <2>1, <3>1 DEF Coro
    <3>2. CASE field = "prep"
      BY <2>1, <3>2 DEF Coro
    <3>3. CASE field = "rec"
      BY <2>1, <3>3 DEF Coro
    <3>4. CASE field = "accept"
      BY <2>1, <3>4 DEF Coro
    <3>5. CASE field = "ack"
      BY <2>1, <3>5 DEF Coro
    <3> QED
      BY <3>1, <3>2, <3>3, <3>4, <3>5
  <2>4. field = "prep" => k.pc = "round1" \/ ~k.prep_ok
    BY <1>2, <1>4 DEF Reads
  <2> QED
    BY <1>2, <2>2, <2>3, <2>4
<1> QED
  BY <1>3, <1>4 DEF Reply

(* What Numbers says of d while one of Home's requests is in flight.        *)
LEMMA NumbersAt ==
  ASSUME RInv, HInv, NEW d \in Replica
  PROVE  /\ srv[d].oe <= srv[Home].oe /\ srv[d].ballot <= 0
         /\ co[Home].pc = "round1" => srv[d].ballot = -1 /\ srv[d].abal = -1
         /\ co[Home].pc \in {"round1", "round2"} => fin[d] = 0
BY FieldTypes DEF HInv, Numbers, Unfinished

(* A promise made before the first FinishRecovery is named until then.      *)
LEMMA FirstNamed ==
  ASSUME RInv, HInv, NEW d \in Replica, fin[d] = 0, NEW w \in Writes, FirstPromise(w, d)
  PROVE  InLog(w) \/ (w \in ToRecover(srv[d].pool) /\ Held(d, w))
<1>1. w \in Cmd /\ PoolOK(srv[d].pool)
  BY PoolAssumption, FieldTypes DEF PoolAssumption
<1>2. LastPromise(w, d)
  BY DEF FirstPromise, LastPromise
<1>3. InLog(w) \/ Names(srv[d].pool, w)
  BY <1>2 DEF HInv, Kept
<1> QED
  BY <1>1, <1>3, NamedReported DEF Held

(* PullRecovery: d promises no more and reports what it had promised.       *)
LEMMA PullHome ==
  ASSUME RInv, HInv, NEW d \in Replica, Taken(d), NEW m, m = Head(chan[Home][d]),
         m.type = "Pull", OnPull(Home, d, m)
  PROVE  HInv'
<1>1. /\ m \in Msg /\ RequestOK(m, d) /\ m \in Elems(chan[Home][d])
      /\ NoneOf(chan'[Home][d], "Pull") /\ Home \in Replica
  BY TakenAt
<1>2. m.oe = srv[Home].oe /\ m.je >= srv[d].je /\ m.view = Home
  BY <1>1 DEF RequestOK
<1>3. srv \in [Replica -> Fields] /\ srv[d] \in Fields /\ PoolOK(srv[d].pool)
  BY FieldTypes
<1>4. PICK v : v = OnJetpackBeginRecovery(srv[d], m)
  OBVIOUS
<1>5. /\ v.pool = srv[d].pool /\ v.trig = srv[d].trig /\ v.je = srv[d].je
      /\ v.oe = srv[Home].oe /\ v.status = "RECOVERY" /\ v.view = Home
      /\ v.ballot = srv[d].ballot /\ v.abal = srv[d].abal
  BY <1>2, <1>3, <1>4 DEF OnJetpackBeginRecovery, Fields, ServerRecord
<1>6. PICK rep : rep = [from |-> d, ok |-> m.je >= v.je,
                        ids |-> IF m.je >= v.je THEN ToRecover(v.pool) ELSE {}]
  OBVIOUS
<1>7. /\ srv' = [srv EXCEPT ![d] = v] /\ co' = Reply(Home, m, "pull", rep)
      /\ isl' = (IF m.view # d THEN isl \ {d} ELSE isl) /\ UNCHANGED <<recset, fin>>
  BY <1>4, <1>6 DEF OnPull
<1>8. srv'[d] = v /\ \A r \in Replica \ {d} : srv'[r] = srv[r]
  BY <1>3, <1>7
<1>9. Serves(d)
  BY <1>2, <1>5, <1>7, <1>8, NumbersAt DEF Serves
<1>10. rep.from = d /\ rep.ok /\ rep.ids = ToRecover(srv[d].pool)
  BY <1>2, <1>5, <1>6
<1>11. UNCHANGED <<log, acc>>
  BY DEF Taken
<1>12. ASSUME co[Home].pc = "round1" PROVE PullOK(rep)'
  <2>1. fin[d] = 0
    BY <1>12, NumbersAt
  <2>2. \A w \in Writes : FirstPromise(w, d) => InLog(w) \/ w \in rep.ids
    BY <1>10, <2>1, FirstNamed
  <2>3. \A w \in Writes : FirstPromise(w, d)' => w \in rep.ids \/ InLog(w)'
    BY <1>11, <2>2 DEF FirstPromise, InLog
  <2>4. OneOfKey(rep.ids)
    BY <1>3, <1>10, ReportsOneOfKey
  <2>5. Closed(d)'
    BY <1>5, <1>8 DEF Closed
  <2> QED
    BY <1>1, <1>10, <2>3, <2>4, <2>5 DEF PullOK
<1>13. co[Home].pc = "round1" =>
         /\ OnePer(co'[Home].pull)
         /\ \A x \in co'[Home].pull : x \in co[Home].pull \/ PullOK(x)'
  <2> SUFFICES ASSUME co[Home].pc = "round1"
               PROVE  /\ OnePer(co'[Home].pull)
                      /\ \A x \in co'[Home].pull : x \in co[Home].pull \/ PullOK(x)'
    OBVIOUS
  <2>1. OnePer(co[Home].pull) /\ \A x \in co[Home].pull : PullOK(x)
    BY DEF HInv, FirstRoundOK
  <2>2. \A x \in co[Home].pull : x.from # d
    BY <1>1, <2>1 DEF PullOK, NoneOf
  <2>3. co'[Home].pull = co[Home].pull \/ co'[Home].pull = co[Home].pull \cup {rep}
    BY <1>7, ReplyAt
  <2> QED
    BY <1>10, <1>12, <2>1, <2>2, <2>3 DEF OnePer
<1>14. Answers
  <2>1. /\ \A r \in Replica \ {Home} : co'[r] = co[r]
        /\ co'[Home].pc = co[Home].pc /\ co'[Home].run = co[Home].run
        /\ co'[Home].sid = co[Home].sid /\ co'[Home].propose = co[Home].propose
        /\ co'[Home].prep_ok = co[Home].prep_ok /\ co'[Home].todo = co[Home].todo
        /\ co'[Home].prep = co[Home].prep
        /\ co'[Home].rec = co[Home].rec /\ co'[Home].accept = co[Home].accept
    BY <1>7, ReplyAt
  <2>2. co[Home].pc = "round2" => OnePer(co[Home].rec) /\ co[Home].sid \in DOMAIN recset[Home]
    BY DEF HInv, SecondRoundOK
  <2> QED
    BY <1>7, <1>13, <2>1, <2>2 DEF Answers
<1> QED
  BY <1>5, <1>7, <1>8, <1>9, <1>14, ServeKeeps

(* What an unchanged event leaves of the first and of the second round.     *)
LEMMA SameEvents ==
  ASSUME RInv, HInv, UNCHANGED recset,
         \A r \in Replica \ {Home} : co'[r] = co[r],
         co'[Home].pc = co[Home].pc, co'[Home].run = co[Home].run,
         co'[Home].sid = co[Home].sid, co'[Home].propose = co[Home].propose,
         co'[Home].prep_ok = co[Home].prep_ok, co'[Home].todo = co[Home].todo,
         co'[Home].pull = co[Home].pull, co'[Home].rec = co[Home].rec,
         co[Home].pc = "round1" =>
           \A m \in co'[Home].prep : m \in co[Home].prep \/ (m.ok /\ m.abal = -1),
         co[Home].pc = "round2" => \A m \in co'[Home].accept : m \in co[Home].accept \/ m.ok
  PROVE  Answers
<1>1. /\ co[Home].pc = "round1" => OnePer(co[Home].pull)
      /\ co[Home].pc = "round2" => OnePer(co[Home].rec) /\ co[Home].sid \in DOMAIN recset[Home]
  BY DEF HInv, FirstRoundOK, SecondRoundOK
<1> QED
  BY <1>1 DEF Answers

(* Prepare: Home's ballot is accepted, and no sid was accepted before it.   *)
LEMMA PrepareHome ==
  ASSUME RInv, HInv, NEW d \in Replica, Taken(d), NEW m, m = Head(chan[Home][d]),
         m.type = "Prepare", OnPrepare(Home, d, m)
  PROVE  HInv'
<1>1. RequestOK(m, d) /\ Home \in Replica
  BY TakenAt
<1>2. m.oe = srv[Home].oe /\ m.je >= srv[d].je /\ m.bal = -1
  BY <1>1 DEF RequestOK
<1>3. /\ srv \in [Replica -> Fields] /\ srv[d] \in Fields
      /\ srv[d].ballot \in Int /\ srv[d].oe \in Int /\ srv[Home].oe \in Int
  BY <1>1, FieldTypes
<1>4. PICK v : v = SeeBallot(srv[d], m)
  OBVIOUS
<1>5. /\ v.pool = srv[d].pool /\ v.trig = srv[d].trig /\ v.je = srv[d].je
      /\ v.oe = srv[d].oe /\ v.status = srv[d].status /\ v.view = srv[d].view
      /\ v.ballot = MaxOf(srv[d].ballot, m.bal) /\ v.abal = srv[d].abal
  BY <1>3, <1>4 DEF SeeBallot, Fields, ServerRecord
<1>6. v.ballot <= 0 /\ (srv[d].ballot = -1 => v.ballot = -1)
  BY <1>2, <1>3, <1>5, NumbersAt DEF MaxOf
<1>7. PICK rep : rep = [from |-> d, ok |-> BallotOk(srv[d], m), seen |-> v.ballot,
                        abal |-> IF BallotOk(srv[d], m) THEN v.abal ELSE -1,
                        sid |-> IF BallotOk(srv[d], m) THEN v.sid ELSE NoSid]
  OBVIOUS
<1>8. /\ srv' = [srv EXCEPT ![d] = v] /\ co' = Reply(Home, m, "prep", rep)
      /\ UNCHANGED <<isl, recset, fin>>
  BY <1>4, <1>7 DEF OnPrepare
<1>9. srv'[d] = v /\ \A r \in Replica \ {d} : srv'[r] = srv[r]
  BY <1>3, <1>8
<1>10. Serves(d)
  BY <1>5, <1>6, <1>8, <1>9, NumbersAt DEF Serves
<1>11. co[Home].pc = "round1" => rep.ok /\ rep.abal = -1
  <2> SUFFICES ASSUME co[Home].pc = "round1" PROVE rep.ok /\ rep.abal = -1
    OBVIOUS
  <2>1. srv[d].ballot = -1 /\ srv[d].abal = -1 /\ srv[d].oe <= srv[Home].oe
    BY NumbersAt
  <2>2. BallotOk(srv[d], m)
    BY <1>2, <1>3, <2>1 DEF BallotOk, EpochOk
  <2> QED
    BY <1>5, <1>7, <2>1, <2>2
<1>12. Answers
  <2>1. /\ \A r \in Replica \ {Home} : co'[r] = co[r]
        /\ co'[Home].pc = co[Home].pc /\ co'[Home].run = co[Home].run
        /\ co'[Home].sid = co[Home].sid /\ co'[Home].propose = co[Home].propose
        /\ co'[Home].prep_ok = co[Home].prep_ok /\ co'[Home].todo = co[Home].todo
        /\ co'[Home].pull = co[Home].pull /\ co'[Home].rec = co[Home].rec
        /\ co'[Home].accept = co[Home].accept
        /\ co'[Home].prep = co[Home].prep \/ co'[Home].prep = co[Home].prep \cup {rep}
    BY <1>8, ReplyAt
  <2> QED
    BY <1>8, <1>11, <2>1, SameEvents
<1> QED
  BY <1>8, <1>10, <1>12, ServeKeeps

(* Accept: Home's ballot is the largest.                                    *)
LEMMA AcceptHome ==
  ASSUME RInv, HInv, NEW d \in Replica, Taken(d), NEW m, m = Head(chan[Home][d]),
         m.type = "Accept", OnAccept(Home, d, m)
  PROVE  HInv'
<1>1. RequestOK(m, d) /\ Home \in Replica
  BY TakenAt
<1>2. m.oe = srv[Home].oe /\ m.je >= srv[d].je /\ m.bal = 0 /\ co[Home].pc # "round1"
  BY <1>1 DEF RequestOK
<1>3. /\ srv \in [Replica -> Fields] /\ srv[d] \in Fields
      /\ srv[d].ballot \in Int /\ srv[d].oe \in Int /\ srv[Home].oe \in Int
  BY <1>1, FieldTypes
<1>4. BallotOk(srv[d], m)
  BY <1>2, <1>3, NumbersAt DEF BallotOk, EpochOk
<1>5. PICK v : v = OnJetpackAccept(srv[d], m)
  OBVIOUS
<1>6. /\ v.pool = srv[d].pool /\ v.trig = srv[d].trig /\ v.je = srv[d].je
      /\ v.oe = srv[d].oe /\ v.status = srv[d].status /\ v.view = srv[d].view
      /\ v.ballot = MaxOf(srv[d].ballot, m.bal)
  BY <1>3, <1>4, <1>5 DEF OnJetpackAccept, SeeBallot, Fields, ServerRecord
<1>7. v.ballot <= 0
  BY <1>2, <1>3, <1>6, NumbersAt DEF MaxOf
<1>8. PICK rep : rep = [from |-> d, ok |-> BallotOk(srv[d], m), seen |-> v.ballot]
  OBVIOUS
<1>9. /\ srv' = [srv EXCEPT ![d] = v] /\ co' = Reply(Home, m, "accept", rep)
      /\ UNCHANGED <<isl, recset, fin>>
  BY <1>5, <1>8 DEF OnAccept
<1>10. srv'[d] = v /\ \A r \in Replica \ {d} : srv'[r] = srv[r]
  BY <1>3, <1>9
<1>11. Serves(d)
  BY <1>2, <1>6, <1>7, <1>9, <1>10 DEF Serves
<1>12. Answers
  <2>1. /\ \A r \in Replica \ {Home} : co'[r] = co[r]
        /\ co'[Home].pc = co[Home].pc /\ co'[Home].run = co[Home].run
        /\ co'[Home].sid = co[Home].sid /\ co'[Home].propose = co[Home].propose
        /\ co'[Home].prep_ok = co[Home].prep_ok /\ co'[Home].todo = co[Home].todo
        /\ co'[Home].pull = co[Home].pull /\ co'[Home].rec = co[Home].rec
        /\ co'[Home].prep = co[Home].prep
        /\ \/ co'[Home].accept = co[Home].accept
           \/ co'[Home].accept = co[Home].accept \cup {rep}
    BY <1>9, ReplyAt
  <2>2. rep.ok
    BY <1>4, <1>8
  <2> QED
    BY <1>2, <1>9, <2>1, <2>2, SameEvents
<1> QED
  BY <1>2, <1>9, <1>11, <1>12, ServeKeeps

(* Commit.                                                                  *)
LEMMA CommitHome ==
  ASSUME RInv, HInv, NEW d \in Replica, Taken(d), NEW m, m = Head(chan[Home][d]),
         m.type = "Commit", OnCommit(Home, d, m)
  PROVE  HInv'
<1>1. srv \in [Replica -> Fields] /\ srv[d] \in Fields
  BY FieldTypes
<1>2. PICK v : v = OnJetpackCommit(srv[d], m)
  OBVIOUS
<1>3. /\ v.pool = srv[d].pool /\ v.trig = srv[d].trig /\ v.je = srv[d].je
      /\ v.oe = srv[d].oe /\ v.status = srv[d].status /\ v.view = srv[d].view
      /\ v.ballot = srv[d].ballot /\ v.abal = srv[d].abal
  BY <1>1, <1>2 DEF OnJetpackCommit, Fields, ServerRecord
<1>4. srv' = [srv EXCEPT ![d] = v] /\ UNCHANGED <<co, isl, recset, fin>>
  BY <1>1, <1>2 DEF OnCommit
<1>5. srv'[d] = v /\ \A r \in Replica \ {d} : srv'[r] = srv[r]
  BY <1>1, <1>4
<1>6. Serves(d)
  BY <1>3, <1>4, <1>5, NumbersAt DEF Serves
<1>7. Answers
  BY <1>4, SameEvents
<1> QED
  BY <1>4, <1>6, <1>7, ServeKeeps

(* A recovered command reaches Home, which leads.                           *)
LEMMA RedispatchHome ==
  ASSUME RInv, HInv, NEW d \in Replica, Taken(d), NEW m, m = Head(chan[Home][d]),
         m.type = "Dispatch", OnDispatch(Home, d, m)
  PROVE  HInv'
<1>1. RequestOK(m, d) /\ Home \in Replica /\ elections = 1
  BY TakenAt
<1>2. d \in isl
  BY <1>1 DEF RequestOK, Taken, HInv, Stage
<1>3. UNCHANGED <<srv, isl, recset, fin, co>>
  BY <1>2 DEF OnDispatch
<1>4. Serves(d)
  BY <1>3, NumbersAt DEF Serves
<1>5. Answers
  BY <1>3, SameEvents
<1> QED
  BY <1>3, <1>4, <1>5, ServeKeeps

(* RecordCmd: d records the set and sends what Home misses of it.           *)
LEMMA RecordHome ==
  ASSUME RInv, HInv, NEW d \in Replica, Taken(d), NEW m, m = Head(chan[Home][d]),
         m.type = "Record", OnRecord(Home, d, m)
  PROVE  HInv'
<1>1. /\ RequestOK(m, d) /\ m \in Elems(chan[Home][d]) /\ Home \in Replica
      /\ Closed(d) /\ NoneOf(chan'[Home][d], "Record")
  BY TakenAt
<1>2. m.oe = srv[Home].oe /\ m.je >= srv[d].je /\ co[Home].pc # "round1"
  BY <1>1 DEF RequestOK
<1>3. EpochOk(srv[d], m)
  <2>1. srv[d].oe <= srv[Home].oe /\ srv[d].oe \in Int /\ srv[Home].oe \in Int
    BY <1>1, NumbersAt, FieldTypes
  <2> QED
    BY <1>2, <2>1 DEF EpochOk
<1>4. PICK rep : rep = [from |-> d, ok |-> TRUE, cmds |-> {c \in m.missing : Held(d, c)}]
  OBVIOUS
<1>5. /\ recset' = [recset EXCEPT ![d] = Put(recset[d], m.sid, m.ids)]
      /\ co' = Reply(Home, m, "rec", rep) /\ UNCHANGED <<srv, isl, fin>>
  BY <1>3, <1>4 DEF OnRecord
<1>6. rep.from = d /\ rep.cmds = {c \in m.missing : Held(d, c)}
  BY <1>4
<1>7. UNCHANGED <<log, acc>>
  BY DEF Taken
<1>8. Serves(d)
  BY <1>5, NumbersAt DEF Serves
<1>9. ASSUME co[Home].pc = "round2"
      PROVE  /\ co[Home].sid \in DOMAIN recset'[Home]
             /\ recset'[Home][co[Home].sid] = recset[Home][co[Home].sid]
  <2>1. m.sid = co[Home].sid /\ m.ids = recset[Home][co[Home].sid]
        /\ co[Home].sid \in DOMAIN recset[Home]
    BY <1>1, <1>9 DEF HInv, SecondRoundOK, RecordOK
  <2>2. DOMAIN recset = Replica
    BY DEF RInv, Types, SetsOK
  <2>3. recset'[Home] = recset[Home] \/ recset'[Home] = Put(recset[Home], m.sid, m.ids)
    BY <1>1, <1>5, <2>2
  <2> QED
    BY <2>1, <2>3 DEF Put
<1>10. ASSUME co[Home].pc = "round2", co'[Home].sid = co[Home].sid PROVE RecOK(rep)'
  <2>1. fin[d] = 0
    BY <1>10, NumbersAt
  <2>2. /\ \A c \in m.ids : c \in m.missing \/ Held(Home, c) \/ InLog(c)
        /\ m.ids = recset[Home][co[Home].sid]
    BY <1>1, <1>10 DEF HInv, SecondRoundOK, RecordOK
  <2>3. \A w \in Writes : FirstPromise(w, d) => InLog(w) \/ Held(d, w)
    BY <2>1, FirstNamed
  <2>4. \A w \in Writes \cap m.ids :
          FirstPromise(w, d) => w \in rep.cmds \/ Held(Home, w) \/ InLog(w)
    BY <1>6, <2>2, <2>3
  <2>5. \A w : /\ FirstPromise(w, d)' <=> FirstPromise(w, d)
               /\ Held(Home, w)' <=> Held(Home, w)
               /\ InLog(w)' <=> InLog(w)
    BY <1>5, <1>7 DEF FirstPromise, Held, InLog
  <2>6. recset'[Home][co'[Home].sid] = m.ids
    BY <1>9, <1>10, <2>2
  <2>7. Closed(d)'
    BY <1>1, <1>5 DEF Closed
  <2> QED
    BY <1>1, <1>6, <2>4, <2>5, <2>6, <2>7 DEF RecOK
<1>11. Answers
  <2>1. /\ \A r \in Replica \ {Home} : co'[r] = co[r]
        /\ co'[Home].pc = co[Home].pc /\ co'[Home].run = co[Home].run
        /\ co'[Home].sid = co[Home].sid /\ co'[Home].propose = co[Home].propose
        /\ co'[Home].prep_ok = co[Home].prep_ok /\ co'[Home].todo = co[Home].todo
        /\ co'[Home].accept = co[Home].accept
        /\ co'[Home].rec = co[Home].rec \/ co'[Home].rec = co[Home].rec \cup {rep}
    BY <1>5, ReplyAt
  <2>2. ASSUME co[Home].pc = "round2"
        PROVE  /\ OnePer(co'[Home].rec)
               /\ \A x \in co'[Home].rec : x \in co[Home].rec \/ RecOK(x)'
    <3>1. OnePer(co[Home].rec) /\ \A x \in co[Home].rec : RecOK(x)
      BY <2>2 DEF HInv, SecondRoundOK
    <3>2. \A x \in co[Home].rec : x.from # d
      BY <1>1, <3>1 DEF RecOK, NoneOf
    <3> QED
      BY <1>6, <1>10, <2>1, <2>2, <3>1, <3>2 DEF OnePer
  <2> QED
    BY <1>2, <1>9, <2>1, <2>2 DEF Answers
<1> QED
  BY <1>5, <1>8, <1>11, ServeKeeps

(* FinishRecovery: d empties its pool, for all of it is settled.            *)
LEMMA FinishHome ==
  ASSUME RInv, HInv, NEW d \in Replica, Taken(d), NEW m, m = Head(chan[Home][d]),
         m.type = "Finish", OnFinish(Home, d, m)
  PROVE  HInv'
<1>1. /\ RequestOK(m, d) /\ Home \in Replica
      /\ \A r, e \in Replica :
           chan'[r][e] = IF r = Home /\ e = d THEN Tail(chan[r][e]) ELSE chan[r][e]
      /\ Closed(d) /\ chan'[Home][d] = << >>
      /\ co[Home].run > 0 /\ elections = 1
  BY TakenAt
<1>2. m.oe = srv[Home].oe /\ ~Unfinished /\ fin[d] = 0
  BY <1>1 DEF RequestOK
<1>3. /\ srv \in [Replica -> Fields] /\ srv[d] \in Fields /\ co[Home].run \in Nat
      /\ \A r \in Replica : srv[r].oe \in Int
  BY <1>1, FieldTypes
<1>4. srv[d].oe <= m.oe /\ \A r \in Replica : srv[r].oe <= srv[Home].oe /\ srv[r].ballot <= 0
  BY <1>2 DEF HInv, Numbers
<1>5. PICK v : v = OnJetpackFinishRecovery(srv[d], m)
  OBVIOUS
<1>6. /\ v.trig = srv[d].trig /\ v.oe = srv[Home].oe /\ v.view = srv[d].view
      /\ v.ballot = -1 /\ v.status = "READY"
  <2>1. v = [ResetPool(srv[d]) EXCEPT !.je = m.oe, !.oe = m.oe, !.status = "READY"]
    BY <1>1, <1>2, <1>3, <1>4, <1>5 DEF OnJetpackFinishRecovery
  <2>2. PICK u : u = ResetPool(srv[d])
    OBVIOUS
  <2>3. u \in Fields /\ u.trig = srv[d].trig /\ u.ballot = -1 /\ u.view = srv[d].view
    BY <1>3, <2>2, ResetPoolKeeps DEF ResetPool, Fields, ServerRecord
  <2> QED
    BY <1>2, <2>1, <2>2, <2>3 DEF Fields, ServerRecord
<1>7. /\ srv' = [srv EXCEPT ![d] = v] /\ fin' = [fin EXCEPT ![d] = 1]
      /\ co' = Reply(Home, m, "ack", d) /\ UNCHANGED isl
  <2>1. fin \in [Replica -> {0, 1}] /\ m.oe >= srv[d].oe
    BY <1>1, <1>2, <1>3, <1>4 DEF HInv, Kept
  <2> QED
    BY <1>2, <1>5, <2>1 DEF OnFinish
<1>8. /\ srv'[d] = v /\ \A r \in Replica \ {d} : srv'[r] = srv[r]
      /\ fin'[d] = 1 /\ \A r \in Replica \ {d} : fin'[r] = fin[r]
      /\ fin' \in [Replica -> {0, 1}]
  BY <1>3, <1>7 DEF HInv, Kept
<1>9. /\ \A r \in Replica \ {Home} : co'[r] = co[r]
      /\ co'[Home].pc = co[Home].pc /\ co'[Home].run = co[Home].run
  BY <1>7, ReplyAt
<1>10. UNCHANGED <<up, log, elections, acc>>
  BY DEF Taken
<1>11. ~Unfinished' /\ co'[Home].run # 0 /\ co'[Home].run > 0
       /\ co'[Home].pc \notin {"round1", "round2", "resubmit"}
  BY <1>1, <1>2, <1>3, <1>9 DEF Unfinished
<1>12. Alone' /\ Stage'
  <2>1. Alone'
    BY <1>1, <1>6, <1>8, <1>9 DEF HInv, Alone
  <2>2. ~srv'[Home].trig /\ srv'[Home].view = Home
    BY <1>1, <1>6, <1>8 DEF HInv, Stage
  <2>3. Home \in up' => Home \in isl'
    BY <1>1, <1>7, <1>10 DEF HInv, Stage
  <2> QED
    BY <1>1, <1>10, <1>11, <2>1, <2>2, <2>3 DEF Stage
<1>13. \A r \in Replica : Closed(r) => Closed(r)'
  <2>1. fin'[d] > 0
    BY <1>8
  <2> QED
    BY <1>8, <2>1 DEF Closed
<1>14. Growing
  BY <1>10, <1>13 DEF Growing, FirstPromise, InLog
<1>15. Queues'
  <2>1. ASSUME NEW e \in Replica, e # d, NEW x, RequestOK(x, e) PROVE RequestOK(x, e)'
    <3>1. srv'[Home].oe = srv[Home].oe /\ srv'[e].je = srv[e].je /\ fin'[e] = fin[e]
      BY <1>1, <1>6, <1>8, <2>1
    <3> QED
      BY <1>9, <1>11, <2>1, <3>1 DEF RequestOK
  <2>2. ASSUME NEW e \in Replica
        PROVE  /\ Ordered(chan'[Home][e])
               /\ \A x \in Elems(chan'[Home][e]) : RequestOK(x, e)'
               /\ NoneOf(chan'[Home][e], "Pull") => Closed(e)'
    <3>1. CASE e = d
      BY <1>1, <1>13, <3>1 DEF Ordered, Elems
    <3>2. CASE e # d
      <4>1. chan'[Home][e] = chan[Home][e]
        BY <1>1, <3>2
      <4> QED
        BY <1>1, <1>13, <2>1, <3>2, <4>1 DEF HInv, Queues
    <3> QED
      BY <3>1, <3>2
  <2> QED
    BY <2>2 DEF Queues, NoneOf, Ordered, Elems
<1>16. Numbers'
  <2>1. \A r \in Replica : srv'[r].oe <= srv'[Home].oe /\ srv'[r].ballot <= 0
    BY <1>1, <1>3, <1>4, <1>6, <1>8
  <2> QED
    BY <1>11, <2>1 DEF Numbers
<1>17. Kept'
  <2>1. acc \subseteq [cmd: Cmd, from: Replica, gen: Nat, ldr: BOOLEAN]
        /\ \A a \in acc : a.gen <= fin[a.from]
    BY DEF HInv, Kept
  <2>2. \A a \in acc : a.from \in Replica /\ a.gen \in Nat /\ (a.from = d => a.gen = 0)
    BY <1>2, <2>1
  <2>3. \A a \in acc' : a.gen <= fin'[a.from]
    <3> SUFFICES ASSUME NEW a \in acc PROVE a.gen <= fin'[a.from]
      BY <1>10
    <3> QED
      BY <1>8, <2>1, <2>2
  <2>4. ASSUME NEW r \in Replica, NEW w \in Writes, LastPromise(w, r)'
        PROVE  InLog(w)' \/ Names(srv[r].pool, w)'
    <3>1. r # d
      BY <1>8, <1>10, <2>2, <2>4 DEF LastPromise
    <3>2. srv'[r] = srv[r] /\ fin'[r] = fin[r]
      BY <1>8, <3>1
    <3>3. LastPromise(w, r)
      BY <1>10, <2>4, <3>2 DEF LastPromise
    <3> QED
      BY <1>10, <3>2, <3>3 DEF HInv, Kept, InLog, Names
  <2> QED
    BY <1>8, <1>10, <2>1, <2>3, <2>4 DEF Kept
<1>18. FirstRoundOK' /\ SecondRoundOK'
  BY <1>11 DEF FirstRoundOK, SecondRoundOK
<1>19. LaterOK'
  <2>1. Settled({})'
    BY <1>2, <1>14, SettledKept DEF HInv, LaterOK
  <2> QED
    BY <1>11, <2>1 DEF LaterOK
<1> QED
  BY <1>12, <1>15, <1>16, <1>17, <1>18, <1>19 DEF HInv

(* Every request of Home is handled; no other replica sends one.            *)
LEMMA DeliverHome ==
  ASSUME RInv, HInv, NEW s \in Replica, NEW d \in Replica, Deliver(s, d)
  PROVE  HInv'
<1>1. s = Home
  BY DEF Deliver, HInv, Alone
<1>2. Taken(d)
  BY <1>1 DEF Deliver, Taken, clientVars
<1>3. PICK m : m = Head(chan[Home][d])
  OBVIOUS
<1>4. \/ m.type = "Pull" /\ OnPull(Home, d, m)
      \/ m.type = "Prepare" /\ OnPrepare(Home, d, m)
      \/ m.type = "Record" /\ OnRecord(Home, d, m)
      \/ m.type = "Accept" /\ OnAccept(Home, d, m)
      \/ m.type = "Commit" /\ OnCommit(Home, d, m)
      \/ m.type = "Finish" /\ OnFinish(Home, d, m)
      \/ m.type = "Dispatch" /\ OnDispatch(Home, d, m)
  BY <1>1, <1>3 DEF Deliver
<1> QED
  BY <1>2, <1>3, <1>4, PullHome, PrepareHome, RecordHome, AcceptHome, CommitHome,
     FinishHome, RedispatchHome

--------------------------------------------------------------------------------
(* Elections are never undone.                                              *)
LEMMA OnlyHomeBefore ==
  ASSUME RInv, [Next]_vars, OnlyHomeElected'
  PROVE  OnlyHomeElected
<1>1. elections \in Nat
  BY FieldTypes
<1>2. CASE UNCHANGED <<elections, leader>>
  BY <1>2 DEF OnlyHomeElected
<1>3. CASE elections' = elections + 1
  BY <1>1, <1>3 DEF OnlyHomeElected
<1>4. CASE UNCHANGED vars
  BY <1>2, <1>4 DEF vars, baseVars
<1>5. CASE \E c \in Cmd : Dispatch(c) \/ \E r \in Replica : SpecExec(c, r)
  BY <1>2, <1>5 DEF Dispatch, SpecExec, baseVars
<1>6. CASE BaseCommit
  BY <1>2, <1>6 DEF BaseCommit
<1>7. CASE \E r \in Replica : Apply(r) \/ Elect(r) \/ StepDown(r) \/ Crash(r)
  BY <1>2, <1>3, <1>7 DEF Apply, Elect, StepDown, Crash
<1>8. CASE \E r \in Replica : Coroutine(r)
  <2>1. PICK r \in Replica : Coroutine(r)
    BY <1>8
  <2>2. UNCHANGED baseVars
    BY <2>1 DEF Coroutine, StartRecovery, Round1Fails, Round1Proposes, Round2Fails,
       Round2Commits, Resubmitted, RecoveryDone
  <2> QED
    BY <1>2, <2>2 DEF baseVars
<1>9. CASE \E s, d \in Replica : Deliver(s, d)
  BY <1>2, <1>9 DEF Deliver
<1> QED
  BY <1>4, <1>5, <1>6, <1>7, <1>8, <1>9 DEF Next

(* The recovery coroutine, which runs on Home only and does not fail.       *)
LEMMA CoroutineHome ==
  ASSUME NoTies, RInv, HInv, NEW r \in Replica, Coroutine(r)
  PROVE  HInv'
<1>1. r = Home
  <2> SUFFICES ASSUME r # Home PROVE FALSE
    OBVIOUS
  <2>1. ~srv[r].trig /\ co[r].pc = "idle"
    BY DEF HInv, Alone
  <2> QED
    BY <2>1 DEF Coroutine, StartRecovery, Round1Fails, Round1Proposes, Round2Fails,
       Round2Commits, Resubmitted, RecoveryDone, Round1Replies, Round2Replies
<1>2. ~Round1Fails(Home)
  BY FirstRoundReady DEF Round1Fails
<1> QED
  BY <1>1, <1>2, StartRecoveryHome, Round1ProposesHome, NoRound2Fails, Round2CommitsHome,
     ResubmittedHome, RecoveryDoneHome DEF Coroutine

(* Every step.                                                              *)
LEMMA NextHome ==
  ASSUME NoTies, RInv, HInv, OnlyHomeElected, OnlyHomeElected', [Next]_vars
  PROVE  HInv'
<1>1. CASE UNCHANGED vars
  <2>1. UNCHANGED <<up, isl, log, srv, co, chan, fin, recset, elections, acc>>
    BY <1>1 DEF vars, baseVars, clientVars, setVars
  <2>2. Growing /\ SameFields /\ Kept' /\ \A x : Held(Home, x) => Held(Home, x)'
    BY <2>1 DEF Growing, InLog, Closed, FirstPromise, SameFields, HInv, Kept, LastPromise, Held
  <2> QED
    BY <2>1, <2>2, QuietStep DEF HInv, Stage
<1>2. CASE \E c \in Cmd : Dispatch(c) \/ \E r \in Replica : SpecExec(c, r)
  BY <1>2, DispatchHome, SpecExecHome
<1>3. CASE BaseCommit
  BY <1>3, BaseCommitHome
<1>4. CASE \E r \in Replica : Apply(r) \/ Elect(r) \/ StepDown(r) \/ Crash(r)
  BY <1>4, ApplyHome, ElectHome, StepDownHome, CrashHome
<1>5. CASE \E r \in Replica : Coroutine(r)
  BY <1>5, CoroutineHome
<1>6. CASE \E s, d \in Replica : Deliver(s, d)
  BY <1>6, DeliverHome
<1> QED
  BY <1>1, <1>2, <1>3, <1>4, <1>5, <1>6 DEF Next

(* Whom a fast quorum of one generation counts, still names the write, or   *)
(* the write is in the log.                                                 *)
LEMMA QuorumStillNames ==
  ASSUME RInv, HInv, NEW w \in Writes, NEW g \in {fin[r] : r \in Replica},
         FastQuorum(Promises(w, g)), ~InLog(w),
         NEW q \in {a.from : a \in Promises(w, g)}
  PROVE  q \in Replica /\ w \in ToRecover(srv[q].pool)
<1>1. PICK a \in acc : a.cmd = w /\ a.gen = g /\ a.from = q
  BY DEF Promises
<1>2. /\ acc \subseteq [cmd: Cmd, from: Replica, gen: Nat, ldr: BOOLEAN]
      /\ fin \in [Replica -> {0, 1}] /\ \A b \in acc : b.gen <= fin[b.from]
  BY DEF HInv, Kept
<1>3. q \in Replica /\ g \in {0, 1} /\ fin[q] \in {0, 1} /\ g <= fin[q]
  BY <1>1, <1>2
<1>4. g = 0 => Unfinished
  <2> SUFFICES ASSUME g = 0, ~Unfinished PROVE FALSE
    OBVIOUS
  <2>1. PICK X \in SUBSET Replica : X = {b.from : b \in Promises(w, g)}
    BY <1>2 DEF Promises
  <2>2. PICK Y \in SUBSET Replica : Y = Possible(w)
    BY DEF Possible
  <2>3. X \subseteq Y
    BY <2>1, <2>2 DEF Possible, FirstPromise, Promises
  <2>4. Cardinality(Y) >= RuleSuperMajority
    <3>1. Cardinality(X) >= RuleSuperMajority
      BY <2>1 DEF FastQuorum
    <3>2. Cardinality(X) <= Cardinality(Y) /\ Cardinality(X) \in Nat /\ Cardinality(Y) \in Nat
      BY <2>3, Overlap
    <3> QED
      BY <3>1, <3>2, QuorumFacts
  <2> QED
    BY <2>2, <2>4 DEF HInv, LaterOK, Settled
<1>5. g = fin[q]
  <2>1. g = 0 => fin[q] = 0
    BY <1>3, <1>4 DEF HInv, Numbers
  <2> QED
    BY <1>3, <2>1
<1>6. Names(srv[q].pool, w)
  BY <1>1, <1>3, <1>5 DEF LastPromise, HInv, Kept
<1>7. w \in Cmd /\ PoolOK(srv[q].pool)
  BY <1>3, PoolAssumption, FieldTypes DEF PoolAssumption
<1> QED
  BY <1>3, <1>6, <1>7, NamedReported

(* A fast quorum that still names a write shares enough with every quorum.  *)
LEMMA FastCommitsKept ==
  ASSUME RInv, HInv
  PROVE  FastCommitRecoverable
<1> SUFFICES ASSUME NEW w \in Writes, NEW g \in {fin[r] : r \in Replica},
                    FastQuorum(Promises(w, g)), ~InLog(w),
                    NEW Q \in SUBSET Replica, Cardinality(Q) >= Quorum
             PROVE  Cardinality({r \in Q : w \in ToRecover(srv[r].pool)}) >= majority_threshold
  BY DEF FastCommitRecoverable, Recoverable
<1>1. PICK X \in SUBSET Replica : X = {a.from : a \in Promises(w, g)}
  BY QuorumStillNames
<1>2. PICK Y \in SUBSET Replica : Y = {r \in Q : w \in ToRecover(srv[r].pool)}
  OBVIOUS
<1>3. X \cap Q \subseteq Y
  BY <1>1, <1>2, QuorumStillNames
<1>4. Cardinality(X) >= RuleSuperMajority
  BY <1>1 DEF FastQuorum
<1>5. /\ Cardinality(X) \in Nat /\ Cardinality(Q) \in Nat /\ Cardinality(X \cap Q) \in Nat
      /\ Cardinality(X \cap Q) >= Cardinality(X) + Cardinality(Q) - N
  BY Overlap
<1>6. Cardinality(X \cap Q) <= Cardinality(Y) /\ Cardinality(Y) \in Nat
  <2>1. X \cap Q \in SUBSET Replica
    OBVIOUS
  <2> QED
    BY <1>3, <2>1, Overlap
<1> QED
  BY <1>2, <1>4, <1>5, <1>6, QuorumFacts

(* A replica was reset: FinishRecovery was broadcast, and all is settled.   *)
LEMMA FinishedSettled ==
  ASSUME RInv, HInv
  PROVE  FinishKeepsPromises
<1> SUFFICES ASSUME NEW r \in Replica, fin[r] > 0, NEW w \in Writes,
                    FastQuorum(Promises(w, 0))
             PROVE  InLog(w)
  BY DEF FinishKeepsPromises
<1>1. ~Unfinished
  BY DEF HInv, Numbers
<1>2. acc \subseteq [cmd: Cmd, from: Replica, gen: Nat, ldr: BOOLEAN]
  BY DEF HInv, Kept
<1>3. PICK X \in SUBSET Replica : X = {b.from : b \in Promises(w, 0)}
  BY <1>2 DEF Promises
<1>4. PICK Y \in SUBSET Replica : Y = Possible(w)
  BY DEF Possible
<1>5. X \subseteq Y
  BY <1>3, <1>4 DEF Possible, FirstPromise, Promises
<1>6. Cardinality(Y) >= RuleSuperMajority
  <2>1. Cardinality(X) >= RuleSuperMajority
    BY <1>3 DEF FastQuorum
  <2>2. Cardinality(X) <= Cardinality(Y) /\ Cardinality(X) \in Nat /\ Cardinality(Y) \in Nat
    BY <1>5, Overlap
  <2> QED
    BY <2>1, <2>2, QuorumFacts
<1> QED
  BY <1>1, <1>4, <1>6 DEF HInv, LaterOK, Settled

(* As long as the only election was of the replica to which commands are    *)
(* dispatched, if no replica started with larger epochs and two commands    *)
(* cannot tie: a write that a fast quorum promised is in the committed log  *)
(* or would be recovered by every quorum, in every state of Home's          *)
(* recovery, whoever else crashes and whatever order the requests and       *)
(* replies, the client's promises, the commits and the applies come in.     *)
THEOREM FastCommitsSurvive ==
  ASSUME NoTies, HomeEpochsLead
  PROVE  Spec => [](OnlyHomeElected => FastCommitRecoverable)
<1> DEFINE I == OnlyHomeElected => HInv
<1>1. Init => I
  BY InitHome
<1>2. RInv /\ I /\ [Next]_vars => I'
  BY OnlyHomeBefore, NextHome
<1>3. RInv /\ I => (OnlyHomeElected => FastCommitRecoverable)
  BY FastCommitsKept
<1> HIDE DEF I
<1> QED
  BY <1>1, <1>2, <1>3, AlwaysTypes, PTL DEF Spec

(* Under the same conditions, as soon as Home's FinishRecovery has emptied  *)
(* one replica's pool and for ever after, every write that a fast quorum    *)
(* promised before the resets is in the committed log.                      *)
THEOREM FinishAfterCommits ==
  ASSUME NoTies, HomeEpochsLead
  PROVE  Spec => [](OnlyHomeElected => FinishKeepsPromises)
<1> DEFINE I == OnlyHomeElected => HInv
<1>1. Init => I
  BY InitHome
<1>2. RInv /\ I /\ [Next]_vars => I'
  BY OnlyHomeBefore, NextHome
<1>3. RInv /\ I => (OnlyHomeElected => FinishKeepsPromises)
  BY FinishedSettled
<1> HIDE DEF I
<1> QED
  BY <1>1, <1>2, <1>3, AlwaysTypes, PTL DEF Spec
================================================================================
