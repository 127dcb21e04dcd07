--------------------------- MODULE CommandPoolProofs ---------------------------
(***************************************************************************)
(* What a replica's command pool guarantees for every set of commands and  *)
(* keys: its type invariant, the assertion of RevoveryCandidates::         *)
(* push_back, that a promised write is the one reported to recovery, that  *)
(* the counters are exact, and the action properties of CommandPool.       *)
(***************************************************************************)
EXTENDS CommandPool, JetpackPoolProofs

(* Only fast-path commands are promised, and only on their first delivery:  *)
(* a promised command is never pushed again.                                *)
PromisedFast == accepted \subseteq delivered \ OrigOnly

IInv == TypeOK /\ PoolOK(pool) /\ PromisedNamed(pool, accepted) /\ PromisedFast

--------------------------------------------------------------------------------
(* PushBack keeps the invariant when its command was never promised.        *)
LEMMA PushBackPreserves ==
  ASSUME IInv, NEW c \in Cmd, NEW promise \in BOOLEAN, PushBack(c, promise),
         c \notin accepted
  PROVE  /\ PoolOK(pool') /\ PromisedNamed(pool', accepted')
         /\ accepted' \in SUBSET Cmd /\ dup' \in BOOLEAN
         /\ accepted' \subseteq accepted \cup {c}
         /\ ~promise => accepted' = accepted
<1> USE DEF IInv, TypeOK
<1>1. CASE status = "RECOVERY"
  BY <1>1 DEF PushBack
<1>2. CASE status # "RECOVERY"
  <2>1. /\ pool' = PoolPush(pool, c)
        /\ dup' = (dup \/ c \in pool.cand[KeyOf[c]].cmds)
        /\ accepted' = IF promise /\ PushOk(pool, c)
                       THEN accepted \cup {c} ELSE accepted
    BY <1>2 DEF PushBack
  <2>2. PoolOK(pool')
    BY <2>1, PoolPushOK
  <2>3. PromisedNamed(pool', accepted')
    BY <2>1, PoolPushPromises
  <2> QED
    BY <2>1, <2>2, <2>3
<1> QED
  BY <1>1, <1>2

(* So does the placeholder of an original-path command.                     *)
LEMMA PlaceHolderPreserves ==
  ASSUME IInv, NEW c \in OrigOnly, PlaceHolder(c)
  PROVE  /\ PoolOK(pool') /\ PromisedNamed(pool', accepted')
         /\ accepted' = accepted /\ dup' \in BOOLEAN
         /\ inflight' \in [Cmd -> Nat]
<1> USE CommandPoolAssumption
<1>0. c \in Cmd /\ c \notin accepted
  BY DEF IInv, PromisedFast
<1>1. CASE skip_pool
  BY <1>1, <1>0 DEF PlaceHolder, IInv, TypeOK
<1>2. CASE ~skip_pool
  <2>1. PushBack(c, FALSE) /\ inflight' = inflight
    BY <1>2 DEF PlaceHolder
  <2> QED
    BY <1>0, <2>1, PushBackPreserves DEF IInv, TypeOK
<1> QED
  BY <1>1, <1>2

(* Every step keeps the inductive invariant.                                *)
LEMMA IInvStep == IInv /\ [Next]_vars => IInv'
<1> SUFFICES ASSUME IInv, [Next]_vars PROVE IInv'
  OBVIOUS
<1> USE PoolAssumption, CommandPoolAssumption
<1>1. ASSUME NEW c \in Cmd, RuleSpeculativeExecute(c) PROVE IInv'
  <2>1. c \notin accepted
    BY <1>1 DEF RuleSpeculativeExecute, IInv, PromisedFast
  <2>2. /\ PoolOK(pool') /\ PromisedNamed(pool', accepted')
        /\ accepted' \in SUBSET Cmd /\ dup' \in BOOLEAN
        /\ accepted' \subseteq accepted \cup {c}
    <3>1. CASE PushBack(c, TRUE)
      BY <2>1, <3>1, PushBackPreserves
    <3>2. CASE UNCHANGED <<pool, dup, accepted>>
      BY <3>2 DEF IInv, TypeOK
    <3> QED
      BY <1>1, <3>1, <3>2 DEF RuleSpeculativeExecute
  <2>3. TypeOK'
    BY <1>1, <2>2 DEF IInv, TypeOK, RuleSpeculativeExecute, PoolOK
  <2>4. PromisedFast'
    BY <1>1, <2>2 DEF IInv, PromisedFast, RuleSpeculativeExecute
  <2> QED
    BY <2>2, <2>3, <2>4 DEF IInv
<1>2. ASSUME NEW c \in Cmd, Dispatch(c) PROVE IInv'
  <2>1. /\ PoolOK(pool') /\ PromisedNamed(pool', accepted')
        /\ accepted' = accepted /\ dup' \in BOOLEAN
        /\ inflight' \in [Cmd -> Nat]
    BY <1>2, PlaceHolderPreserves DEF Dispatch
  <2>2. TypeOK' /\ PromisedFast'
    BY <1>2, <2>1 DEF IInv, TypeOK, Dispatch, PromisedFast, PoolOK
  <2> QED
    BY <2>1, <2>2 DEF IInv
<1>3. ASSUME NEW c \in Cmd, DispatchRecovered(c) PROVE IInv'
  <2>1. /\ PoolOK(pool') /\ PromisedNamed(pool', accepted')
        /\ accepted' = accepted /\ dup' \in BOOLEAN
        /\ inflight' \in [Cmd -> Nat]
    BY <1>3, PlaceHolderPreserves DEF DispatchRecovered
  <2>2. TypeOK' /\ PromisedFast'
    BY <1>3, <2>1 DEF IInv, TypeOK, DispatchRecovered, PromisedFast, PoolOK
  <2> QED
    BY <2>1, <2>2 DEF IInv
<1>4. ASSUME NEW c \in Cmd, Apply(c) PROVE IInv'
  <2>1. /\ PoolOK(pool') /\ PromisedNamed(pool', accepted)
        /\ inflight' \in [Cmd -> Nat]
    <3>1. CASE skip_pool /\ c \in OrigOnly
      BY <1>4, <3>1 DEF Apply, RuleCommandPoolGC, IInv, TypeOK
    <3>2. CASE ~(skip_pool /\ c \in OrigOnly)
      <4>1. pool' = PoolRemove(pool, c) /\ inflight' = inflight
        BY <1>4, <3>2 DEF Apply, RuleCommandPoolGC
      <4> QED
        BY <4>1, PoolRemoveOK DEF IInv, TypeOK
    <3> QED
      BY <3>1, <3>2
  <2>2. TypeOK' /\ PromisedFast'
    BY <1>4, <2>1 DEF IInv, TypeOK, Apply, PromisedFast, PoolOK
  <2> QED
    BY <1>4, <2>1, <2>2 DEF IInv, Apply
<1>5. CASE PullRecovery
  <2>1. \A k \in Key : CmdToRecover(pool.cand[k]) \in CmdOrNone
    BY DEF CmdToRecover, IInv, PoolOK, BucketOK, Bucket, CmdOrNone
  <2>2. ToRecover(pool) \subseteq Cmd
    BY <2>1 DEF ToRecover, CmdOrNone
  <2> QED
    BY <1>5, <2>2 DEF PullRecovery, IInv, TypeOK, PromisedFast
<1>6. CASE FinishRecovery \/ RecoveryFails
  BY <1>6, EmptyPoolOK
     DEF FinishRecovery, RecoveryFails, IInv, TypeOK, PromisedFast, PromisedNamed, PoolOK
<1>7. CASE BeginRecovery \/ SetIsLeader \/ PauseOrResume \/ UNCHANGED vars
  BY <1>7 DEF BeginRecovery, SetIsLeader, PauseOrResume, vars, IInv, TypeOK,
              PromisedFast
<1> QED
  BY <1>1, <1>2, <1>3, <1>4, <1>5, <1>6, <1>7 DEF Next

(* The inductive invariant holds initially.                                 *)
LEMMA IInvInit == Init => IInv
<1> SUFFICES ASSUME Init PROVE IInv
  OBVIOUS
<1>1. TypeOK
  BY EmptyPoolOK DEF Init, TypeOK, PoolOK
<1> QED
  BY <1>1, EmptyPoolOK DEF Init, IInv, PromisedFast, PromisedNamed

--------------------------------------------------------------------------------
(* The type invariant of a replica's fast path.                             *)
THEOREM TypeCorrect == Spec => []TypeOK
<1>1. IInv => TypeOK
  BY DEF IInv
<1> QED
  BY <1>1, IInvInit, IInvStep, PTL DEF Spec

(* verify(to_recover_id_ == (uint64_t)(-1)) in push_back never fails, and a *)
(* bucket counts at least the writes it holds, for any commands and keys.   *)
THEOREM RecoverIdSound == Spec => []RecoverIdTracksWrites
<1>1. IInv => RecoverIdTracksWrites
  BY DEF IInv, PoolOK, BucketOK, RecoverIdTracksWrites
<1> QED
  BY <1>1, IInvInit, IInvStep, PTL DEF Spec

(* A promised write that is still in the pool is the command this replica   *)
(* reports to PullRecovery for its key.                                     *)
THEOREM PromisedWriteReported == Spec => []AcceptedWriteRecoverable
<1>1. IInv => AcceptedWriteRecoverable
  <2> SUFFICES ASSUME IInv, NEW w \in accepted \cap Writes \cap Tracked(pool)
               PROVE  CmdToRecover(pool.cand[KeyOf[w]]) = w
    BY DEF AcceptedWriteRecoverable
  <2>1. w \in pool.cand[KeyOf[w]].cmds
    BY TrackedInOwnBucket DEF IInv, TypeOK
  <2>2. pool.cand[KeyOf[w]].to_recover = w
    BY <2>1 DEF IInv, PromisedNamed
  <2> QED
    BY <2>1, <2>2 DEF CmdToRecover
<1> QED
  BY <1>1, IInvInit, IInvStep, PTL DEF Spec

(* The pool of a recovering replica takes in nothing and promises nothing.  *)
THEOREM FreezeHolds == Spec => RecoveryFreezesPool
<1>1. IInv /\ [Next]_vars => [FreezeStep]_vars
  <2> SUFFICES ASSUME IInv, Next, status = "RECOVERY"
               PROVE  /\ Tracked(pool') \subseteq Tracked(pool)
                      /\ accepted' \subseteq accepted
    BY DEF FreezeStep
  <2>1. ASSUME NEW c \in Cmd,
               RuleSpeculativeExecute(c) \/ Dispatch(c) \/ DispatchRecovered(c)
        PROVE  pool' = pool /\ accepted' = accepted
    BY <2>1 DEF RuleSpeculativeExecute, Dispatch, DispatchRecovered, PlaceHolder,
                PushBack
  <2>2. ASSUME NEW c \in Cmd, Apply(c)
        PROVE  Tracked(pool') \subseteq Tracked(pool) /\ accepted' = accepted
    BY <2>2, TrackedRemove DEF Apply, RuleCommandPoolGC, IInv
  <2>3. CASE FinishRecovery \/ RecoveryFails
    <3>1. pool' = EmptyPool /\ accepted' = {}
      BY <2>3 DEF FinishRecovery, RecoveryFails
    <3>2. Tracked(EmptyPool) = {}
      BY DEF Tracked, EmptyPool, EmptyBucket
    <3> QED
      BY <3>1, <3>2
  <2>4. CASE BeginRecovery \/ PullRecovery \/ SetIsLeader \/ PauseOrResume
    BY <2>4 DEF BeginRecovery, PullRecovery, SetIsLeader, PauseOrResume
  <2> QED
    BY <2>1, <2>2, <2>3, <2>4 DEF Next
<1> QED
  BY <1>1, IInvInit, IInvStep, PTL DEF Spec, RecoveryFreezesPool

(* A promise is kept until its command is applied or the pool is reset.     *)
THEOREM PromiseHolds == Spec => PromiseKeptUntilApplied
<1>1. IInv /\ [Next]_vars => [PromiseStep]_vars
  <2> SUFFICES ASSUME IInv, Next, NEW c \in accepted \cap Tracked(pool)
               PROVE  c \in Tracked(pool') \/ c \in applied' \/ accepted' = {}
    BY DEF PromiseStep
  <2>0. c \in Cmd /\ PoolOK(pool)
    BY DEF IInv, TypeOK
  <2>1. ASSUME NEW d \in Cmd,
               RuleSpeculativeExecute(d) \/ Dispatch(d) \/ DispatchRecovered(d)
        PROVE  c \in Tracked(pool')
    <3>1. pool' = pool \/ pool' = PoolPush(pool, d)
      BY <2>1 DEF RuleSpeculativeExecute, Dispatch, DispatchRecovered, PlaceHolder,
                  PushBack
    <3> QED
      BY <2>0, <3>1, TrackedPush
  <2>2. ASSUME NEW d \in Cmd, Apply(d)
        PROVE  c \in Tracked(pool') \/ c \in applied'
    <3>1. /\ pool' = pool \/ pool' = PoolRemove(pool, d)
          /\ d \in applied'
      BY <2>2 DEF Apply, RuleCommandPoolGC
    <3> QED
      BY <2>0, <3>1, TrackedRemove
  <2>3. CASE FinishRecovery \/ RecoveryFails
    BY <2>3 DEF FinishRecovery, RecoveryFails
  <2>4. CASE BeginRecovery \/ PullRecovery \/ SetIsLeader \/ PauseOrResume
    BY <2>4 DEF BeginRecovery, PullRecovery, SetIsLeader, PauseOrResume
  <2> QED
    BY <2>1, <2>2, <2>3, <2>4 DEF Next
<1> QED
  BY <1>1, IInvInit, IInvStep, PTL DEF Spec, PromiseKeptUntilApplied

(* What the leader's in-flight check rests on: an original-path command     *)
(* that is still to be applied has an entry in the in-flight map.           *)
OutstandingInFlight == skip_pool => \A d \in Outstanding : inflight[d] > 0

LEMMA OutstandingStep ==
  IInv /\ OutstandingInFlight /\ [Next]_vars => OutstandingInFlight'
<1>a. ASSUME [Next]_vars PROVE skip_pool' = skip_pool
  BY <1>a DEF Next, vars, RuleSpeculativeExecute, Dispatch, DispatchRecovered, Apply,
              PullRecovery, FinishRecovery, BeginRecovery, RecoveryFails,
              SetIsLeader, PauseOrResume
<1> SUFFICES ASSUME IInv, OutstandingInFlight, [Next]_vars, skip_pool
             PROVE  \A d \in Outstanding' : inflight'[d] > 0
  BY <1>a DEF OutstandingInFlight
<1> USE CommandPoolAssumption
<1>0. /\ inflight \in [Cmd -> Nat] /\ \A d \in Outstanding : inflight[d] > 0
      /\ Outstanding \subseteq Cmd
  BY DEF IInv, TypeOK, OutstandingInFlight, Outstanding
<1>1. ASSUME NEW c \in Cmd, RuleSpeculativeExecute(c)
      PROVE  Outstanding' = Outstanding /\ inflight' = inflight
  BY <1>1 DEF RuleSpeculativeExecute, Outstanding
<1>2. ASSUME NEW c \in Cmd, Dispatch(c) \/ DispatchRecovered(c)
      PROVE  \A d \in Outstanding' : inflight'[d] > 0
  <2>1. inflight' = [inflight EXCEPT ![c] = @ + 1] /\ Outstanding' \subseteq Outstanding \cup {c}
    BY <1>2 DEF Dispatch, DispatchRecovered, PlaceHolder, Outstanding
  <2> QED
    BY <1>0, <2>1
<1>3. ASSUME NEW c \in Cmd, Apply(c)
      PROVE  \A d \in Outstanding' : inflight'[d] > 0
  <2>1. /\ Outstanding' = Outstanding \ {c}
        /\ \A d \in Cmd \ {c} : inflight'[d] = inflight[d]
    BY <1>0, <1>3 DEF Apply, RuleCommandPoolGC, Outstanding
  <2> QED
    BY <1>0, <2>1
<1>4. CASE PullRecovery \/ FinishRecovery \/ BeginRecovery \/ RecoveryFails
           \/ SetIsLeader \/ PauseOrResume \/ UNCHANGED vars
  BY <1>0, <1>4 DEF PullRecovery, FinishRecovery, BeginRecovery, RecoveryFails,
                    SetIsLeader, PauseOrResume, vars, Outstanding
<1> QED
  BY <1>0, <1>1, <1>2, <1>3, <1>4 DEF Next

(* The leader's in-flight check: with skip_pool only OnRuleSpeculativeExecute *)
(* promises anything, and on the leader not before                          *)
(* ConflictWithOriginalUnexecutedLog has found no conflicting command of    *)
(* the original path, as every outstanding one is in the in-flight map.     *)
THEOREM InFlightHolds == Spec => LeaderChecksInFlight
<1>1. OutstandingInFlight /\ [Next]_vars => [InFlightStep]_vars
  <2> SUFFICES ASSUME OutstandingInFlight, Next, skip_pool, is_leader,
                      NEW c \in accepted', c \notin accepted,
                      NEW d \in Outstanding, KeyOf[d] = KeyOf[c]
               PROVE  c \notin Writes /\ d \notin Writes
    BY DEF InFlightStep
  <2>1. PICK e \in Cmd : RuleSpeculativeExecute(e)
    <3>1. ASSUME NEW e \in Cmd, Dispatch(e) \/ DispatchRecovered(e) \/ Apply(e)
          PROVE  accepted' = accepted
      BY <3>1 DEF Dispatch, DispatchRecovered, PlaceHolder, Apply
    <3>2. ASSUME PullRecovery \/ BeginRecovery \/ SetIsLeader \/ PauseOrResume
          PROVE  accepted' = accepted
      BY <3>2 DEF PullRecovery, BeginRecovery, SetIsLeader, PauseOrResume
    <3>3. ASSUME FinishRecovery \/ RecoveryFails
          PROVE  accepted' = {}
      BY <3>3 DEF FinishRecovery, RecoveryFails
    <3> QED
      BY <3>1, <3>2, <3>3 DEF Next
  <2>2. c = e /\ e \notin OrigOnly /\ ~ConflictWithOriginalUnexecutedLog(e)
    BY <2>1 DEF RuleSpeculativeExecute, PushBack
  <2>3. d \in Cmd \ {e} /\ inflight[d] > 0
    BY <2>2, CommandPoolAssumption DEF OutstandingInFlight, Outstanding
  <2> QED
    BY <2>2, <2>3 DEF ConflictWithOriginalUnexecutedLog
<1>2. Init => OutstandingInFlight
  BY DEF Init, OutstandingInFlight, Outstanding
<1> QED
  BY <1>1, <1>2, IInvInit, IInvStep, OutstandingStep, PTL
  DEF Spec, LeaderChecksInFlight

--------------------------------------------------------------------------------
(* The keys candidates_ holds something for.                                *)
Occupied(p) == {k \in Key : p.cand[k].cmds # {}}

(* A pool whose counters are exact.  pool_size_ rises only on a push that   *)
(* finds no counted write, so the buckets' counts must be exact too: an     *)
(* empty bucket must not count one.                                         *)
PoolExact(p) ==
  /\ IsFiniteSet(Occupied(p)) /\ IsFiniteSet(Tracked(p))
  /\ p.pool_size = Cardinality(Occupied(p))
  /\ p.pool_cmd_count = Cardinality(Tracked(p))
  /\ \A k \in Key : p.cand[k].total_write = Cardinality(p.cand[k].cmds \cap Writes)

(* An empty pool.                                                           *)
LEMMA EmptyExact == PoolExact(EmptyPool)
<1>1. /\ EmptyPool.pool_size = 0 /\ EmptyPool.pool_cmd_count = 0
      /\ \A k \in Key : EmptyPool.cand[k].cmds = {} /\ EmptyPool.cand[k].total_write = 0
  BY DEF EmptyPool, EmptyBucket
<1>2. Occupied(EmptyPool) = {} /\ Tracked(EmptyPool) = {}
  BY <1>1 DEF Occupied, Tracked
<1>3. IsFiniteSet({}) /\ Cardinality({}) = 0
  BY FS_EmptySet
<1>4. \A k \in Key : EmptyPool.cand[k].cmds \cap Writes = {}
  BY <1>1
<1> QED
  BY <1>1, <1>2, <1>3, <1>4 DEF PoolExact

(* A push of a command that its bucket does not hold.                       *)
LEMMA PushExact ==
  ASSUME NEW p, PoolOK(p), PoolExact(p), NEW c \in Cmd, c \notin p.cand[KeyOf[c]].cmds
  PROVE  PoolExact(PoolPush(p, c))
<1> USE PoolAssumption
<1> DEFINE q == PoolPush(p, c)
           b == p.cand[KeyOf[c]]
<1>1. /\ p \in Pool /\ KeyOf[c] \in Key /\ BucketOK(b, KeyOf[c])
      /\ p.pool_size \in Int /\ p.pool_cmd_count \in Int
      /\ b.cmds \in SUBSET Cmd /\ IsFiniteSet(b.cmds) /\ b.total_write \in Int
  BY DEF PoolOK, Pool, BucketOK, Bucket
<1>2. /\ \A k \in Key : q.cand[k].cmds = IF k = KeyOf[c] THEN b.cmds \cup {c}
                                         ELSE p.cand[k].cmds
      /\ \A k \in Key : q.cand[k].total_write =
           IF k = KeyOf[c] THEN b.total_write + WriteCount(c) ELSE p.cand[k].total_write
      /\ q.pool_cmd_count = p.pool_cmd_count + 1
      /\ q.pool_size = IF b.total_write = 0 /\ b.cmds = {} THEN p.pool_size + 1
                       ELSE p.pool_size
  BY <1>1 DEF PoolPush, BucketPush, Pool, PushOk
<1> HIDE DEF q
<1>3. Tracked(q) = Tracked(p) \cup {c} /\ c \notin Tracked(p)
  BY TrackedPush, TrackedInOwnBucket DEF q
<1>4. IsFiniteSet(Tracked(q)) /\ q.pool_cmd_count = Cardinality(Tracked(q))
  BY <1>2, <1>3, FS_AddElement DEF PoolExact
<1>5. b.total_write = Cardinality(b.cmds \cap Writes)
  BY <1>1 DEF PoolExact
<1>6. b.cmds = {} => b.total_write = 0
  <2>1. b.cmds = {} => b.cmds \cap Writes = {}
    OBVIOUS
  <2> QED
    BY <1>5, <2>1, FS_EmptySet
<1>7. IsFiniteSet(Occupied(q)) /\ q.pool_size = Cardinality(Occupied(q))
  <2>1. Occupied(q) = Occupied(p) \cup {KeyOf[c]}
    BY <1>1, <1>2 DEF Occupied
  <2>2. KeyOf[c] \in Occupied(p) <=> b.cmds # {}
    BY <1>1 DEF Occupied
  <2>3. /\ IsFiniteSet(Occupied(q))
        /\ Cardinality(Occupied(q)) = IF b.cmds # {} THEN Cardinality(Occupied(p))
                                      ELSE Cardinality(Occupied(p)) + 1
    BY <2>1, <2>2, FS_AddElement DEF PoolExact
  <2> QED
    BY <1>2, <1>6, <2>3 DEF PoolExact
<1>8. Cardinality((b.cmds \cup {c}) \cap Writes) = b.total_write + WriteCount(c)
  <2>1. IsFiniteSet(b.cmds \cap Writes)
    BY <1>1, FS_Intersection
  <2>2. CASE c \in Writes
    <3>1. (b.cmds \cup {c}) \cap Writes = (b.cmds \cap Writes) \cup {c}
      BY <2>2
    <3> QED
      BY <1>5, <2>1, <2>2, <3>1, FS_AddElement DEF WriteCount
  <2>3. CASE c \notin Writes
    <3>1. (b.cmds \cup {c}) \cap Writes = b.cmds \cap Writes
      BY <2>3
    <3>2. Cardinality((b.cmds \cup {c}) \cap Writes) = Cardinality(b.cmds \cap Writes)
      BY <3>1
    <3>3. WriteCount(c) = 0
      BY <2>3 DEF WriteCount
    <3> HIDE DEF b
    <3> QED
      BY <1>1, <1>5, <3>2, <3>3
  <2> QED
    BY <2>2, <2>3
<1>9. \A k \in Key : q.cand[k].total_write = Cardinality(q.cand[k].cmds \cap Writes)
  BY <1>2, <1>8 DEF PoolExact
<1> QED
  BY <1>4, <1>7, <1>9 DEF PoolExact, q

(* A removal, of a command that is there or not.                            *)
LEMMA RemoveExact ==
  ASSUME NEW p, PoolOK(p), PoolExact(p), NEW c \in Cmd
  PROVE  PoolExact(PoolRemove(p, c))
<1> USE PoolAssumption
<1> DEFINE q == PoolRemove(p, c)
           b == p.cand[KeyOf[c]]
<1>0. CASE c \notin b.cmds
  BY <1>0 DEF PoolRemove
<1>a. CASE c \in b.cmds
  <2>1. /\ p \in Pool /\ KeyOf[c] \in Key /\ BucketOK(b, KeyOf[c])
        /\ p.pool_size \in Int /\ p.pool_cmd_count \in Int
        /\ b.cmds \in SUBSET Cmd /\ IsFiniteSet(b.cmds) /\ b.total_write \in Int
    BY DEF PoolOK, Pool, BucketOK, Bucket
  <2>2. /\ \A k \in Key : q.cand[k].cmds = IF k = KeyOf[c] THEN b.cmds \ {c}
                                           ELSE p.cand[k].cmds
        /\ \A k \in Key : q.cand[k].total_write =
             IF k = KeyOf[c] THEN b.total_write - WriteCount(c) ELSE p.cand[k].total_write
        /\ q.pool_cmd_count = p.pool_cmd_count - 1
        /\ q.pool_size = IF b.cmds = {c} THEN p.pool_size - 1 ELSE p.pool_size
    BY <1>a, <2>1 DEF PoolRemove, BucketRemove, Pool
  <2> HIDE DEF q
  <2>3. Tracked(q) = Tracked(p) \ {c} /\ c \in Tracked(p)
    BY <1>a, TrackedRemove, TrackedInOwnBucket DEF q
  <2>4. IsFiniteSet(Tracked(q)) /\ q.pool_cmd_count = Cardinality(Tracked(q))
    BY <2>2, <2>3, FS_RemoveElement DEF PoolExact
  <2>5. KeyOf[c] \in Occupied(p)
    BY <1>a, <2>1 DEF Occupied
  <2>6. IsFiniteSet(Occupied(q)) /\ q.pool_size = Cardinality(Occupied(q))
    <3>1. CASE b.cmds = {c}
      <4>1. Occupied(q) = Occupied(p) \ {KeyOf[c]}
        BY <2>1, <2>2, <3>1 DEF Occupied
      <4> QED
        BY <2>2, <2>5, <3>1, <4>1, FS_RemoveElement DEF PoolExact
    <3>2. CASE b.cmds # {c}
      <4>1. b.cmds \ {c} # {}
        BY <1>a, <3>2
      <4>2. Occupied(q) = Occupied(p)
        BY <1>a, <2>1, <2>2, <4>1 DEF Occupied
      <4> QED
        BY <2>2, <3>2, <4>2 DEF PoolExact
    <3> QED
      BY <3>1, <3>2
  <2>7. Cardinality((b.cmds \ {c}) \cap Writes) = b.total_write - WriteCount(c)
    BY <1>a, <2>1, WriteCardRemove DEF PoolExact
  <2>8. \A k \in Key : q.cand[k].total_write = Cardinality(q.cand[k].cmds \cap Writes)
    BY <2>2, <2>7 DEF PoolExact
  <2> QED
    BY <2>4, <2>6, <2>8 DEF PoolExact, q
<1> QED
  BY <1>0, <1>a

(* Every step keeps the counters exact until an id is pushed twice.         *)
LEMMA ExactStep ==
  IInv /\ (~dup => PoolExact(pool)) /\ [Next]_vars => (~dup' => PoolExact(pool'))
<1> SUFFICES ASSUME IInv, ~dup => PoolExact(pool), [Next]_vars, ~dup'
             PROVE  PoolExact(pool')
  OBVIOUS
<1> USE CommandPoolAssumption
<1>1. dup \in BOOLEAN /\ PoolOK(pool)
  BY DEF IInv, TypeOK
<1>2. CASE UNCHANGED <<pool, dup>>
  BY <1>2
<1>3. ASSUME NEW c \in Cmd, NEW promise \in BOOLEAN, PushBack(c, promise)
      PROVE  PoolExact(pool')
  <2>1. CASE status = "RECOVERY"
    BY <1>2, <1>3, <2>1 DEF PushBack
  <2>2. CASE status # "RECOVERY"
    <3>1. pool' = PoolPush(pool, c) /\ dup' = (dup \/ c \in pool.cand[KeyOf[c]].cmds)
      BY <1>3, <2>2 DEF PushBack
    <3> QED
      BY <1>1, <3>1, PushExact
  <2> QED
    BY <2>1, <2>2
<1>4. ASSUME NEW c \in Cmd, RuleSpeculativeExecute(c) PROVE PoolExact(pool')
  BY <1>2, <1>3, <1>4 DEF RuleSpeculativeExecute
<1>5. ASSUME NEW c \in Cmd, Dispatch(c) \/ DispatchRecovered(c) PROVE PoolExact(pool')
  <2>1. PlaceHolder(c)
    BY <1>5 DEF Dispatch, DispatchRecovered
  <2> QED
    BY <1>2, <1>3, <2>1 DEF PlaceHolder
<1>6. ASSUME NEW c \in Cmd, Apply(c) PROVE PoolExact(pool')
  <2>1. dup' = dup /\ (pool' = pool \/ pool' = PoolRemove(pool, c))
    BY <1>6 DEF Apply, RuleCommandPoolGC
  <2> QED
    BY <1>1, <2>1, RemoveExact
<1>7. CASE FinishRecovery \/ RecoveryFails
  BY <1>7, EmptyExact DEF FinishRecovery, RecoveryFails
<1>8. CASE BeginRecovery \/ PullRecovery \/ SetIsLeader \/ PauseOrResume \/ UNCHANGED vars
  BY <1>2, <1>8 DEF BeginRecovery, PullRecovery, SetIsLeader, PauseOrResume, vars
<1> QED
  BY <1>4, <1>5, <1>6, <1>7, <1>8 DEF Next

(* pool_size_ and pool_cmd_count_ count the non-empty buckets and the       *)
(* tracked commands exactly, for every set of commands and keys, as long as *)
(* no id was pushed twice since the last reset.                             *)
THEOREM CountersHold == Spec => []CountersExact
<1> DEFINE E == ~dup => PoolExact(pool)
<1>1. Init => E
  BY EmptyExact DEF Init
<1>2. IInv /\ E /\ [Next]_vars => E'
  BY ExactStep
<1>3. E => CountersExact
  BY DEF PoolExact, CountersExact, Occupied
<1> QED
  BY <1>1, <1>2, <1>3, IInvInit, IInvStep, PTL DEF Spec
================================================================================
