------------------------------ MODULE CommandPool ------------------------------
(***************************************************************************)
(* The fast path of one replica: a TxLogServer with its command pool, as   *)
(* the RPC handlers of ClassicServiceImpl, the apply loop of the original  *)
(* protocol and the recovery RPCs drive it.                                *)
(*                                                                         *)
(* The environment is the weakest one the handlers can meet.  A client     *)
(* sends a command to the fast path or flags it as original-path-only, and *)
(* a replica sees each at most once from the client; a recovering leader   *)
(* may dispatch a reported command again, whatever this replica's status   *)
(* (a FinishRecovery left over from an earlier recovery can have set it to *)
(* READY).  The original protocol applies commands in any order, before or *)
(* after the client's own message arrives here, and may apply one twice.   *)
(***************************************************************************)
EXTENDS JetpackPool

CONSTANTS
  OrigOnly    \* commands flagged rule_mode_on_and_is_original_path_only_command_

ASSUME CommandPoolAssumption == OrigOnly \subseteq Cmd

VARIABLES
  skip_pool,   \* Config::GetJetpackSkipPoolForOriginalPath(), never changed
  status,      \* jetpack_status_: "READY" or "RECOVERY"
  is_leader,   \* IsLeader()
  paused,      \* paused_
  pool,        \* command_pool_
  inflight,    \* inflight_original_path_: entries per command
  delivered,   \* commands the client's message has brought here (environment)
  reported,    \* commands a PullRecovery reply has named (environment)
  accepted,    \* history: commands promised since the last reset
  applied,     \* history: commands the original protocol has applied here
  dup          \* history: an id was pushed while its bucket held it

vars == <<skip_pool, status, is_leader, paused, pool, inflight, delivered,
          reported, accepted, applied, dup>>

--------------------------------------------------------------------------------
Init ==
  /\ skip_pool \in BOOLEAN
  /\ status = "READY"
  /\ is_leader \in BOOLEAN
  /\ paused = FALSE
  /\ pool = EmptyPool
  /\ inflight = [c \in Cmd |-> 0]
  /\ delivered = {}
  /\ reported = {}
  /\ accepted = {}
  /\ applied = {}
  /\ dup = FALSE

(* JetpackCommandPool::push_back with its status guard: nothing is tracked  *)
(* and nothing promised while the replica is recovering.                    *)
MutPushBackNoGuard(c, promise) ==
  /\ pool' = PoolPush(pool, c)
  /\ dup' = (dup \/ c \in pool.cand[KeyOf[c]].cmds)
  /\ accepted' = IF promise /\ PushOk(pool, c) THEN accepted \cup {c} ELSE accepted

PushBack(c, promise) ==
  IF status = "RECOVERY"
  THEN UNCHANGED <<pool, dup, accepted>>
  ELSE /\ pool' = PoolPush(pool, c)
       /\ dup' = (dup \/ c \in pool.cand[KeyOf[c]].cmds)
       /\ accepted' = IF promise /\ PushOk(pool, c)
                      THEN accepted \cup {c} ELSE accepted

(* RaftServer::ConflictWithOriginalUnexecutedLog on the leader: another     *)
(* in-flight original-path command on the key, one of the two a write.      *)
MutConflictWritesOnly(c) ==
  \E d \in Cmd \ {c} : inflight[d] > 0 /\ KeyOf[d] = KeyOf[c] /\ c \in Writes

ConflictWithOriginalUnexecutedLog(c) ==
  \E d \in Cmd \ {c} :
    inflight[d] > 0 /\ KeyOf[d] = KeyOf[c] /\ (d \in Writes \/ c \in Writes)

(* OnRuleSpeculativeExecute(c), from RuleSpeculativeExecute or from the     *)
(* fused DispatchWithRuleSpec.                                              *)
RuleSpeculativeExecute(c) ==
  /\ c \notin OrigOnly
  /\ c \notin delivered
  /\ delivered' = delivered \cup {c}
  /\ IF paused \/ (skip_pool /\ is_leader /\ ConflictWithOriginalUnexecutedLog(c))
     THEN UNCHANGED <<pool, dup, accepted>>
     ELSE PushBack(c, TRUE)
  /\ UNCHANGED <<skip_pool, status, is_leader, paused, inflight, reported,
                 applied>>

(* OriginalPathUnexecutedCmdConflictPlaceHolder(c), the first thing         *)
(* DispatchInner does with a command, before any leader or status check.    *)
PlaceHolder(c) ==
  IF skip_pool
  THEN /\ inflight' = [inflight EXCEPT ![c] = @ + 1]
       /\ UNCHANGED <<pool, dup, accepted>>
  ELSE /\ PushBack(c, FALSE)
       /\ UNCHANGED inflight

Dispatch(c) ==
  /\ c \in OrigOnly
  /\ c \notin delivered
  /\ delivered' = delivered \cup {c}
  /\ PlaceHolder(c)
  /\ UNCHANGED <<skip_pool, status, is_leader, paused, reported, applied>>

(* DispatchRecoveredCommand of a command this replica reported.             *)
DispatchRecovered(c) ==
  /\ c \in OrigOnly
  /\ c \in reported
  /\ reported' = reported \ {c}
  /\ PlaceHolder(c)
  /\ UNCHANGED <<skip_pool, status, is_leader, paused, delivered, applied>>

(* RuleCommandPoolGC(c), called by the apply loop just before app_next_.    *)
RuleCommandPoolGC(c) ==
  IF skip_pool /\ c \in OrigOnly
  THEN /\ inflight' = [inflight EXCEPT ![c] = IF @ > 0 THEN @ - 1 ELSE 0]
       /\ UNCHANGED pool
  ELSE /\ pool' = PoolRemove(pool, c)
       /\ UNCHANGED inflight

Apply(c) ==
  /\ RuleCommandPoolGC(c)
  /\ applied' = applied \cup {c}
  /\ UNCHANGED <<skip_pool, status, is_leader, paused, delivered, reported,
                 accepted, dup>>

(* OnJetpackPullRecovery that succeeds: the replica stops promising before  *)
(* it reads its pool.                                                       *)
PullRecovery ==
  /\ status' = "RECOVERY"
  /\ reported' = reported \cup ToRecover(pool)
  /\ UNCHANGED <<skip_pool, is_leader, paused, pool, inflight, delivered,
                 accepted, applied, dup>>

(* OnJetpackFinishRecovery that passes its epoch test: JetpackCommandPool:: *)
(* reset() and READY.  The in-flight map is not part of the pool.           *)
FinishRecovery ==
  /\ status' = "READY"
  /\ pool' = EmptyPool
  /\ accepted' = {}
  /\ dup' = FALSE
  /\ UNCHANGED <<skip_pool, is_leader, paused, inflight, delivered, reported,
                 applied>>

(* JetpackRecoveryEntry on this replica, and OnJetpackBeginRecovery inside  *)
(* a PullRecovery whose epoch test then fails: the status changes and the   *)
(* pool is not read.                                                        *)
BeginRecovery ==
  /\ status' = "RECOVERY"
  /\ UNCHANGED <<skip_pool, is_leader, paused, pool, inflight, delivered,
                 reported, accepted, applied, dup>>

(* JetpackRecovery on this replica, when a quorum event fails: the pool is  *)
(* reset and the status left as it is.                                      *)
RecoveryFails ==
  /\ pool' = EmptyPool
  /\ accepted' = {}
  /\ dup' = FALSE
  /\ UNCHANGED <<skip_pool, status, is_leader, paused, inflight, delivered,
                 reported, applied>>

SetIsLeader ==
  /\ is_leader' = ~is_leader
  /\ UNCHANGED <<skip_pool, status, paused, pool, inflight, delivered, reported,
                 accepted, applied, dup>>

PauseOrResume ==
  /\ paused' = ~paused
  /\ UNCHANGED <<skip_pool, status, is_leader, pool, inflight, delivered,
                 reported, accepted, applied, dup>>

Next ==
  \/ \E c \in Cmd : \/ RuleSpeculativeExecute(c)
                    \/ Dispatch(c)
                    \/ DispatchRecovered(c)
                    \/ Apply(c)
  \/ BeginRecovery
  \/ PullRecovery
  \/ FinishRecovery
  \/ RecoveryFails
  \/ SetIsLeader
  \/ PauseOrResume

Spec == Init /\ [][Next]_vars

--------------------------------------------------------------------------------
(* The fields keep their types: a pool, a status and sets of real commands; *)
(* the reply to PullRecovery never names the missing id.                    *)
TypeOK ==
  /\ skip_pool \in BOOLEAN
  /\ status \in {"READY", "RECOVERY"}
  /\ is_leader \in BOOLEAN
  /\ paused \in BOOLEAN
  /\ pool \in Pool
  /\ inflight \in [Cmd -> Nat]
  /\ delivered \subseteq Cmd
  /\ reported \subseteq Cmd
  /\ accepted \subseteq Cmd
  /\ applied \subseteq Cmd
  /\ dup \in BOOLEAN

(* The assertion in RevoveryCandidates::push_back never fails: a bucket has *)
(* a command to recover exactly when it counts a write, and it never counts *)
(* fewer writes than it holds, however pushes, removals and resets of       *)
(* commands with the same key interleave.                                   *)
RecoverIdTracksWrites ==
  \A k \in Key :
    LET b == pool.cand[k] IN
    /\ (b.to_recover = NoCmd) <=> (b.total_write = 0)
    /\ Cardinality(b.cmds \cap Writes) <= b.total_write

(* The command the replica reports to PullRecovery for a key is the one     *)
(* write it promised there: while a promised write is in the pool, no       *)
(* removal of an earlier or a later command, and no placeholder, makes the  *)
(* bucket name another command or none.                                     *)
AcceptedWriteRecoverable ==
  \A w \in accepted \cap Writes \cap Tracked(pool) :
    CmdToRecover(pool.cand[KeyOf[w]]) = w

(* pool_size_ and pool_cmd_count_ count the non-empty buckets and the       *)
(* tracked commands exactly, as long as no id was pushed twice.             *)
CountersExact ==
  ~dup =>
    /\ pool.pool_size = Cardinality({k \in Key : pool.cand[k].cmds # {}})
    /\ pool.pool_cmd_count = Cardinality(Tracked(pool))

FreezeStep ==
  status = "RECOVERY" => /\ Tracked(pool') \subseteq Tracked(pool)
                         /\ accepted' \subseteq accepted

(* While a replica recovers, its pool takes in no command and it promises   *)
(* none, whatever the clients send.                                         *)
RecoveryFreezesPool == [][FreezeStep]_vars

PromiseStep ==
  \A c \in accepted \cap Tracked(pool) :
    c \in Tracked(pool') \/ c \in applied' \/ accepted' = {}

(* A promised command leaves the pool only when the original protocol       *)
(* applies that very command, or when a recovery resets the whole pool.     *)
PromiseKeptUntilApplied == [][PromiseStep]_vars

Outstanding == (OrigOnly \cap delivered) \ applied

InFlightStep ==
  skip_pool /\ is_leader =>
    \A c \in accepted' \ accepted : \A d \in Outstanding :
      KeyOf[d] = KeyOf[c] => c \notin Writes /\ d \notin Writes

(* With the pool skipped for original-path commands, the leader promises a  *)
(* command only if it conflicts with no original-path command that reached  *)
(* it and is still to be applied: no recovery, change of leadership or      *)
(* repeated application in between makes the in-flight map lose one.        *)
LeaderChecksInFlight == [][InFlightStep]_vars
================================================================================
