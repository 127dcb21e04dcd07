------------------------------ MODULE JetpackPool ------------------------------
(***************************************************************************)
(* The data structure behind Jetpack's fast path: the per-key buckets of   *)
(* RevoveryCandidates and the JetpackCommandPool that holds them           *)
(* (src/src/deptran/scheduler.h, scheduler.cc), as operators on records.   *)
(* A command is an opaque id: its key and whether it writes are functions  *)
(* of the id, as they are of the client's TxPieceData in the code, so the  *)
(* map candidates_ from id to (command, is_write) is the set of its ids.   *)
(***************************************************************************)
EXTENDS Integers, FiniteSets

CONSTANTS
  Cmd,      \* command ids (client_id_, cmd_id_in_client_)
  Key,      \* keys of the store
  KeyOf,    \* KeyOf[c]: the key command c touches
  Writes,   \* the commands that write
  NoCmd     \* to_recover_id_ = (uint64_t)(-1)

ASSUME PoolAssumption ==
  /\ KeyOf \in [Cmd -> Key]
  /\ Writes \subseteq Cmd
  /\ NoCmd \notin Cmd

CmdOrNone == Cmd \cup {NoCmd}

Bucket == [cmds: SUBSET Cmd, total_write: Int, to_recover: CmdOrNone]

Pool == [cand: [Key -> Bucket], pool_size: Int, pool_cmd_count: Int]

EmptyBucket == [cmds |-> {}, total_write |-> 0, to_recover |-> NoCmd]

(* A key that candidates_ does not hold reads as an empty bucket, which is  *)
(* what operator[] creates.                                                 *)
EmptyPool == [cand |-> [k \in Key |-> EmptyBucket],
              pool_size |-> 0, pool_cmd_count |-> 0]

WriteCount(c) == IF c \in Writes THEN 1 ELSE 0

--------------------------------------------------------------------------------
(* RevoveryCandidates::push_back: the first write of the bucket becomes the *)
(* command to recover.                                                      *)
MutBucketPushLast(b, c) ==
  [cmds |-> b.cmds \cup {c},
   total_write |-> b.total_write + WriteCount(c),
   to_recover |-> IF c \in Writes THEN c ELSE b.to_recover]

BucketPush(b, c) ==
  [cmds |-> b.cmds \cup {c},
   total_write |-> b.total_write + WriteCount(c),
   to_recover |-> IF b.total_write = 0 /\ c \in Writes THEN c ELSE b.to_recover]

(* RevoveryCandidates::remove: to_recover_id_ is cleared only together with *)
(* the last counted write, so it may name a command that has left.          *)
MutBucketRemoveClears(b, c) ==
  IF c \notin b.cmds THEN b
  ELSE [cmds |-> b.cmds \ {c},
        total_write |-> b.total_write - WriteCount(c),
        to_recover |-> IF c = b.to_recover THEN NoCmd ELSE b.to_recover]

BucketRemove(b, c) ==
  IF c \notin b.cmds THEN b
  ELSE [cmds |-> b.cmds \ {c},
        total_write |-> b.total_write - WriteCount(c),
        to_recover |-> IF b.total_write = 1 /\ c \in Writes
                       THEN NoCmd ELSE b.to_recover]

(* RevoveryCandidates::cmd_to_recover: nullptr when the id is dangling.     *)
CmdToRecover(b) ==
  IF b.to_recover \in b.cmds THEN b.to_recover ELSE NoCmd

--------------------------------------------------------------------------------
(* JetpackCommandPool::push_back on a replica that is not recovering: the   *)
(* command is tracked whether or not it conflicts, and push_back returns    *)
(* whether the key held no counted write (READ_NOT_CONFLICT_OPTIMIZATION).  *)
PushOk(p, c) == p.cand[KeyOf[c]].total_write = 0

MutPoolPushRejects(p, c) ==
  IF PushOk(p, c)
  THEN [p EXCEPT !.cand[KeyOf[c]] = BucketPush(@, c),
                 !.pool_cmd_count = @ + 1,
                 !.pool_size = @ + 1]
  ELSE p

PoolPush(p, c) ==
  [cand |-> [p.cand EXCEPT ![KeyOf[c]] = BucketPush(@, c)],
   pool_cmd_count |-> p.pool_cmd_count + 1,
   pool_size |-> IF PushOk(p, c) /\ p.cand[KeyOf[c]].cmds = {}
                 THEN p.pool_size + 1 ELSE p.pool_size]

(* JetpackCommandPool::remove, the garbage collection of an applied command. *)
(* A batch is removed one command after the other.                          *)
MutPoolRemoveBucket(p, c) ==
  [p EXCEPT !.cand[KeyOf[c]] = EmptyBucket]

PoolRemove(p, c) ==
  LET b == p.cand[KeyOf[c]] IN
  IF c \notin b.cmds THEN p
  ELSE [cand |-> [p.cand EXCEPT ![KeyOf[c]] = BucketRemove(@, c)],
        pool_cmd_count |-> p.pool_cmd_count - 1,
        pool_size |-> IF b.cmds = {c} THEN p.pool_size - 1 ELSE p.pool_size]

(* What a replica reports to PullRecovery: for each key the command to      *)
(* recover, when it is still there.                                         *)
MutToRecoverNull(p) == {CmdToRecover(p.cand[k]) : k \in Key}

ToRecover(p) == {CmdToRecover(p.cand[k]) : k \in Key} \ {NoCmd}

Tracked(p) == UNION {p.cand[k].cmds : k \in Key}
================================================================================
