--------------------------- MODULE JetpackPoolProofs ---------------------------
(***************************************************************************)
(* What push_back and remove keep of a command pool, for every set of      *)
(* commands and keys: the lemmas that the proofs about a replica, about    *)
(* the client's fast path and about recovery share.                        *)
(***************************************************************************)
EXTENDS JetpackPool, FiniteSetTheorems, TLAPS

(* A bucket as push_back and remove keep it.  The last conjunct is what     *)
(* makes the property of promised writes inductive: remove clears           *)
(* to_recover_id_ at a count of one, so the count must not fall below the   *)
(* number of writes that are there.                                         *)
BucketOK(b, k) ==
  /\ b \in Bucket
  /\ IsFiniteSet(b.cmds)
  /\ \A c \in b.cmds : KeyOf[c] = k
  /\ (b.to_recover = NoCmd) <=> (b.total_write = 0)
  /\ Cardinality(b.cmds \cap Writes) <= b.total_write

PoolOK(p) == p \in Pool /\ \A k \in Key : BucketOK(p.cand[k], k)

(* Every promised write that is still tracked is its bucket's command to    *)
(* recover.                                                                 *)
PromisedNamed(p, acc) ==
  \A w \in acc \cap Writes :
    w \in p.cand[KeyOf[w]].cmds => p.cand[KeyOf[w]].to_recover = w

--------------------------------------------------------------------------------
(* The number of writes of a finite set of commands is a natural number,    *)
(* and an added command raises it by at most its own WriteCount.            *)
LEMMA WriteCardAdd ==
  ASSUME NEW S \in SUBSET Cmd, IsFiniteSet(S), NEW c \in Cmd
  PROVE  /\ Cardinality(S \cap Writes) \in Nat
         /\ Cardinality((S \cup {c}) \cap Writes) \in Nat
         /\ Cardinality((S \cup {c}) \cap Writes)
              <= Cardinality(S \cap Writes) + WriteCount(c)
<1>1. IsFiniteSet(S \cap Writes)
  BY FS_Intersection
<1>2. Cardinality(S \cap Writes) \in Nat
  BY <1>1, FS_CardinalityType
<1>3. CASE c \in Writes
  <2>1. (S \cup {c}) \cap Writes = (S \cap Writes) \cup {c}
    BY <1>3
  <2>2. Cardinality((S \cap Writes) \cup {c}) =
          IF c \in S \cap Writes THEN Cardinality(S \cap Writes)
          ELSE Cardinality(S \cap Writes) + 1
    BY <1>1, FS_AddElement
  <2> QED
    BY <1>2, <1>3, <2>1, <2>2 DEF WriteCount
<1>4. CASE c \notin Writes
  <2>1. (S \cup {c}) \cap Writes = S \cap Writes
    BY <1>4
  <2>2. Cardinality((S \cup {c}) \cap Writes) = Cardinality(S \cap Writes)
    BY <2>1
  <2>3. WriteCount(c) = 0
    BY <1>4 DEF WriteCount
  <2> QED
    BY <1>2, <2>2, <2>3
<1> QED
  BY <1>3, <1>4

(* Removing a member of a finite set of commands lowers its number of       *)
(* writes by exactly its WriteCount.                                        *)
LEMMA WriteCardRemove ==
  ASSUME NEW S \in SUBSET Cmd, IsFiniteSet(S), NEW c \in S
  PROVE  /\ Cardinality(S \cap Writes) \in Nat
         /\ Cardinality((S \ {c}) \cap Writes) \in Nat
         /\ Cardinality((S \ {c}) \cap Writes)
              = Cardinality(S \cap Writes) - WriteCount(c)
<1>1. IsFiniteSet(S \cap Writes) /\ IsFiniteSet((S \ {c}) \cap Writes)
  BY FS_Intersection, FS_RemoveElement
<1>2. /\ Cardinality(S \cap Writes) \in Nat
      /\ Cardinality((S \ {c}) \cap Writes) \in Nat
  BY <1>1, FS_CardinalityType
<1>3. CASE c \in Writes
  <2>1. (S \ {c}) \cap Writes = (S \cap Writes) \ {c}
    OBVIOUS
  <2>2. Cardinality((S \cap Writes) \ {c}) =
          IF c \in S \cap Writes THEN Cardinality(S \cap Writes) - 1
          ELSE Cardinality(S \cap Writes)
    BY <1>1, FS_RemoveElement
  <2> QED
    BY <1>2, <1>3, <2>1, <2>2 DEF WriteCount
<1>4. CASE c \notin Writes
  <2>1. (S \ {c}) \cap Writes = S \cap Writes
    BY <1>4
  <2>2. Cardinality((S \ {c}) \cap Writes) = Cardinality(S \cap Writes)
    BY <2>1
  <2>3. WriteCount(c) = 0
    BY <1>4 DEF WriteCount
  <2> QED
    BY <1>2, <2>2, <2>3
<1> QED
  BY <1>3, <1>4

(* A bucket that holds two different writes counts at least two.            *)
LEMMA TwoWritesCounted ==
  ASSUME NEW b, NEW k, BucketOK(b, k),
         NEW c \in b.cmds \cap Writes, NEW w \in b.cmds \cap Writes, c # w
  PROVE  b.total_write >= 2
<1> DEFINE S == b.cmds \cap Writes
<1>1. IsFiniteSet(S) /\ b.total_write \in Int /\ Cardinality(S) <= b.total_write
  BY FS_Intersection DEF BucketOK, Bucket
<1>2. IsFiniteSet(S \ {c}) /\ Cardinality(S \ {c}) = Cardinality(S) - 1
  BY <1>1, FS_RemoveElement
<1>3. Cardinality(S \ {c}) # 0
  BY <1>2, FS_EmptySet
<1>4. Cardinality(S) \in Nat /\ Cardinality(S \ {c}) \in Nat
  BY <1>1, <1>2, FS_CardinalityType
<1> QED
  BY <1>1, <1>2, <1>3, <1>4

--------------------------------------------------------------------------------
(* RevoveryCandidates::push_back keeps a bucket well formed.                *)
LEMMA BucketPushOK ==
  ASSUME NEW b, NEW k \in Key, BucketOK(b, k), NEW c \in Cmd, KeyOf[c] = k
  PROVE  BucketOK(BucketPush(b, c), k)
<1> USE PoolAssumption
<1>1. /\ b.cmds \in SUBSET Cmd /\ IsFiniteSet(b.cmds)
      /\ b.total_write \in Int /\ b.to_recover \in CmdOrNone
  BY DEF BucketOK, Bucket
<1>2. /\ BucketPush(b, c).cmds = b.cmds \cup {c}
      /\ BucketPush(b, c).total_write = b.total_write + WriteCount(c)
      /\ BucketPush(b, c).to_recover =
           IF b.total_write = 0 /\ c \in Writes THEN c ELSE b.to_recover
  BY DEF BucketPush
<1>3. /\ Cardinality(b.cmds \cap Writes) \in Nat
      /\ Cardinality((b.cmds \cup {c}) \cap Writes) \in Nat
      /\ Cardinality((b.cmds \cup {c}) \cap Writes)
           <= Cardinality(b.cmds \cap Writes) + WriteCount(c)
  BY <1>1, WriteCardAdd
<1>4. BucketPush(b, c) \in Bucket
  BY <1>1 DEF BucketPush, Bucket, CmdOrNone, WriteCount
<1>5. IsFiniteSet(b.cmds \cup {c})
  BY <1>1, FS_AddElement
<1>6. /\ b.total_write \in Nat
      /\ (b.to_recover = NoCmd) <=> (b.total_write = 0)
      /\ Cardinality(b.cmds \cap Writes) <= b.total_write
  BY <1>1, <1>3 DEF BucketOK
<1>7. (BucketPush(b, c).to_recover = NoCmd)
        <=> (BucketPush(b, c).total_write = 0)
  BY <1>2, <1>6 DEF WriteCount
<1>8. Cardinality(BucketPush(b, c).cmds \cap Writes)
        <= BucketPush(b, c).total_write
  BY <1>2, <1>3, <1>6 DEF WriteCount
<1>9. \A d \in BucketPush(b, c).cmds : KeyOf[d] = k
  BY <1>2 DEF BucketOK
<1> QED
  BY <1>2, <1>4, <1>5, <1>7, <1>8, <1>9 DEF BucketOK

(* RevoveryCandidates::remove keeps a bucket well formed.                   *)
LEMMA BucketRemoveOK ==
  ASSUME NEW b, NEW k \in Key, BucketOK(b, k), NEW c \in Cmd
  PROVE  BucketOK(BucketRemove(b, c), k)
<1> USE PoolAssumption
<1>0. CASE c \notin b.cmds
  BY <1>0 DEF BucketRemove
<1>a. CASE c \in b.cmds
  <2>1. /\ b.cmds \in SUBSET Cmd /\ IsFiniteSet(b.cmds)
        /\ b.total_write \in Int /\ b.to_recover \in CmdOrNone
    BY DEF BucketOK, Bucket
  <2>2. /\ BucketRemove(b, c).cmds = b.cmds \ {c}
        /\ BucketRemove(b, c).total_write = b.total_write - WriteCount(c)
        /\ BucketRemove(b, c).to_recover =
             IF b.total_write = 1 /\ c \in Writes THEN NoCmd ELSE b.to_recover
    BY <1>a DEF BucketRemove
  <2>3. /\ Cardinality(b.cmds \cap Writes) \in Nat
        /\ Cardinality((b.cmds \ {c}) \cap Writes) \in Nat
        /\ Cardinality((b.cmds \ {c}) \cap Writes)
             = Cardinality(b.cmds \cap Writes) - WriteCount(c)
    BY <1>a, <2>1, WriteCardRemove
  <2>4. BucketRemove(b, c) \in Bucket
    BY <1>a, <2>1 DEF BucketRemove, Bucket, CmdOrNone, WriteCount
  <2>5. IsFiniteSet(b.cmds \ {c})
    BY <2>1, FS_RemoveElement
  <2>6. /\ (b.to_recover = NoCmd) <=> (b.total_write = 0)
        /\ Cardinality(b.cmds \cap Writes) <= b.total_write
    BY DEF BucketOK
  <2>7. (BucketRemove(b, c).to_recover = NoCmd)
          <=> (BucketRemove(b, c).total_write = 0)
    BY <2>1, <2>2, <2>3, <2>6 DEF WriteCount
  <2>8. Cardinality(BucketRemove(b, c).cmds \cap Writes)
          <= BucketRemove(b, c).total_write
    BY <2>1, <2>2, <2>3, <2>6 DEF WriteCount
  <2>9. \A d \in BucketRemove(b, c).cmds : KeyOf[d] = k
    BY <2>2 DEF BucketOK
  <2> QED
    BY <2>2, <2>4, <2>5, <2>7, <2>8, <2>9 DEF BucketOK
<1> QED
  BY <1>0, <1>a

(* Removing another command does not make a bucket forget the promised      *)
(* write it names.                                                          *)
LEMMA BucketRemoveKeepsName ==
  ASSUME NEW b, NEW k, BucketOK(b, k), NEW c \in Cmd,
         NEW w \in b.cmds \cap Writes, w # c, b.to_recover = w
  PROVE  BucketRemove(b, c).to_recover = w
<1>1. CASE c \in b.cmds \cap Writes
  <2>1. b.total_write >= 2 /\ b.total_write \in Int
    BY <1>1, TwoWritesCounted DEF BucketOK, Bucket
  <2> QED
    BY <2>1 DEF BucketRemove
<1>2. CASE c \notin b.cmds \cap Writes
  BY <1>2 DEF BucketRemove
<1> QED
  BY <1>1, <1>2

--------------------------------------------------------------------------------
(* The empty pool is well formed and names nothing.                         *)
LEMMA EmptyPoolOK == PoolOK(EmptyPool)
<1> USE PoolAssumption
<1>1. EmptyBucket \in Bucket
  BY DEF EmptyBucket, Bucket, CmdOrNone
<1>2. EmptyPool \in Pool
  BY <1>1 DEF EmptyPool, Pool
<1>3. EmptyBucket.cmds = {} /\ EmptyBucket.total_write = 0
      /\ EmptyBucket.to_recover = NoCmd
  BY DEF EmptyBucket
<1>4. {} \cap Writes = {}
  OBVIOUS
<1>5. IsFiniteSet({}) /\ Cardinality({}) = 0
  BY FS_EmptySet
<1>6. Cardinality(EmptyBucket.cmds \cap Writes) = 0 /\ IsFiniteSet(EmptyBucket.cmds)
  BY <1>3, <1>4, <1>5
<1>7. \A k \in Key : BucketOK(EmptyBucket, k)
  BY <1>1, <1>3, <1>6 DEF BucketOK
<1> QED
  BY <1>2, <1>7 DEF PoolOK, EmptyPool

(* JetpackCommandPool::push_back keeps the pool well formed.                *)
LEMMA PoolPushOK ==
  ASSUME NEW p, PoolOK(p), NEW c \in Cmd
  PROVE  PoolOK(PoolPush(p, c))
<1> USE PoolAssumption
<1> DEFINE q == PoolPush(p, c)
<1>1. p \in Pool /\ KeyOf[c] \in Key
  BY DEF PoolOK
<1>2. q.cand = [p.cand EXCEPT ![KeyOf[c]] = BucketPush(p.cand[KeyOf[c]], c)]
  BY <1>1 DEF PoolPush, Pool
<1>3. BucketOK(BucketPush(p.cand[KeyOf[c]], c), KeyOf[c])
  BY <1>1, BucketPushOK DEF PoolOK
<1>4. \A k \in Key : BucketOK(q.cand[k], k)
  BY <1>1, <1>2, <1>3 DEF PoolOK, Pool
<1>5. BucketPush(p.cand[KeyOf[c]], c) \in Bucket
  BY <1>3 DEF BucketOK
<1>6. q \in Pool
  BY <1>1, <1>5 DEF PoolPush, Pool
<1> QED
  BY <1>4, <1>6 DEF PoolOK

(* A push keeps every earlier promise, and the promise it makes itself: the *)
(* pushed command was not promised before.                                  *)
LEMMA PoolPushPromises ==
  ASSUME NEW p, PoolOK(p), NEW c \in Cmd, NEW acc \in SUBSET Cmd,
         PromisedNamed(p, acc), c \notin acc
  PROVE  /\ PromisedNamed(PoolPush(p, c), acc)
         /\ PushOk(p, c) => PromisedNamed(PoolPush(p, c), acc \cup {c})
<1> USE PoolAssumption
<1> DEFINE q == PoolPush(p, c)
           b == p.cand[KeyOf[c]]
<1>1. p \in Pool /\ KeyOf[c] \in Key /\ BucketOK(b, KeyOf[c])
  BY DEF PoolOK
<1>2. q.cand = [p.cand EXCEPT ![KeyOf[c]] = BucketPush(b, c)]
  BY <1>1 DEF PoolPush, Pool
<1>3. /\ q.cand[KeyOf[c]] = BucketPush(b, c)
      /\ \A k \in Key \ {KeyOf[c]} : q.cand[k] = p.cand[k]
  BY <1>1, <1>2 DEF Pool
<1>4. ASSUME NEW w \in acc \cap Writes, w \in q.cand[KeyOf[w]].cmds
      PROVE  q.cand[KeyOf[w]].to_recover = w
  <2>1. CASE KeyOf[w] = KeyOf[c]
    <3>1. w \in b.cmds
      BY <1>3, <1>4, <2>1 DEF BucketPush
    <3>2. b.to_recover = w /\ b.total_write # 0
      BY <1>1, <2>1, <3>1, <1>4 DEF PromisedNamed, BucketOK
    <3> QED
      BY <1>3, <2>1, <3>2 DEF BucketPush
  <2>2. CASE KeyOf[w] # KeyOf[c]
    BY <1>3, <1>4, <2>2 DEF PromisedNamed
  <2> QED
    BY <2>1, <2>2
<1>5. ASSUME PushOk(p, c), c \in Writes
      PROVE  q.cand[KeyOf[c]].to_recover = c
  BY <1>3, <1>5 DEF BucketPush, PushOk
<1>6. PromisedNamed(q, acc)
  BY <1>4 DEF PromisedNamed
<1>7. PushOk(p, c) => PromisedNamed(q, acc \cup {c})
  BY <1>5, <1>6 DEF PromisedNamed
<1> QED
  BY <1>6, <1>7

(* JetpackCommandPool::remove keeps the pool well formed and every promise. *)
LEMMA PoolRemoveOK ==
  ASSUME NEW p, PoolOK(p), NEW c \in Cmd, NEW acc \in SUBSET Cmd,
         PromisedNamed(p, acc)
  PROVE  PoolOK(PoolRemove(p, c)) /\ PromisedNamed(PoolRemove(p, c), acc)
<1> USE PoolAssumption
<1> DEFINE q == PoolRemove(p, c)
           b == p.cand[KeyOf[c]]
<1>0. CASE c \notin b.cmds
  BY <1>0 DEF PoolRemove
<1>a. CASE c \in b.cmds
  <2>1. p \in Pool /\ KeyOf[c] \in Key /\ BucketOK(b, KeyOf[c])
    BY DEF PoolOK
  <2>2. q.cand = [p.cand EXCEPT ![KeyOf[c]] = BucketRemove(b, c)]
    BY <1>a, <2>1 DEF PoolRemove, Pool
  <2>3. /\ q.cand[KeyOf[c]] = BucketRemove(b, c)
        /\ \A k \in Key \ {KeyOf[c]} : q.cand[k] = p.cand[k]
    BY <2>1, <2>2 DEF Pool
  <2>4. BucketOK(BucketRemove(b, c), KeyOf[c])
    BY <2>1, BucketRemoveOK
  <2>5. \A k \in Key : BucketOK(q.cand[k], k)
    BY <2>3, <2>4 DEF PoolOK
  <2>6. BucketRemove(b, c) \in Bucket
    BY <2>4 DEF BucketOK
  <2>7. q \in Pool
    BY <1>a, <2>1, <2>6 DEF PoolRemove, Pool
  <2>8. ASSUME NEW w \in acc \cap Writes, w \in q.cand[KeyOf[w]].cmds
        PROVE  q.cand[KeyOf[w]].to_recover = w
    <3>1. CASE KeyOf[w] = KeyOf[c]
      <4>1. w \in b.cmds /\ w # c
        BY <1>a, <2>3, <2>8, <3>1 DEF BucketRemove
      <4>2. b.to_recover = w
        BY <2>8, <3>1, <4>1 DEF PromisedNamed
      <4>3. BucketRemove(b, c).to_recover = w
        BY <2>1, <2>8, <4>1, <4>2, BucketRemoveKeepsName
      <4> QED
        BY <2>3, <3>1, <4>3
    <3>2. CASE KeyOf[w] # KeyOf[c]
      BY <2>3, <2>8, <3>2 DEF PromisedNamed
    <3> QED
      BY <3>1, <3>2
  <2> QED
    BY <2>5, <2>7, <2>8 DEF PoolOK, PromisedNamed
<1> QED
  BY <1>0, <1>a

--------------------------------------------------------------------------------
(* In a well-formed pool a command is tracked exactly in its own bucket.    *)
LEMMA TrackedInOwnBucket ==
  ASSUME NEW p, PoolOK(p), NEW c \in Cmd
  PROVE  c \in Tracked(p) <=> c \in p.cand[KeyOf[c]].cmds
<1> USE PoolAssumption
<1> QED
  BY DEF Tracked, PoolOK, BucketOK

(* What a push adds to the tracked commands, and what a removal takes away. *)
LEMMA TrackedPush ==
  ASSUME NEW p, PoolOK(p), NEW c \in Cmd
  PROVE  Tracked(PoolPush(p, c)) = Tracked(p) \cup {c}
<1> USE PoolAssumption
<1>1. p \in Pool /\ KeyOf[c] \in Key
  BY DEF PoolOK
<1>2. \A k \in Key : PoolPush(p, c).cand[k].cmds =
                       IF k = KeyOf[c] THEN p.cand[k].cmds \cup {c} ELSE p.cand[k].cmds
  BY <1>1 DEF PoolPush, BucketPush, Pool
<1>3. ASSUME NEW d
      PROVE  d \in Tracked(PoolPush(p, c)) <=> d \in Tracked(p) \cup {c}
  <2>1. d \in Tracked(PoolPush(p, c))
          <=> \E k \in Key : d \in PoolPush(p, c).cand[k].cmds
    BY DEF Tracked
  <2>2. d \in Tracked(p) <=> \E k \in Key : d \in p.cand[k].cmds
    BY DEF Tracked
  <2> QED
    BY <1>1, <1>2, <2>1, <2>2
<1> QED
  BY <1>3

(* A removal tracks nothing new, and takes away no other command.           *)
LEMMA TrackedRemove ==
  ASSUME NEW p, PoolOK(p), NEW c \in Cmd
  PROVE  Tracked(PoolRemove(p, c)) = Tracked(p) \ {c}
<1> USE PoolAssumption
<1>1. p \in Pool /\ KeyOf[c] \in Key
  BY DEF PoolOK
<1>2. \A k \in Key : PoolRemove(p, c).cand[k].cmds = p.cand[k].cmds \ {c}
  <2> SUFFICES ASSUME NEW k \in Key
               PROVE  PoolRemove(p, c).cand[k].cmds = p.cand[k].cmds \ {c}
    OBVIOUS
  <2>1. k # KeyOf[c] => c \notin p.cand[k].cmds
    BY DEF PoolOK, BucketOK
  <2>2. CASE c \notin p.cand[KeyOf[c]].cmds
    BY <2>1, <2>2 DEF PoolRemove
  <2>3. CASE c \in p.cand[KeyOf[c]].cmds
    BY <1>1, <2>1, <2>3 DEF PoolRemove, BucketRemove, Pool
  <2> QED
    BY <2>2, <2>3
<1> QED
  BY <1>2 DEF Tracked
================================================================================
