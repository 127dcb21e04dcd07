# Jetpack: TLA+ models and proofs of the code

Jetpack adds a one-round-trip fast path to an existing consensus protocol. A client
sends a command both to the leader of the original protocol and, speculatively, to
every replica. A replica *promises* the command when no unexecuted command on the
same key conflicts with it. The client finishes when a super-majority, the leader
among them, promised. When the original protocol elects a new leader, the new leader
runs a recovery that collects the promises, agrees on a set of commands and submits
them through the original protocol before the fast path opens again.

The modules here are written from the C++ sources (`src/src/deptran`). The
repository's own `src/tla` models describe the published pseudocode. Where the two
disagree, these follow the code, and the disagreement is listed under *Findings*.

## 1. Inventory

| Part | State it keeps | Operations | Why it is hard, and what makes it correct |
|---|---|---|---|
| **Command pool** (`RevoveryCandidates`, `JetpackCommandPool` in `scheduler.h/.cc`) | per key: the tracked ids, `total_write_`, `to_recover_id_`; `pool_size_`, `pool_cmd_count_` | `push_back`, `remove`, `reset`, `cmd_to_recover` | Pushes, removals and resets of commands on one key interleave in any order. `to_recover_id_` may dangle. A promised write must stay the one that is reported. |
| **Fast path of a replica** (`OnRuleSpeculativeExecute`, `OriginalPathUnexecutedCmdConflictPlaceHolder`, `RuleCommandPoolGC`, `DispatchInner`) | `jetpack_status_`, `inflight_original_path_`, `paused_` | speculative execute, placeholder, garbage collection on apply | Client messages and the apply loop race; a recovering replica must promise nothing. |
| **Recovery** (`JetpackRecoveryEntry`, its RPC handlers, its quorum events, `JetpackRecoveryLoop`) | `jepoch_`, `oepoch_`, views, `max_seen_ballot_`, `max_accepted_ballot_`, `sid_`, `rec_set_`, `missed_key_cmd_set_`, the coroutine and its events | PullRecovery, Prepare, RecordCmd, Accept, Commit, FinishRecovery, resubmission | Several recoverers at once, messages left over from earlier recoveries, crashes, quorum events that fail. A promised quorum must survive; the agreed id must stand for one set; recovery must end. |
| **Raft** (`raft/server.*`, `raft/commo.cc`, `raft/coordinator.cc`) | `currentTerm`, `is_leader_`, `raft_logs_`, `commitIndex`, `executeIndex`, `next_index_`, `match_index_`, `sent_index_`, `in_flight_count_` | vote, append, pipelined replies, commit, apply | Rival candidates; replies of earlier leaderships; time-outs that send a batch twice. One leader per term; the same commands applied everywhere. |
| **Failure injection** (`server_failover_co`, `jm_signal` files) | the failure flag and the two "election done" flags of a host | pause the leader, open the gate of the next election | Elections stop when the gate closes. |
| **Rule client coordinator** (`rule/coordinator.cc`, `rule/commo.cc`, `classic/coordinator.cc`, `client_worker.cc`) | `phase_`, `cmd_`, `fast_path_success_`, the vote event and the coroutine that waits on it | start, dispatch, speculative broadcast, the two answers, end | The votes and the original path's answer race; the coroutine of a finished transaction resumes when the coordinator already runs another. A transaction must end once and always, and only with an answer. |
| **Read lease** (`raft/server.cc`) | the send time of the last answered heartbeat per follower, the lease's end, the end of the warm-up | warm up, renew, expire, drop | An old leader's heartbeats are answered while a new leader warms up. Two leases must never be valid at once. |
| **Mencius** (`mencius/`) | `slot_hint_`, `cmd_`, `committed_cmd_`, `executed_`, `max_executed_slot_`, `unexecuted_keys_` | suggest, decide, execute in order, execute out of order | Every server proposes; decisions arrive in different orders at different servers; an idle server leaves holes. |
| **CURP, CoPilot** | protocols of their own | | Not modelled, see section 7. |
| **Paxos, FPGA-Raft, EPaxos and SwiftPaxos baselines; transaction protocols inherited from Janus; etcd, MongoDB and ZooKeeper drivers; workers, memdb, benchmarks, scripts** | | | Not on Jetpack's path, drivers of external services, or measurement. Not modelled. |

Interactions. A client message enters through `ClassicServiceImpl` and touches the
pool. The apply loop of Raft removes a command from the pool just before it executes
it. Winning an election sets a trigger, which `JetpackRecoveryLoop` takes up; the
recovery RPCs arrive at the same replicas as the client messages and may demote a
Raft leader that the new view does not name. Recovered commands re-enter Raft through
`Dispatch`.

## 2. Modules

| Module | Models |
|---|---|
| `JetpackPool` | The pool's data structure as operators on records. No state; used by `CommandPool`, `JetpackRecovery` and `RuleFastPath`. |
| `CommandPool` | One replica: its pool, status, leadership and in-flight map; one action per handler. |
| `JetpackPoolProofs` | Lemmas about the pool's operators: what a push, a removal and a reset do to buckets, counts and names. |
| `CommandPoolProofs` | The theorems about `CommandPool`. |
| `RuleFastPath` | The client: coordinators, their coroutines and quorum events, composed with all replicas' pools and a replicated log. |
| `RuleFastPathProofs` | The theorems about `RuleFastPath`. |
| `JetpackRecovery` | All replicas: recovery coroutines, RPC handlers, quorum events, connections, over an abstract original protocol. |
| `JetpackRecoveryProofs` | The theorems about `JetpackRecovery`. |
| `RaftServer` | All replicas of the Raft layer: elections, replication, failure injection. |
| `RaftServerProofs` | The theorems about `RaftServer`: elections, types, safety, and the refinement of `ReplicatedLog`. |
| `ReplicatedLog` | The abstract specification of the protocol below the fast path: one growing order of submitted commands, of which each server has executed a prefix. |
| `RaftLog` | The refinement mapping under which `RaftServer` implements `ReplicatedLog`. |
| `RaftLease` | The read lease, on top of `RaftServer` and a clock. |
| `RaftLeaseProofs` | The theorem about `RaftLease`. |
| `Mencius` | All servers of the Mencius layer: proposing, deciding, both execution loops. |
| `MenciusProofs` | The theorems about `Mencius`. |
| `LeastNumber` | Lemmas: sets of numbers have least and greatest elements. |
| `MCCommandPool`, `MCRuleFastPath`, `MCJetpackRecovery`, `MCRaftServer`, `MCRaftLease`, `MCMencius` | The instances TLC checks. |

**JetpackPool / CommandPool.** A command is an id. Its key and whether it writes are
functions of the id (`KeyOf`, `Writes`), as they are of the client's `TxPieceData`,
so a bucket's map from id to command is a set of ids. `BucketPush`, `BucketRemove`,
`PoolPush`, `PoolRemove` and `ToRecover` follow the methods of the same purpose,
counters included: a second push of one id counts its write twice, and
`to_recover_id_` is cleared only with the last counted write. The environment of
`CommandPool` is deliberately weak: Raft applies commands in any order, before or
after the client's message, and twice; recovered commands come back to a replica in
any status. `skip_pool` is the configuration flag
`GetJetpackSkipPoolForOriginalPath()`, chosen at the start. `accepted`, `applied` and
`dup` are history.

**RuleFastPath.** `phase[k]` is `phase_`, which counts on from transaction to
transaction and is never reset. `GotoNextPhase` is three operators, one per case of
its switch: `InitEnd`, `Dispatched` and `WaitingOrigin`; the last is entered from
`Begin`, because an abort leaves `phase_` there. `Resume` is the rest of
`BroadcastRuleSpeculativeExecute` after its `Wait()`, which may run when the
coordinator is already in a later transaction; `fast_path_success_` is written before
the phases are compared, as in the code. Requests of one coordinator to one replica
are FIFO (one connection, one poll thread), `Dispatch` before the speculative request;
answers come in any order. A replica's handlers are those of `CommandPool`, in READY.
The leader is fixed: `JetpackRecovery` models what an election does. An abort ends the
transaction; the coordinator does not retry it.

**JetpackRecovery.** `co[r]` is the coroutine of `JetpackRecovery`. Each `Wait()` is
a control point (`round1`, `round2`, `resubmit`, `finish`), and the code between two
waits is one action. Its reply sets are the events it waits on. The coroutine acts on
*any* subset of the replies that makes the event ready, which stands for replies still
on the way; requests on one connection are FIFO. `srv[r]` holds the Jetpack fields of
`TxLogServer`. The original protocol is reduced to a true leader with an uncommitted
suffix, of which a later leader keeps a prefix, and a committed log every replica
applies in order; a deposed leader believes in its role until it steps down. `Home` is
where `GetLeaderForPartition` sends every `Dispatch`. Three details of the code that
are easy to miss are kept because they decide what recovery does: `jepoch_` and
`oepoch_` are uninitialised (`InitEpochs`), `max_jepoch_ = -1` is the *largest* epoch
(`MaxEpoch`, `FailEpochs`), and Prepare carries the ballot before it is raised.

**RaftServer.** A critical section under `mtx_` is an action. The default build is
modelled: batched and pipelined AppendEntries, elections gated by signal files. Each
AppendEntries has its own coroutine, so replies are a bag handled in any order; an RPC
can fail or time out, and a timed-out request may still be executed. Nothing is
persistent, so a crashed server never returns; that is a server no message reaches any
more, which the asynchronous channels already allow. `led` is history: who led which
term, and by whose votes; so is `leaderLog`, the log of each term's leader, which only
the proofs read. `AdvanceCommit` needs a follower, because `HeartbeatLoop` runs once per
follower: a server alone never commits. `now` is the clock, which stands still unless
`RaftLease` moves it.

**ReplicatedLog / RaftLog.** What the fast path takes for granted below it: commands
are submitted, one order of them grows, never holds a command twice and is never
changed, and each server executes a prefix of it. `RaftLog` maps the order to what the
server that is furthest has applied, and `done[r]` to what `r` has applied; the
mapping makes a step of Raft a step of the log only if no applied entry is ever
replaced, skipped or applied again. `valid` is `LeadersElected`, the condition that
every leader was elected in the term it leads: once a leader takes over the term of a
vote it refused, the abstract log promises nothing (see section 5).

**RaftLease.** Every step of `RaftServer` is a step here. `PlainStep` are the steps
that touch no lease, `RoleStep` those that end in `setIsLeader`, and `Renew` is an
accepted reply, which anchors the lease at the *send* time of the heartbeat it answers.
Time is one global counter of ticks: the code compares only readings of one
`steady_clock`, and a common counter stands for clocks of equal rate.

**Mencius.** The ballot is always 1 and Prepare is dead code, so a slot is decided by
its owner's majority. The handler of Decide counts the command's key and runs both
loops of `OnCommit` to the end in one step: `app_next_` does not yield, and all
handlers of a server run on one poll thread. The channel to oneself exists for
Decide, as in the code.

`PROJECT.json` maps every definition to its lines.

## 3. Runs

`CHECK_DEADLOCK` is on for the pool run. It is off for the others, because those
systems really may stop: all transactions have ended, a coroutine returns after a
failed quorum and nothing starts it again, the election gate closes, and the number of
elections, crashes or requests is bounded.

| Run | Question | Bounds |
|---|---|---|
| `CommandPool` | Do the counters, the assertion in `push_back`, the freeze during recovery, the promises and the leader's in-flight check hold under every interleaving, for both values of the skip-pool flag? | Five commands: two fast writes, a fast read and an original-path write on one key, a write on another. Every pair of kinds meets on one key, with a second key for the pool-wide counters. |
| `RuleFastPath` | Does a transaction end once, and always; is a fast commit recoverable; does the log respect real time? | Three replicas (the fast quorum is all of them, any refusal fails it), two coordinators, three writes on one key: one client runs a fast and then an original-path transaction, so its coordinator is reused while the first coroutine may still wait; the other runs a fast one. Followers are symmetric. |
| `Recovery` | Is a write with a fast quorum always committed or recoverable by every quorum, and committed before any pool is emptied? | Three replicas, one crash at any moment, one election, one write sent to both paths; recovered commands reach the elected leader (`Electable = {Home}`). |
| `RecoveryRuns` | Does a recovery-set id stand for one set, when recoveries fail, compete and restart? | Two replicas, both electable, two elections, initial epochs that may differ. Two replicas suffice for two rival recoverers and make every quorum the whole set, so failed events happen often. |
| `RecoveryLive` | Does every replica that entered RECOVERY become READY? | Three replicas, a crashed minority, one election, equal epochs, under `FairSpec`. |
| `RaftServer` | Does Raft implement `ReplicatedLog`, and is `match_index_` never ahead of the follower? | Two leaders in turn, two commands, two in flight per follower, three requests and failures. Enough for a stale reply to reach a re-elected index and for a batch to arrive twice. Commands are symmetric. |
| `RaftElections` | Does one candidate win a term, and do the counters stay in range? | Three terms: two rivals in term 1, another server in term 2, a server that leads again in term 3, with the failure signal. |
| `RaftLease` | Can two servers hold a read lease at once? | Two leaders in turn, no commands, three heartbeats of which two may be in flight to one follower, a lease of two ticks, three ticks: the warm-up, the old lease and the late replies overlap in every way. |
| `Mencius` | Does a slot have one command, is each decided command executed once, at once, and by everyone? | Three servers, four slots: server 0 proposes twice, server 1 once in conflict with it, server 2 is idle and leaves slot 3 empty. Under `FairSpec`. |
| `RuleReuse`, `RecoveryCrossEpoch`, `MenciusOrder` | Findings of section 5. | The smallest instances that show them; `RuleReuse` is `RuleFastPath` with clients that dispatch to another replica than the leader. |

The properties:

* `RecoverIdTracksWrites`: a bucket names a command to recover exactly when it counts
  a write (the `verify` in `push_back`), and never counts fewer writes than it holds.
* `AcceptedWriteRecoverable`: while a promised write is tracked, it is what
  PullRecovery reports for its key.
* `CountersExact`: `pool_size_` and `pool_cmd_count_` are exact unless an id was
  pushed twice.
* `RecoveryFreezesPool`, `PromiseKeptUntilApplied`: what a step may never do to the
  pool and to the promises.
* `LeaderChecksInFlight`: with the pool skipped, the leader promises nothing that
  conflicts with an original-path command that reached it and is still to be applied,
  whatever recoveries and changes of leadership came between.
* `RealTimeOrder`: the log orders a transaction after everything that had been reported
  SUCCESS before it began. It depends on the Dispatch being sent before the
  speculative request, on the leader's vote and on the placeholders.
* `CommittedWriteHeld`: a write reported SUCCESS before the leader applied it is still
  named, or applied, by most of every majority.
* `EndsOnce`, `NobodyWaits`: a transaction is reported at most once and the in-flight
  counter is right, and no transaction is left when nothing is in flight any more.
* `ImplementsReplicatedLog`: the refinement. It contains `StateMachineSafety`, and adds
  that nothing applied is taken back, applied twice or applied unsubmitted.
* `AtMostOneLease`: as long as leaders were elected, two servers never hold a lease at
  once. The quorum behind the older lease and the voters of the newer
  leader meet in a server that answered its heartbeat before it voted, so the warm-up
  outlasts the older lease.
* `SlotAgreement`, `ExecutedWhenDecided`, `EveryoneExecutes`: of Mencius. The second
  says that the conflict test never holds a command back: every decided command is the
  only counted one on its key when the loop reaches it. This is why an idle server
  stalls nobody, and also why `ConflictsInOneOrder` fails.
* `FastCommitRecoverable`: a write with a fast quorum is in the committed log, or every
  quorum that answers the next PullRecovery would recover it. It relates the promises,
  all pools and the log at every moment of a recovery. It counts promises of one
  generation, between two resets, because of the finding on epochs.
* `FinishKeepsPromises`: as soon as one replica has been reset by FinishRecovery, and for
  ever after, every write that a fast quorum promised before the resets is committed.
  `FastCommitRecoverable` no longer looks at those promises once all are reset.
* `RecSetAgreement`: replicas that recorded one sid recorded one set.
* `RecoveryEnds`: RECOVERY leads to READY unless the replica or its recovering leader
  crashed.
* `OneWinnerPerTerm`: although `vote_for_` is never read.
* `StateMachineSafety`, `MatchIsReplicated`: as long as leaders were elected
  (`LeadersElected`). The condition is there because of the finding on terms, and is
  stated over the history `led`, so that it also excludes runs in which a leader that
  was not elected has stepped down.

Each property has a mutant in `PROJECT.json`, a plausible slip in one mapped
definition that makes TLC report the property.

## 4. Fairness

`RecoveryLive` and `Mencius` use fairness. `FairSpec` of `JetpackRecovery` asks for weak
fairness of the coroutine
of a running replica (the reactor schedules a coroutine whose event is ready), of every
connection's delivery to a running replica (TCP), and of the original protocol's
commit and apply (the heartbeat loop). Clients, elections, step-downs and crashes get
none. Nothing is assumed of failed quorum events: with unequal epochs a recovery
returns in RECOVERY and waits for the next election, so the run fixes equal epochs.
`FairSpec` of `Mencius` asks for weak fairness of each connection's delivery and of a
coordinator whose quorum event is ready; servers need not propose.
`NobodyWaits` needs no fairness: it is about the states in which nothing is left to
happen.

## 5. Findings

Each of the first three has a run that must end in a violation.

1. **A transaction is reported committed without being sent** (`rule/coordinator.cc:328`,
   run `RuleReuse`). The abort on WRONG_LEADER leaves `phase_` at WAITING_ORIGIN, and the
   coordinator's next transaction starts there: it is reported SUCCESS at once.
2. **Mencius replicas execute conflicting commands in different orders**
   (`mencius/server.cc:137`, run `MenciusOrder`). The conflict test counts only commands
   decided here, so an earlier slot whose decision is late is overtaken.
3. **Promises carry no epoch** (`scheduler.cc:537`, run `RecoveryCrossEpoch`).
   Promises from before and after a reset can form a fast quorum that no recovery sees.
   The pseudocode compares epochs.

The next seven are stated in the modules and are not kept as runs. TLC refutes each
with the change given.

4. **A leader that refuses a vote keeps leading in the candidate's term**
   (`raft/server.h:133`; `OneLeaderPerTerm` in `RaftServer.cfg`), beside the candidate
   that wins it. `testconf.cc:71-72` treats two leaders of a term as a failure. This is
   why the properties of Raft are conditional on `LeadersElected`.
5. **Recovered commands go to the configured locale** (`communicator.cc:1842`;
   `Recovery.cfg` with `FirstLeader = s1` and `Electable = {s2}`). The comment calls the
   locale a hint until the view is set, but it is used for ever. After an election
   elsewhere, the recovered command is answered WRONG_LEADER, which counts as done, and
   the following FinishRecovery empties the pools.
6. **FinishRecovery of an earlier recovery is applied** (`scheduler.cc:1992`;
   `FinishOfJoinedView` with no commands, `Electable = {s1, s3}`, two elections). The
   notes ask for the joined view and refer to a rule in a file that is not in the
   repository.
7. **Two recoverers may use one ballot** (`scheduler.cc:1163`; `RecoveredAgreement`, same
   instance) and commit different sets.
8. **A leader that took over a term renews its lease beside the elected one**
   (`raft/server.h:131`, where the step-down is commented out with "TODO recheck";
   `LeaseIsExclusive` in `RaftLease.cfg` with `Cmd = {c1}`, `MaxLog = 1`, `MaxSends = 2`,
   `kReadLeaseDurationUs = 1`, `MaxNow = 1`, `kMaxInFlightPerFollower = 1`). The comment
   at `raft/server.cc:549-552` says that a new leader cannot serve reads "until any
   previously-held lease by the prior leader has definitely expired". A leader with the
   longer log refuses the candidate's vote, enters the candidate's term all the same and
   keeps renewing, because followers that elected the candidate accept its heartbeats in
   that term. This came out of the proof of `AtMostOneLease`: under the earlier condition,
   that no term had two leaders, its invariant did not hold while the candidate was
   still waiting for votes.
9. **A failed PullRecovery loses the writes it was to recover** (`scheduler.cc:1178-1183`;
   `FastCommitRecoverable` in `Recovery.cfg` with initial epochs 0 at `s1` and 1
   elsewhere). `jepoch_` is not initialised (`scheduler.h:397`). When the elected leader
   has the smaller one, the others vote No, `max_jepoch_`, whose initial -1 is the largest
   epoch, exceeds its own and its pool is reset: with three replicas, a write that all of
   them promised is then held by too few of some quorums.
10. **Two commands of a key may tie** (`communicator.h:212`; `FastCommitRecoverable` in
   `Recovery.cfg` with two replicas and a second write on the key). With N = 2, 6, 10, ...
   replicas a fast quorum shares with a recovery quorum only half of it, and the first
   command to reach the largest count is recovered. The same numbers are excluded in
   `LedCommittedWriteHeld`.

Findings 9 and 10 came out of the proof of `FastCommitsSurvive`: both are cases its
invariant could not be kept in.

One more is a reading of the code that `RaftLease` explains and no run refutes:
`raft/server.h:286-292` says that under a lease no other replica can have been elected
since the anchor, but `OnRequestVote` does not look at leases or heartbeats. A new
leader can therefore commit while the old lease runs, and the old leader's local read
is then stale. What does hold is `AtMostOneLease`.

## 6. Proofs

All theorems hold for every value of the constants that satisfies the named assumptions
of the modules, which say no more than the types of the constants, that sets of servers
are finite and, for the refinement, not empty. A theorem that needs more says
so in its statement, and the text below says why. The bounds (`MaxTerm`, `MaxLog`,
`MaxSends`, `MaxElections`, ...) are arbitrary numbers in the proofs.

| Module | Theorem | Statement |
|---|---|---|
| `CommandPoolProofs` | `TypeCorrect` | `Spec => []TypeOK` |
| | `RecoverIdSound` | `Spec => []RecoverIdTracksWrites` |
| | `PromisedWriteReported` | `Spec => []AcceptedWriteRecoverable` |
| | `CountersHold` | `Spec => []CountersExact` |
| | `FreezeHolds`, `PromiseHolds`, `InFlightHolds` | the three action properties |
| `RuleFastPathProofs` | `TypeCorrect` | `Spec => []TypeOK` |
| | `LedEndsOnce`, `LedRealTimeOrder`, `LedNobodyWaits`, `LedCommitAnswered` | `Spec /\ Home = Leader => []P` |
| | `LedCommittedWriteHeld` | the same, if moreover n % 4 is not 2 |
| `JetpackRecoveryProofs` | `RecoveryTypes` | `Spec => []TypeOK` |
| | `OneSetPerSid` | `Spec => []RecSetAgreement` |
| | `FastCommitsSurvive` | `NoTies`, `HomeEpochsLead`: `Spec => [](OnlyHomeElected => FastCommitRecoverable)` |
| | `FinishAfterCommits` | the same, of `FinishKeepsPromises` |
| `RaftServerProofs` | `OneWinner` | `Spec => []OneWinnerPerTerm` |
| | `TypeCorrect` | `Spec => []TypeOK` |
| | `OneOrder` | `Spec => []StateMachineSafety` |
| | `MatchHolds` | `Spec => []MatchIsReplicated` |
| | `Implements` | `Spec => ImplementsReplicatedLog` |
| `RaftLeaseProofs` | `OneLease` | `LeaseSpec => []AtMostOneLease` |
| `MenciusProofs` | `TypeCorrect` | `Spec => []TypeOK` |
| | `Agreement` | `Spec => []SlotAgreement` |
| | `EachRunOnce` | `Spec => []ExecutedWhenDecided` |

**The pool.** Commands and keys may be infinite, and the skip-pool flag has either value.
`AcceptedWriteRecoverable` is not inductive: `remove` clears `to_recover_id_` when the
count is one, so if the count could be smaller than the number of writes present,
collecting some other write would lose the name of a promised one. `IInv` adds:

* `BucketOK`: the bucket is finite, holds commands of its own key, names a command
  exactly when its count is positive, and counts at least the writes it holds (pushing
  an id twice may make it count more);
* `PromisedNamed`: a promised write that is tracked is its bucket's name;
* `PromisedFast`: a promised command is a fast-path command that was delivered, hence
  never pushed again by a placeholder.

The facts that carry the proof are `BucketPushOK`, `BucketRemoveOK` (the count stays
above the writes) and `BucketRemoveKeepsName`, which uses `TwoWritesCounted`: with the
promised write and another one in the bucket the count is at least two, so removing the
other keeps the name. `InFlightHolds` rests on `OutstandingInFlight`: a command that is
still to be applied has an entry in the in-flight map. `CountersHold` rests on
`PoolExact`: as long as no id was pushed twice, each bucket's count is exactly its
number of writes, without which `pool_size_` would not rise when a bucket is filled.

**The client.** `Base` holds whoever the clients take for the leader: a coordinator's
transaction is the one sent in its phase and no phase is used twice (`PhasesTell`, what
`phase_` is compared for); a replica that still has a request to answer has not voted
(`QueuesOK`, `VotesOK`); what a replica promised is tracked and named until it is applied
(`PoolsKeep`, from the lemmas about the pool). `Led` holds when they know the leader:
`phase_` is a multiple of three between transactions, so none begins in WAITING_ORIGIN
(`PhasesLed`); the Dispatch reaches the leader before the speculative request, so the
leader votes only on what the log holds (`DispatchFirst`); what a coordinator waits for
is on its way to the log, in it, or being answered (`OnItsWay`); and a transaction is
ordered after what its client had seen (`AfterLogged`, `RealTimeOrder`). `Home = Leader`
is needed: without it the run `RuleReuse` refutes `CommitAnswered`.
`LedCommittedWriteHeld` adds the quorum arithmetic (`FastQuorumMeets`). Its condition on
the number of replicas is sharp: with 2, 6, 10, ... replicas the super-majority of
`RuleSuperMajority` can meet a majority in exactly half of it, and the recovery, which
wants more than half, would not see the write. Odd clusters are not affected.

**Recovery.** `RecSetAgreement` needs to know where a recovery-set id comes from:
`SetsAgreed` says that every recorded id, and every id in a RecordCmd under way, is that
of the replica it names, was taken there (`n < sidcnt`), and is recorded there with that
set. Since a replica records its own set when it takes the id, all others have the same.
`SidsPaid` bounds the counter by the elections. `Fields` keeps
`max_seen_ballot_ >= max_accepted_ballot_`, and that quorum events hold finitely many
replies. The set of commands is assumed finite, since the set recovery builds is.

**Fast commits.** `FastCommitRecoverable` and `FinishKeepsPromises` hold under three
conditions, each of which is needed (findings 5, 9 and 10):

* `OnlyHomeElected`: the only election so far, if any, was of the replica to which
  commands are dispatched, whatever other replicas are electable. The nominal failover
  is *not* covered: the favoured locale fails, and another replica, to which
  `raft/server.cc:1231-1256` gives only a longer time-out, is elected and recovers. In
  that case the properties do not hold (finding 5);
* `HomeEpochsLead`: no replica starts with larger epochs than Home; equal ones will do;
* `NoTies`: N % 4 is not 2, so that a fast quorum and a quorum share more than half of the
  latter (`QuorumFacts`, `QuorumRecovers`).

Neither property is inductive. During a recovery a promise passes from the pools into
PullRecovery's replies, into the recovery set, into the commands still to be resubmitted
and into the log, and it must not matter which of these the pools have lost already.
`HInv` follows it through these stages with one notion, `Settled(S)`: every write that a
fast quorum promised, *or still may promise* before its first reset, is in the log or in
S. The replicas that still may are those not yet `Closed`, that is, in RECOVERY or reset;
counting them makes `Settled` stable, because a replica closes for ever before it reports
its pool (`Growing`, `SettledKept`). The parts of `HInv`:

* `Kept`: a write promised since the last reset is in the log or is the name in its
  bucket (from the lemmas about the pool, across pushes and garbage collection);
* `FirstRoundOK`: each PullRecovery reply is a Yes from a closed replica and has all that
  the replica promised and the log lacks; a quorum of these settles the recovered set
  (`RecoversSettled`);
* `SecondRoundOK`: the recorded set is settled, Accept proposes that very set, and a
  RecordCmd reply brings what Home itself does not hold: so what JetpackResubmit finds a
  body for is settled (`ResubmitsSettled`);
* `LaterOK`: the commands still to be resubmitted are settled, and from the FinishRecovery
  broadcast on nothing is needed beside the log;
* `Queues`, `Numbers`: connections deliver PullRecovery first, RecordCmd once and
  FinishRecovery last, and every request passes the receiver's epoch and ballot tests, so
  that no event fails (`FirstRoundReady`, `NoRound2Fails`);
* `Alone`, `Stage`: nobody else recovers, and Home recovers once.

TLC checked `HInv` first: on the instance of `Recovery`, and with two electable replicas
and larger epochs at Home (7.7 million states).

**Elections.** Raft papers get one winner per term from `votedFor`, which this code
stores and never reads; here it follows from terms alone. `IInv` says:

* `VotersMovedOn`: everyone who voted for a running candidate, itself included, is in
  that term or a later one, so it cannot vote in it again;
* `RivalsShareNoVote`: two running candidates of one term have disjoint voters;
* `WinnersHaveMajority`: a winner had more than n/2 voters, all past the term;
* `WinnersShareNoVote`: a winner's voters are disjoint from those of a running rival.

A vote is granted only by a server whose term is smaller, which is therefore in nobody's
count for the new term (`VoteStep`). A candidate that wins while another has won its
term would have a voter in common with it (`WinStep`, by the intersection of
majorities). All other steps only raise terms (`QuietStep`).

**Raft's safety.** `TInv` types every variable, requests and replies under way included.
The safety invariant `SInv`, which holds as long as leaders were elected, is

* `Histories`: every log is *traced*: each entry was put there by the leader of its
  term, after the entries that preceded it at that leader (`leaderLog`). Two logs with
  an entry of one term at an index agree up to it (`LogMatching`);
* `Roles`: leaders and candidates are who the history says they are;
* `Requested`: a batch under way is a part of its leader's log up to the last entry the
  leader had, carries a commit index that is safe, and never ends before what the
  follower has committed; batches of one term on one connection never get shorter. This
  is why it is harmless that a batch *ends* the follower's log
  (`OnAppendEntries` cuts whatever follows it): no later batch is shorter;
* `Counted`: what a follower acknowledged, as a reply under way or as `match_index_`, it
  holds (`Evidence`), and so does every candidate it voted for since (`Passed`), unless a
  leader in between did not have it;
* `Committed`: what a server committed is a prefix of a *durable* log, and is what it
  has applied.

An entry of term t is `Durable` when every later leader has it and a majority *holds*
it: has it, will not be sent a shorter batch of t, and has voted only for candidates that
have it. `CountedIsDurable` gets this for the index a leader commits: the followers whose
`match_index_` reached it, and the leader, are a majority, and by `Passed` the first
later leader without the entry would have had a voter among them. `WinKeeps` shows that
an elected leader has everything durable, `AcceptKeeps` that a follower overwrites
nothing durable. One step per action: steps that change no log are `Quiet` and share
`QuietKeeps`; the others are `WinKeeps`, `StartKeeps`, `AdvanceCommitKeeps`, `SendKeeps`
and `AcceptKeeps`. `OneOrder` and `MatchHolds` follow (`SoundSafe`, `SoundMatch`).

**The refinement.** `Implements` adds `Distinct`: a leader's log holds submitted commands,
each once, because `Start` takes only commands that were not submitted. A leader that
commits and a follower that accepts a batch are the only ones to apply anything, and
`applyLogs` goes on where it stopped (`AppliedStep`); the server that is furthest has
applied what every other has (`FurthestCovers`); so such a step extends the order and
executes it on (`GoesExecutes`), `Start` is a submission, and all else is a stuttering
step.

**The lease.** `LInv` uses only `IInv` of the elections. The heart is `OldLeasesEnd`: what
a voter of a leader in office answered to an older leader, it answered before it voted,
so the send time of that heartbeat plus the lease's duration is not after the new
leader's warm-up; and an older leader's deadline is not either, because its anchor is
the send time of some voter's heartbeat (`Anchor`'s quorum and the voters intersect).
`Clocks` and `Stamps` say that nothing is stamped with a time that has not come.

**Mencius.** No ballot protects a slot and `OnSuggest` overwrites what it held, so
agreement rests on the slot numbers that `CreateCoordinator` hands out. `IInv` says:

* `OwnSlots`: a server's `slot_hint_` is 1 plus a multiple of N, and its proposals are in
  slots of its own residue below its next one; hence (`SlotsApart`, `NextSlotFree`) the
  slot of a new coordinator has no proposal, and `OneProposal` is kept;
* `MessagesSound`: a Suggest carries the proposal of its slot, a Decide also has a
  majority of acknowledgements behind it, which only grow (`MajorityGrows`);
* `HoldersSound`: who acknowledged a slot holds its proposal, and `committed_cmd_` is
  that proposal, with a majority.

`EachRunOnce` adds `EInv`: a server is told each decision once (`ToldOnce`: a Decide is
under way once, from the slot's owner, to a server that does not have it), slots hold one
command (`Singles`), and after every handler both loops of `OnCommit` have run to their
end with all counts of `unexecuted_keys_` at zero (`ServersRun`): so the command just
decided is the only counted one on its key, and one of the two loops takes it.

## 7. Only model-checked, and not modelled

Only model-checked:

* `RecoveryEnds` and `EveryoneExecutes`: liveness under fairness is out of the prover's
  reach, as are `ENABLED` and induction over data.
* The runs that must end in a violation.

Not modelled:

* CURP's witness and the fused RPC that only CURP uses, and CoPilot: alternatives to
  the fast path and to Raft, with no part in Jetpack's recovery.
* Paxos, FPGA-Raft, EPaxos and SwiftPaxos: baselines of the evaluation. Paxos runs under
  one fixed leader, without failover.
* Mencius's SKIP: the code records skippable slots only beyond a hundred; the loop that
  would then commit them does not advance, and the handler would lock `g_mutex` twice.
  Both are listed as a hazard. The freeing of entries a thousand slots back is left out,
  as are `in_applying_logs_`, which is never found set because `app_next_` does not yield,
  and the deduplication that moves `max_committed_slot_` over undecided slots only.
* Answers with the control effect of one that is modelled, or that cannot be reached: the
  REJECT of a Dispatch (as WRONG_LEADER, for transactions of one piece), and a failed
  RecordCmd, which takes more crashes than a minority.
* The transaction protocols of the Janus code base; the drivers of etcd, MongoDB and
  ZooKeeper, whose consensus is outside the repository; `memdb`, workloads, scripts,
  measurement. `ae/local` is a second, slightly different
  copy of the sources, for the artifact evaluation.
* The values a speculative or a leased read returns; trimming of executed Raft entries;
  memory lifetime of RPC replies that arrive after a time-out; the compile-time
  alternatives of Raft (unbatched, unpipelined); the RPCs `PullIdSet` and `PullCmd`,
  which the current coroutine does not call; logging, metrics and configuration.

## 8. Plan

1. The composition of `RuleFastPath` with `JetpackRecovery`: a command that was collected
   and delivered again, an election during resubmission.
2. Recovery: ballots and agreement on the set that is committed, under the condition that
   the finding on equal ballots does not apply; the wrap of the epoch at its largest
   value, and that the committed sid is known to whoever resubmits it.
3. Action properties of Raft worth a theorem of their own: a committed entry is never
   overwritten, `commitIndex` and `executeIndex` never go back.
4. CoPilot.
