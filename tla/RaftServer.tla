------------------------------ MODULE RaftServer ------------------------------
(***************************************************************************)
(* The Raft layer Jetpack runs on (src/src/deptran/raft/server.cc,         *)
(* server.h, commo.cc), as it is built by default: pipelined and batched   *)
(* AppendEntries, and elections gated by signal files.                     *)
(*                                                                         *)
(* A critical section under mtx_ is an action.  Requests travel on one     *)
(* FIFO connection per pair of servers; a paused client only delays them.  *)
(* Each AppendEntries has a coroutine of its own, so replies are handled   *)
(* in any order.  Nothing is persistent: a crashed server does not return  *)
(* and is a server no message reaches any more.                            *)
(***************************************************************************)
EXTENDS Integers, Sequences, FiniteSets, BagsExt

CONSTANTS
  Server,
  Cmd,         \* the commands clients submit
  Host, HostOf,  \* jm_signal files are shared by the servers of a host
  Failing,     \* the hosts whose configuration has failover on
  kMaxInFlightPerFollower,
  MaxTerm,     \* bound: terms
  Timeouts,    \* bound: <<r, t>>, the elections that timers may start
  MaxLog,      \* bound: entries of a log
  MaxSends     \* bound: AppendEntries requests and their failures together

N == Cardinality(Server)

ASSUME RaftAssumption ==
  /\ IsFiniteSet(Server)
  /\ Timeouts \subseteq Server \X (1 .. MaxTerm)
  /\ Failing \subseteq Host
  /\ HostOf \in [Server -> Host]
  /\ kMaxInFlightPerFollower \in Nat \ {0}
  /\ MaxTerm \in Nat
  /\ MaxLog \in Nat
  /\ MaxSends \in Nat

ASSUME SomeServer == Server # {}

VARIABLES
  currentTerm,
  leaders,   \* the servers whose is_leader_ is true
  log,       \* log[r]: raft_logs_ up to lastLogIndex
  commit,    \* commit[r]: commitIndex
  applied,   \* applied[r]: what app_next_ got; its length is executeIndex
  peer,      \* peer[r][f]: next_index_, match_index_, sent_index_ and
             \* in_flight_count_ of f at r
  cand,      \* cand[r]: RequestVote's locals and its quorum event
  paused,    \* the servers that are paused
  signals,   \* signals[h]: the keys in host h's signal files
  chan,      \* chan[s][d]: requests in flight from s to d
  acks,      \* the AppendEntries replies in flight: a bag, how many of each
  sends,     \* number of AppendEntries requests and failures so far
  submitted, \* the commands submitted so far
  led,       \* history: [term, by, votes], who led which term, by whose votes
  leaderLog, \* history: leaderLog[t], the log of the leader of term t
  now        \* MonotonicNowUs(); it stands still here, RaftLease lets it pass

logVars   == <<log, commit, applied, submitted, leaderLog>>
netVars   == <<chan, acks, sends>>
gateVars  == <<paused, signals>>
vars == <<currentTerm, leaders, logVars, peer, cand, gateVars, netVars, led, now>>

Follower(r) == Server \ {r}

MaxOf(x, y) == IF x >= y THEN x ELSE y
MinOf(x, y) == IF x <= y THEN x ELSE y

LastTerm(l) == IF l = << >> THEN 0 ELSE l[Len(l)].term

NoCand == [term |-> 0, after |-> FALSE, yes |-> {}, no |-> {}]

Fresh(last) == [next |-> last + 1, match |-> 0, sent |-> last, inflight |-> 0]

Init ==
  /\ currentTerm = [r \in Server |-> 0]
  /\ leaders = {}
  /\ log = [r \in Server |-> << >>]
  /\ commit = [r \in Server |-> 0]
  /\ applied = [r \in Server |-> << >>]
  /\ peer = [r \in Server |-> [f \in Server |-> Fresh(0)]]
  /\ cand = [r \in Server |-> NoCand]
  /\ paused = {}
  /\ signals = [h \in Host |-> {}]
  /\ chan = [s \in Server |-> [d \in Server |-> << >>]]
  /\ acks = << >>
  /\ sends = 0
  /\ submitted = {}
  /\ led = {}
  /\ leaderLog = [t \in 1 .. MaxTerm |-> << >>]
  /\ now = 0

--------------------------------------------------------------------------------
(* Elections.                                                               *)

(* The gate at the head of RequestVote: one initial election, and one more  *)
(* once the failure has been triggered, per host of signal files.           *)
Skipped(r) ==
  LET s == signals[HostOf[r]] IN
  IF "failure" \in s THEN "post" \in s ELSE "init" \in s

(* The election timer fires: RequestVote up to its Wait.                    *)
RequestVote(r) ==
  /\ r \notin leaders \cup paused
  /\ cand[r] = NoCand
  /\ ~Skipped(r)
  /\ <<r, currentTerm[r] + 1>> \in Timeouts
  /\ LET term == currentTerm[r] + 1
         vote == [type |-> "Vote", term |-> term, last |-> Len(log[r]),
                  lterm |-> LastTerm(log[r])]
     IN  /\ currentTerm' = [currentTerm EXCEPT ![r] = term]
         /\ cand' = [cand EXCEPT ![r] = [term |-> term, yes |-> {}, no |-> {},
                       after |-> "failure" \in signals[HostOf[r]]]]
         /\ chan' = [chan EXCEPT ![r] =
                       [d \in Server |-> IF d = r THEN @[d] ELSE Append(@[d], vote)]]
  /\ UNCHANGED <<now, leaders, logVars, peer, gateVars, acks, sends, led>>

(* doVote's caller grants a vote only in a term newer than its own, to a    *)
(* candidate whose log is at least as up to date.                           *)
MutUpToDateAlways(m, l) == m.lterm >= 0

UpToDate(m, l) ==
  \/ m.lterm > LastTerm(l)
  \/ m.lterm = LastTerm(l) /\ m.last >= Len(l)

MutGrantsSameTerm(d, m) == m.term >= currentTerm[d] /\ UpToDate(m, log[d])

Grants(d, m) == m.term > currentTerm[d] /\ UpToDate(m, log[d])

(* OnRequestVote and doVote on d.  A newer term is adopted even when the    *)
(* vote is refused; only a granted vote makes a leader step down.           *)
OnRequestVote(s, d, m) ==
  LET grant == Grants(d, m)
      rises == m.term > currentTerm[d]
  IN
  /\ currentTerm' = [currentTerm EXCEPT ![d] = MaxOf(@, m.term)]
  /\ leaders' = IF grant THEN leaders \ {d} ELSE leaders
  /\ led' = IF rises /\ d \in leaders'
            THEN led \cup {[term |-> m.term, by |-> d, votes |-> {}]} ELSE led
  /\ cand' = IF cand[s].term # m.term THEN cand
             ELSE IF grant THEN [cand EXCEPT ![s].yes = @ \cup {d}]
             ELSE [cand EXCEPT ![s].no = @ \cup {[from |-> d, term |-> currentTerm[d]]}]
  /\ UNCHANGED <<now, logVars, peer, gateVars, acks, sends>>

(* The quorum event of BroadcastVote waits for n/2 of the n - 1 others.     *)
Yes(votes) == Cardinality(votes) >= N \div 2

No(votes) == Cardinality(votes) > N - N \div 2

(* RequestVote after its Wait, with a quorum of votes in its own term:      *)
(* setIsLeader(true) and MarkElectionDoneLocked.                            *)
Win(r) ==
  /\ cand[r] # NoCand
  /\ Yes(cand[r].yes)
  /\ cand[r].term = currentTerm[r]
  /\ leaders' = leaders \cup {r}
  /\ peer' = [peer EXCEPT ![r] = [f \in Server |-> Fresh(Len(log[r]))]]
  /\ signals' = [signals EXCEPT ![HostOf[r]] =
                   @ \cup {IF cand[r].after THEN "post" ELSE "init"}]
  /\ led' = led \cup {[term |-> currentTerm[r], by |-> r,
                        votes |-> cand[r].yes \cup {r}]}
  /\ leaderLog' = [leaderLog EXCEPT ![currentTerm[r]] = log[r]]
  /\ cand' = [cand EXCEPT ![r] = NoCand]
  /\ UNCHANGED <<now, currentTerm, log, commit, applied, submitted, paused, netVars>>

(* The other ends of RequestVote: one second has passed, the term has moved *)
(* on, or there are too many refusals among the replies that have come.     *)
GiveUp(r) ==
  /\ cand[r] # NoCand
  /\ cand' = [cand EXCEPT ![r] = NoCand]
  /\ \E seen \in SUBSET cand[r].no :
       IF No(seen)
       THEN \E t \in {currentTerm[r]} \cup {m.term : m \in seen} :
            /\ t >= currentTerm[r] /\ \A m \in seen : t >= m.term
            /\ currentTerm' = [currentTerm EXCEPT ![r] = t]
       ELSE UNCHANGED currentTerm
  /\ UNCHANGED <<now, leaders, logVars, peer, gateVars, netVars, led>>

(* Who won a term voted for itself; a leader that only adopted one did not. *)
Won(x) == x.votes # {}

(* OnJetpackBeginRecovery: the PullRecovery of a server that won an         *)
(* election makes a leader its view does not name step down.                *)
Demote(r) ==
  /\ r \in leaders
  /\ \E x \in led : Won(x) /\ x.by # r
  /\ leaders' = leaders \ {r}
  /\ UNCHANGED <<now, currentTerm, logVars, peer, cand, gateVars, netVars, led>>

(* server_failover_co on host h: write the failure signal and pause the     *)
(* host's leader, once.                                                     *)
Failover(h) ==
  /\ h \in Failing
  /\ "failure" \notin signals[h]
  /\ signals' = [signals EXCEPT ![h] = @ \cup {"failure"}]
  /\ LET here == {r \in leaders : HostOf[r] = h} IN
     IF here = {} THEN paused' = paused
     ELSE \E r \in here : paused' = paused \cup {r}
  /\ UNCHANGED <<now, currentTerm, leaders, logVars, peer, cand, netVars, led>>

--------------------------------------------------------------------------------
(* Replication.                                                             *)

(* CoordinatorRaft::Submit and Start: the leader appends a command.         *)
Start(r, c) ==
  /\ r \in leaders \ paused
  /\ c \notin submitted
  /\ Len(log[r]) < MaxLog
  /\ submitted' = submitted \cup {c}
  /\ log' = [log EXCEPT ![r] = Append(@, [term |-> currentTerm[r], cmd |-> c])]
  /\ leaderLog' = [leaderLog EXCEPT ![currentTerm[r]] = log'[r]]
  /\ UNCHANGED <<now, currentTerm, leaders, commit, applied, peer, cand, gateVars,
                 netVars, led>>

(* applyLogs: from executeIndex + 1 to commitIndex.                         *)
MutApplyLogsAgain(done, l, upto) ==
  IF upto > Len(done) THEN done \o SubSeq(l, MaxOf(Len(done), 1), upto) ELSE done

ApplyLogs(done, l, upto) ==
  IF upto > Len(done) THEN done \o SubSeq(l, Len(done) + 1, upto) ELSE done

(* matchedIndices[(nservers - 1) / 2] of the sorted n - 1 indices.          *)
MatchedIndex(r) ==
  LET ms == {peer[r][f].match : f \in Follower(r)}
      above(i) == Cardinality({f \in Follower(r) : peer[r][f].match >= i})
      enough == {i \in ms : above(i) >= (N - 1) - (N - 1) \div 2}
  IN  CHOOSE i \in enough : \A j \in enough : i >= j

(* HeartbeatLoop's first critical section; there is a loop per follower.    *)
AdvanceCommit(r) ==
  /\ r \in leaders /\ Follower(r) # {}
  /\ LET new == MinOf(MatchedIndex(r), Len(log[r])) IN
     /\ new > commit[r]
     /\ log[r][new].term = currentTerm[r]
     /\ commit' = [commit EXCEPT ![r] = new]
     /\ applied' = [applied EXCEPT ![r] = ApplyLogs(@, log[r], new)]
  /\ UNCHANGED <<now, currentTerm, leaders, log, peer, cand, gateVars, netVars,
                 submitted, led, leaderLog>>

(* One round of HeartbeatLoop's drain: everything after sent_index_ in one  *)
(* batch, or a heartbeat.                                                   *)
SendAppend(r, f) ==
  /\ r \in leaders
  /\ r # f
  /\ peer[r][f].inflight < kMaxInFlightPerFollower
  /\ sends < MaxSends
  /\ sends' = sends + 1
  /\ LET last == Len(log[r])
         next == MinOf(peer[r][f].next, last + 1)
         sent == MaxOf(peer[r][f].sent, next - 1)
         prev == MinOf(sent, last)
     IN  /\ peer' = [peer EXCEPT ![r][f] = [@ EXCEPT !.next = next,
                       !.sent = MaxOf(sent, last),
                       !.inflight = peer[r][f].inflight + 1]]
         /\ chan' = [chan EXCEPT ![r][f] = Append(@,
              [type |-> "Append", term |-> currentTerm[r], prev |-> prev,
               pterm |-> LastTerm(SubSeq(log[r], 1, prev)), commit |-> commit[r],
               ents |-> SubSeq(log[r], prev + 1, last), at |-> now,
               late |-> FALSE])]
  /\ UNCHANGED <<now, currentTerm, leaders, logVars, cand, gateVars, acks, led>>

(* OnAppendEntries accepts from a leader of no older term when the previous *)
(* entry is its own.                                                        *)
Accepts(d, m) ==
  /\ m.term >= currentTerm[d]
  /\ m.prev <= Len(log[d])
  /\ m.prev > 0 => log[d][m.prev].term = m.pterm

(* A batch ends the log; a heartbeat leaves it alone.  A refusal leaves     *)
(* the follower's term alone too.                                           *)
OnAppendEntries(s, d, m) ==
  LET ok == Accepts(d, m)
      newlog == IF m.ents = << >> THEN log[d]
                ELSE SubSeq(log[d], 1, m.prev) \o m.ents
      rises == m.term > currentTerm[d]
      commits == m.commit > commit[d]
      upto == MinOf(m.commit, Len(newlog))
  IN
  /\ IF ok
     THEN /\ currentTerm' = [currentTerm EXCEPT ![d] = m.term]
          /\ leaders' = IF rises THEN leaders \ {d} ELSE leaders
          /\ log' = [log EXCEPT ![d] = newlog]
          /\ commit' = [commit EXCEPT ![d] = IF commits THEN upto ELSE @]
          /\ applied' = [applied EXCEPT ![d] =
                           IF commits THEN ApplyLogs(@, newlog, upto) ELSE @]
     ELSE UNCHANGED <<currentTerm, leaders, log, commit, applied>>
  /\ acks' = IF m.late THEN acks ELSE BagAdd(acks,
       [to |-> s, from |-> d, sterm |-> m.term, at |-> m.at, hb |-> m.ents = << >>,
        ok |-> ok, term |-> currentTerm'[d], last |-> Len(log'[d])])
  /\ UNCHANGED <<now, submitted, peer, cand, gateVars, sends, led, leaderLog>>

Deliver(s, d) ==
  /\ chan[s][d] # << >>
  /\ chan' = [chan EXCEPT ![s][d] = Tail(@)]
  /\ LET m == Head(chan[s][d]) IN
     \/ m.type = "Vote" /\ OnRequestVote(s, d, m)
     \/ m.type = "Append" /\ OnAppendEntries(s, d, m)

(* The end of an AppendEntries coroutine: it has its reply, and forgets it. *)
TakeAck(a) == acks' = BagRemove(acks, a)

MutLandedNoFloor(p) == [p EXCEPT !.inflight = @ - 1]

Landed(p) == [p EXCEPT !.inflight = MaxOf(@ - 1, 0)]

(* All zeroes stand for a lost reply; a reply to an older term is ignored.  *)
Ignored(a) ==
  \/ ~a.ok /\ a.term = 0 /\ a.last = 0
  \/ currentTerm[a.to] > a.sterm

AckIgnored(a) ==
  /\ Ignored(a)
  /\ TakeAck(a)
  /\ peer' = [peer EXCEPT ![a.to][a.from] = Landed(@)]
  /\ UNCHANGED <<now, currentTerm, leaders, logVars, cand, gateVars, chan, sends,
                 led>>

AckNewerTerm(a) ==
  /\ ~Ignored(a) /\ ~a.ok /\ a.term > a.sterm
  /\ TakeAck(a)
  /\ currentTerm' = [currentTerm EXCEPT ![a.to] = a.term]
  /\ leaders' = leaders \ {a.to}
  /\ peer' = [peer EXCEPT ![a.to][a.from] = Landed(@)]
  /\ UNCHANGED <<now, logVars, cand, gateVars, chan, sends, led>>

Rewind(p) ==
  LET next == MaxOf(p.next - 1, 1) IN [p EXCEPT !.next = next, !.sent = next - 1]

AckRejected(a) ==
  /\ ~Ignored(a) /\ ~a.ok /\ a.term <= a.sterm
  /\ TakeAck(a)
  /\ peer' = [peer EXCEPT ![a.to][a.from] = Landed(Rewind(@))]
  /\ UNCHANGED <<now, currentTerm, leaders, logVars, cand, gateVars, chan, sends,
                 led>>

(* An accepted batch moves next_index_ and match_index_ forward only; an    *)
(* accepted heartbeat moves nothing.                                        *)
MutAdvanceOnHeartbeat(p, a, last) ==
  [p EXCEPT !.next = MaxOf(@, a.last + 1), !.match = MaxOf(@, MinOf(a.last, last))]

Advance(p, a, last) ==
  IF a.hb THEN p
  ELSE [p EXCEPT !.next = MaxOf(@, a.last + 1),
                 !.match = MaxOf(@, MinOf(a.last, last))]

AckAccepted(a) ==
  /\ ~Ignored(a) /\ a.ok
  /\ TakeAck(a)
  /\ peer' = [peer EXCEPT ![a.to][a.from] =
                Landed(Advance(@, a, Len(log[a.to])))]
  /\ UNCHANGED <<now, currentTerm, leaders, logVars, cand, gateVars, chan, sends,
                 led>>

(* An RPC error on the way back: only in_flight_count_ changes.             *)
RpcError(a) ==
  /\ sends < MaxSends
  /\ sends' = sends + 1
  /\ TakeAck(a)
  /\ peer' = [peer EXCEPT ![a.to][a.from] = Landed(@)]
  /\ UNCHANGED <<now, currentTerm, leaders, logVars, cand, gateVars, chan, led>>

(* Sixty seconds without a reply: what is after next_index_ will be sent    *)
(* again, and the reply, if the request still arrives, will find nobody.    *)
RpcTimeout(r, f) ==
  /\ sends < MaxSends
  /\ sends' = sends + 1
  /\ \/ \E i \in DOMAIN chan[r][f] :
          /\ chan[r][f][i].type = "Append" /\ ~chan[r][f][i].late
          /\ chan' = [chan EXCEPT ![r][f][i].late = TRUE]
          /\ UNCHANGED acks
     \/ \E a \in DOMAIN acks :
          /\ a.to = r /\ a.from = f
          /\ TakeAck(a)
          /\ UNCHANGED chan
  /\ peer' = [peer EXCEPT ![r][f] = Landed([@ EXCEPT !.sent = peer[r][f].next - 1])]
  /\ UNCHANGED <<now, currentTerm, leaders, logVars, cand, gateVars, led>>

HandleAck(a) ==
  \/ AckIgnored(a)
  \/ AckNewerTerm(a)
  \/ AckRejected(a)
  \/ AckAccepted(a)
  \/ RpcError(a)

Next ==
  \/ \E r \in Server : RequestVote(r) \/ Win(r) \/ GiveUp(r) \/ Demote(r)
  \/ \E r \in Server : AdvanceCommit(r)
  \/ \E h \in Host : Failover(h)
  \/ \E r \in Server, c \in Cmd : Start(r, c)
  \/ \E s, d \in Server : SendAppend(s, d) \/ Deliver(s, d) \/ RpcTimeout(s, d)
  \/ \E a \in DOMAIN acks : HandleAck(a)

Spec == Init /\ [][Next]_vars

--------------------------------------------------------------------------------
Entry == [term : 1 .. MaxTerm, cmd : Cmd]

(* Terms, logs and per-follower indices stay in range; in particular        *)
(* next_index_ never reaches 0 and in_flight_count_ never wraps below 0.    *)
TypeOK ==
  /\ currentTerm \in [Server -> 0 .. MaxTerm]
  /\ leaders \subseteq Server
  /\ paused \subseteq Server
  /\ submitted \subseteq Cmd
  /\ sends \in 0 .. MaxSends
  /\ \A r \in Server :
       /\ log[r] \in Seq(Entry)
       /\ Len(log[r]) <= MaxLog
       /\ applied[r] \in Seq(Entry)
       /\ commit[r] \in 0 .. MaxLog
       /\ cand[r].term \in 0 .. currentTerm[r]
       /\ \A f \in Server :
            /\ peer[r][f].next \in 1 .. MaxLog + 1
            /\ peer[r][f].match \in 0 .. MaxLog
            /\ peer[r][f].sent \in 0 .. MaxLog
            /\ peer[r][f].inflight \in 0 .. kMaxInFlightPerFollower

(* At most one candidate wins the votes of a term, though vote_for_ is      *)
(* never consulted.                                                         *)
OneWinnerPerTerm ==
  \A x, y \in led : Won(x) /\ Won(y) /\ x.term = y.term => x.by = y.by

(* No two servers that believe to be leader are in the same term            *)
(* (testconf.cc, "multiple leaders elected in term").  doVote breaks this:  *)
(* README, section 5.                                                       *)
OneLeaderPerTerm ==
  \A r, q \in leaders : currentTerm[r] = currentTerm[q] => r = q

(* So far every leader was elected in the term it led: none took over the   *)
(* term of a vote it refused.                                               *)
LeadersElected == \A x \in led : Won(x)

(* As long as leaders were elected, all servers apply the same commands in  *)
(* the same order, whatever is lost, late or sent again.                    *)
StateMachineSafety ==
  LeadersElected =>
    \A r, q \in Server : \A i \in 1 .. MinOf(Len(applied[r]), Len(applied[q])) :
      applied[r][i] = applied[q][i]

(* As long as leaders were elected, match_index_ of a leader only counts    *)
(* entries the follower has, though replies come late and out of order.     *)
MatchIsReplicated ==
  LeadersElected =>
    \A r \in leaders : \A f \in Follower(r) :
      currentTerm[f] <= currentTerm[r] =>
        \A i \in 1 .. peer[r][f].match :
          i <= Len(log[f]) /\ i <= Len(log[r]) /\ log[f][i] = log[r][i]
================================================================================
