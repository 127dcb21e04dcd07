--------------------------- MODULE RuleFastPathProofs ---------------------------
(***************************************************************************)
(* What the client's fast path guarantees for any number of replicas,      *)
(* coordinators and transactions.  Base is what holds wherever clients     *)
(* send Dispatch; Led is what more holds when they send it to the leader.  *)
(***************************************************************************)
EXTENDS RuleFastPath, JetpackPoolProofs

Message == [type: {"Dispatch", "Spec"}, cmd: Cmd]

Result == {"SUCCESS", "WRONG_LEADER"}

Types ==
  /\ phase \in [Coord -> Nat]
  /\ cur \in [Coord -> CmdOrNone]
  /\ fast \in [Coord -> BOOLEAN]
  /\ outstanding \in [Coord -> Int]
  /\ attempt \subseteq Cmd
  /\ sentIn \in [Cmd -> Nat]
  /\ votes \in [Cmd -> [yes: SUBSET Replica, no: SUBSET Replica]]
  /\ waiting \subseteq attempt
  /\ chan \in [Coord -> [Replica -> Seq(Message)]]
  /\ answers \subseteq [cmd: Cmd, res: Result]
  /\ pool \in [Replica -> Pool]
  /\ log \in Seq(Cmd)
  /\ applied \in [Replica -> Nat]
  /\ \A r \in Replica : applied[r] <= Len(log)
  /\ ended \in [Cmd -> Seq(Result)]
  /\ after \in [Cmd -> SUBSET Cmd]

(* A coordinator's transaction is the one that was sent in its phase, and a *)
(* phase is never used twice: what phase_ is compared for.                  *)
PhasesTell ==
  /\ \A k \in Coord : cur[k] # NoCmd =>
       CoordOf[cur[k]] = k /\ sentIn[cur[k]] = phase[k] /\ phase[k] # 0
  /\ \A c \in Cmd : sentIn[c] # 0 =>
       /\ sentIn[c] <= phase[CoordOf[c]]
       /\ sentIn[c] = phase[CoordOf[c]] => cur[CoordOf[c]] = c
       /\ cur[CoordOf[c]] = c \/ ended[c] # << >>

Voters(c) == votes[c].yes \cup votes[c].no

(* A request in flight was sent for a transaction that began, and a replica *)
(* that still has one to answer has not voted.                              *)
QueueOK(q, k, r, sent, att, vot) ==
  \A i \in 1 .. Len(q) :
    /\ CoordOf[q[i].cmd] = k
    /\ sent[q[i].cmd] # 0
    /\ q[i].type = "Dispatch" => r = Home
    /\ q[i].type = "Spec" => /\ q[i].cmd \in att
                             /\ r \notin vot[q[i].cmd].yes \cup vot[q[i].cmd].no
                             /\ \A j \in 1 .. Len(q) : q[j] = q[i] => j = i

QueuesOK ==
  \A k \in Coord, r \in Replica : QueueOK(chan[k][r], k, r, sentIn, attempt, votes)

VotesOK ==
  /\ \A c \in attempt : sentIn[c] # 0
  /\ \A a \in answers : sentIn[a.cmd] # 0
  /\ \A c \in Cmd : /\ Voters(c) # {} => c \in attempt
                    /\ votes[c].yes \cap votes[c].no = {}
  /\ \A i \in 1 .. Len(log) : sentIn[log[i]] # 0

(* The commands r has promised to clients.                                  *)
Promised(r) == {c \in Cmd : r \in votes[c].yes}

(* A promised command stays in the pool until it is applied, as the command *)
(* to recover if it writes.                                                 *)
PoolsKeep ==
  \A r \in Replica :
    /\ PoolOK(pool[r])
    /\ PromisedNamed(pool[r], Promised(r))
    /\ \A c \in Promised(r) : c \in Tracked(pool[r]) \/ c \in AppliedAt(r)

Base == Types /\ PhasesTell /\ QueuesOK /\ VotesOK /\ PoolsKeep

Logged == {log[i] : i \in 1 .. Len(log)}

DispatchOf(c) == [type |-> "Dispatch", cmd |-> c]

(* phase_ is a multiple of three between transactions, so none begins in    *)
(* WAITING_ORIGIN; each ends once, as committed.                            *)
PhasesLed ==
  /\ \A k \in Coord : IF cur[k] = NoCmd THEN phase[k] % 3 = 0
                       ELSE phase[k] % 3 = 1 /\ ended[cur[k]] = << >>
  /\ \A c \in Cmd : ended[c] = << >> \/ ended[c] = <<"SUCCESS">>
  /\ \A k \in Coord : outstanding[k] = IF cur[k] = NoCmd THEN 0 ELSE 1

(* In the queue q every speculative request follows the Dispatch of its     *)
(* command, unless that one is among done.                                  *)
FirstOK(q, done) ==
  \A i \in 1 .. Len(q) : q[i].type = "Spec" =>
    \/ q[i].cmd \in done
    \/ \E j \in 1 .. i - 1 : q[j] = DispatchOf(q[i].cmd)

(* Dispatch reaches the leader before the speculative request does, so the  *)
(* leader votes on what is in the log already.                              *)
DispatchFirst ==
  /\ \A k \in Coord : FirstOK(chan[k][Leader], Logged)
  /\ \A c \in Cmd : Leader \in Voters(c) => c \in Logged

Queued(q, c) == \E i \in 1 .. Len(q) : q[i] = DispatchOf(c)

ToApply(c) == \E i \in 1 .. Len(log) : i > applied[Leader] /\ log[i] = c

(* What a coordinator waits for is on its way to the log, in it, or being   *)
(* answered.                                                                *)
OnItsWay ==
  \A k \in Coord : cur[k] # NoCmd =>
    \/ Queued(chan[k][Leader], cur[k])
    \/ ToApply(cur[k])
    \/ [cmd |-> cur[k], res |-> "SUCCESS"] \in answers

AnswersApplied == \A a \in answers : a.res = "SUCCESS" /\ a.cmd \in AppliedAt(Leader)

AfterLogged == \A c \in Cmd : after[c] \subseteq Logged

Led ==
  /\ Home = Leader
  /\ PhasesLed
  /\ DispatchFirst
  /\ OnItsWay
  /\ AnswersApplied
  /\ CommitAnswered
  /\ AfterLogged
  /\ RealTimeOrder

--------------------------------------------------------------------------------
(* Indices of a concatenation.                                              *)
LEMMA Concat ==
  ASSUME NEW S, NEW s \in Seq(S), NEW t \in Seq(S)
  PROVE  /\ s \o t \in Seq(S)
         /\ Len(s \o t) = Len(s) + Len(t)
         /\ Len(s) \in Nat /\ Len(t) \in Nat
         /\ \A i \in 1 .. Len(s) : (s \o t)[i] = s[i]
         /\ \A i \in 1 .. Len(s \o t) : i > Len(s) =>
              i - Len(s) \in 1 .. Len(t) /\ (s \o t)[i] = t[i - Len(s)]
OBVIOUS

(* INIT_END sends at most one request of each kind, Dispatch to Home only   *)
(* and first.                                                               *)
LEMMA RequestsSent ==
  ASSUME NEW c \in Cmd, NEW r \in Replica, NEW f \in BOOLEAN
  PROVE  LET q == Requests(c, r, f) IN
         /\ q \in Seq(Message)
         /\ \A i \in 1 .. Len(q) : /\ q[i].cmd = c
                                   /\ q[i].type = "Dispatch" => r = Home
                                   /\ q[i].type = "Spec" => f
                                   /\ \A j \in 1 .. Len(q) : q[j] = q[i] => j = i
         /\ r = Home => Len(q) >= 1 /\ q[1] = [type |-> "Dispatch", cmd |-> c]
<1> DEFINE D == [type |-> "Dispatch", cmd |-> c]
           S == [type |-> "Spec", cmd |-> c]
           q == Requests(c, r, f)
<1>1. /\ D \in Message /\ S \in Message /\ D.cmd = c /\ S.cmd = c
      /\ D.type = "Dispatch" /\ S.type = "Spec" /\ D # S
  BY DEF Message
<1>2. q = (IF r = Home THEN <<D>> ELSE << >>) \o (IF f THEN <<S>> ELSE << >>)
  BY DEF Requests
<1> HIDE DEF D, S, q
<1>3. CASE r = Home /\ f
  <2>1. q = <<D>> \o <<S>> /\ <<D>> \in Seq(Message) /\ <<S>> \in Seq(Message)
    BY <1>1, <1>2, <1>3
  <2>2. q \in Seq(Message) /\ Len(q) = 2 /\ q[1] = D /\ q[2] = S
    BY <2>1, Concat
  <2>3. \A i \in 1 .. Len(q) : i = 1 \/ i = 2
    BY <2>2
  <2>4. \A i, j \in 1 .. Len(q) : q[j] = q[i] => j = i
    BY <1>1, <2>2, <2>3
  <2>5. \A i \in 1 .. Len(q) : q[i].cmd = c
    BY <1>1, <2>2, <2>3
  <2>6. Len(q) >= 1 /\ q[1] = [type |-> "Dispatch", cmd |-> c]
    BY <2>2 DEF D
  <2> QED
    BY <1>3, <2>2, <2>4, <2>5, <2>6 DEF q
<1>4. CASE r = Home /\ ~f
  <2>1. q \in Seq(Message) /\ Len(q) = 1 /\ q[1] = D
    BY <1>1, <1>2, <1>4
  <2>2. \A i \in 1 .. Len(q) : i = 1
    BY <2>1
  <2> QED
    BY <1>1, <1>4, <2>1, <2>2 DEF D, q
<1>5. CASE r # Home /\ f
  <2>1. q \in Seq(Message) /\ Len(q) = 1 /\ q[1] = S
    BY <1>1, <1>2, <1>5
  <2>2. \A i \in 1 .. Len(q) : i = 1
    BY <2>1
  <2> QED
    BY <1>1, <1>5, <2>1, <2>2 DEF q
<1>6. CASE r # Home /\ ~f
  <2>1. q = << >>
    BY <1>2, <1>6
  <2> QED
    BY <1>6, <2>1 DEF q
<1> QED
  BY <1>3, <1>4, <1>5, <1>6

(* A queue stays sound while transactions begin, as long as its replica     *)
(* votes on none of the speculative requests in it.                         *)
LEMMA QueueMono ==
  ASSUME NEW q \in Seq(Message), NEW k, NEW r, NEW s1, NEW a1, NEW v1,
         NEW s2, NEW a2, NEW v2, QueueOK(q, k, r, s1, a1, v1),
         \A d \in Cmd : s1[d] # 0 => s2[d] # 0,
         a1 \subseteq a2,
         \A i \in 1 .. Len(q) : q[i].type = "Spec" =>
           (r \in v2[q[i].cmd].yes \cup v2[q[i].cmd].no
              => r \in v1[q[i].cmd].yes \cup v1[q[i].cmd].no)
  PROVE  QueueOK(q, k, r, s2, a2, v2)
<1>1. \A i \in 1 .. Len(q) : q[i] \in Message
  OBVIOUS
<1>2. \A i \in 1 .. Len(q) : q[i].cmd \in Cmd
  BY <1>1 DEF Message
<1> QED
  BY <1>2 DEF QueueOK

(* What is left of a queue whose head is delivered, and the head.           *)
LEMMA QueueTail ==
  ASSUME NEW q \in Seq(Message), q # << >>, NEW k, NEW r, NEW s, NEW a, NEW v,
         QueueOK(q, k, r, s, a, v)
  PROVE  /\ Tail(q) \in Seq(Message)
         /\ QueueOK(Tail(q), k, r, s, a, v)
         /\ Head(q) \in Message /\ Head(q) = q[1] /\ 1 \in 1 .. Len(q)
         /\ Head(q).type = "Spec" => \A i \in 1 .. Len(Tail(q)) : Tail(q)[i] # Head(q)
<1>1. /\ Tail(q) \in Seq(Message) /\ Len(Tail(q)) = Len(q) - 1 /\ Len(q) \in Nat /\ Len(q) >= 1
      /\ Head(q) \in Message /\ Head(q) = q[1] /\ 1 \in 1 .. Len(q)
  OBVIOUS
<1>2. \A i \in 1 .. Len(Tail(q)) : Tail(q)[i] = q[i + 1] /\ i + 1 \in 1 .. Len(q)
  BY <1>1
<1>3. QueueOK(Tail(q), k, r, s, a, v)
  <2> SUFFICES ASSUME NEW i \in 1 .. Len(Tail(q))
               PROVE  /\ CoordOf[Tail(q)[i].cmd] = k
                      /\ s[Tail(q)[i].cmd] # 0
                      /\ Tail(q)[i].type = "Dispatch" => r = Home
                      /\ Tail(q)[i].type = "Spec" =>
                           /\ Tail(q)[i].cmd \in a
                           /\ r \notin v[Tail(q)[i].cmd].yes \cup v[Tail(q)[i].cmd].no
                           /\ \A j \in 1 .. Len(Tail(q)) : Tail(q)[j] = Tail(q)[i] => j = i
    BY DEF QueueOK
  <2>1. Tail(q)[i] = q[i + 1] /\ i + 1 \in 1 .. Len(q)
    BY <1>2
  <2>2. ASSUME q[i + 1].type = "Spec", NEW j \in 1 .. Len(Tail(q)), Tail(q)[j] = Tail(q)[i]
        PROVE  j = i
    <3>1. q[j + 1] = q[i + 1] /\ j + 1 \in 1 .. Len(q)
      BY <1>2, <2>1, <2>2
    <3>2. j + 1 = i + 1
      BY <3>1, <2>1, <2>2 DEF QueueOK
    <3> QED
      BY <3>2
  <2> QED
    BY <2>1, <2>2 DEF QueueOK
<1>4. Head(q).type = "Spec" => \A i \in 1 .. Len(Tail(q)) : Tail(q)[i] # Head(q)
  <2> SUFFICES ASSUME q[1].type = "Spec", NEW i \in 1 .. Len(Tail(q)), q[i + 1] = q[1]
               PROVE  FALSE
    BY <1>1, <1>2
  <2>1. i + 1 = 1
    BY <1>1, <1>2 DEF QueueOK
  <2> QED
    BY <2>1
<1> QED
  BY <1>1, <1>3, <1>4

(* The requests of a transaction that is new may follow those in a queue.   *)
LEMMA QueueSend ==
  ASSUME NEW q \in Seq(Message), NEW c \in Cmd, NEW r \in Replica, NEW f \in BOOLEAN,
         NEW s, NEW a, NEW v, QueueOK(q, CoordOf[c], r, s, a, v),
         \A i \in 1 .. Len(q) : q[i].cmd # c,
         s[c] # 0, f => c \in a, r \notin v[c].yes \cup v[c].no
  PROVE  QueueOK(q \o Requests(c, r, f), CoordOf[c], r, s, a, v)
<1>1. PICK n \in Seq(Message) : n = Requests(c, r, f)
  BY RequestsSent
<1>2. \A l \in 1 .. Len(n) : /\ n[l].cmd = c
                             /\ n[l].type = "Dispatch" => r = Home
                             /\ n[l].type = "Spec" => f
                             /\ \A x \in 1 .. Len(n) : n[x] = n[l] => x = l
  <2>1. LET w == Requests(c, r, f) IN
        \A l \in 1 .. Len(w) : /\ w[l].cmd = c
                               /\ w[l].type = "Dispatch" => r = Home
                               /\ w[l].type = "Spec" => f
                               /\ \A x \in 1 .. Len(w) : w[x] = w[l] => x = l
    BY RequestsSent
  <2> QED
    BY <1>1, <2>1
<1>3. PICK z \in Seq(Message) : z = q \o n
  BY Concat
<1>4. /\ Len(z) = Len(q) + Len(n) /\ Len(q) \in Nat /\ Len(n) \in Nat
      /\ \A l \in 1 .. Len(q) : z[l] = q[l]
      /\ \A l \in 1 .. Len(z) : l > Len(q) =>
           l - Len(q) \in 1 .. Len(n) /\ z[l] = n[l - Len(q)]
  BY <1>3, Concat
<1>5. \A l \in 1 .. Len(z) : l > Len(q) => z[l].cmd = c
  BY <1>4, <1>2
<1>6. \A l \in 1 .. Len(z) : l <= Len(q) => z[l] = q[l] /\ l \in 1 .. Len(q) /\ z[l].cmd # c
  BY <1>4
<1>7. ASSUME NEW i \in 1 .. Len(z)
      PROVE  /\ CoordOf[z[i].cmd] = CoordOf[c]
             /\ s[z[i].cmd] # 0
             /\ z[i].type = "Dispatch" => r = Home
             /\ z[i].type = "Spec" => /\ z[i].cmd \in a
                                      /\ r \notin v[z[i].cmd].yes \cup v[z[i].cmd].no
                                      /\ \A j \in 1 .. Len(z) : z[j] = z[i] => j = i
  <2>1. CASE i <= Len(q)
    <3>1. z[i] = q[i] /\ i \in 1 .. Len(q) /\ z[i].cmd # c
      BY <2>1, <1>6
    <3>2. \A j \in 1 .. Len(z) : z[j] = z[i] => j \in 1 .. Len(q) /\ q[j] = q[i]
      BY <3>1, <1>4, <1>5, <1>6
    <3> QED
      BY <3>1, <3>2 DEF QueueOK
  <2>2. CASE i > Len(q)
    <3>1. PICK x \in 1 .. Len(n) : x = i - Len(q) /\ z[i] = n[x] /\ z[i].cmd = c
      BY <2>2, <1>4, <1>5
    <3>2. ASSUME NEW j \in 1 .. Len(z), z[j] = z[i] PROVE j = i
      <4>1. j > Len(q)
        BY <3>1, <3>2, <1>4, <1>6
      <4>2. j - Len(q) \in 1 .. Len(n) /\ n[j - Len(q)] = n[x]
        BY <4>1, <3>1, <3>2, <1>4
      <4>3. j - Len(q) = x
        BY <4>2, <1>2
      <4> QED
        BY <4>3, <3>1, <1>4
    <3> QED
      BY <3>1, <3>2, <1>2
  <2> QED
    BY <2>1, <2>2, <1>4
<1>8. QueueOK(z, CoordOf[c], r, s, a, v)
  BY <1>7 DEF QueueOK
<1> QED
  BY <1>8, <1>1, <1>3

--------------------------------------------------------------------------------
(* Nothing has been sent at the start.                                      *)
LEMMA BaseInit == Init => Base
<1> SUFFICES ASSUME Init PROVE Base
  OBVIOUS
<1> USE PoolAssumption, RuleAssumption
<1>1. PoolOK(EmptyPool) /\ EmptyPool \in Pool
  BY EmptyPoolOK DEF PoolOK
<1>2. Types
  BY <1>1 DEF Init, Types, CmdOrNone
<1>3. PhasesTell
  BY DEF Init, PhasesTell
<1>4. QueuesOK
  BY DEF Init, QueuesOK, QueueOK
<1>5. VotesOK
  BY DEF Init, VotesOK, Voters
<1>6. PoolsKeep
  BY <1>1 DEF Init, PoolsKeep, Promised, PromisedNamed
<1> QED
  BY <1>2, <1>3, <1>4, <1>5, <1>6 DEF Base

(* A step of a coordinator that touches neither votes, pools nor log.       *)
LEMMA PoolsUntouched ==
  ASSUME PoolsKeep, UNCHANGED <<votes, pool, log, applied>>
  PROVE  PoolsKeep'
BY DEF PoolsKeep, Promised, PromisedNamed, AppliedAt

(* INIT_END: the transaction had not begun, and the phase is a new one.     *)
LEMMA InitEndKeeps ==
  ASSUME Base, NEW k \in Coord, NEW c \in Cmd, Begin(k, c),
         NEW f \in Attempts[c], InitEnd(k, c, f)
  PROVE  Base'
<1> USE PoolAssumption, RuleAssumption
<1>t. Types /\ PhasesTell /\ QueuesOK /\ VotesOK /\ PoolsKeep
  BY DEF Base
<1>f. f \in BOOLEAN
  OBVIOUS
<1>b. cur[k] = NoCmd /\ CoordOf[c] = k /\ c \notin Begun
  BY DEF Begin
<1>n. sentIn[c] = 0 /\ ended[c] = << >>
  <2>1. ended[c] = << >> /\ \A j \in Coord : cur[j] # c
    BY <1>b, <1>t DEF Begun, Ended, Range, Types
  <2> QED
    BY <2>1, <1>t DEF PhasesTell
<1>u. /\ phase' = [phase EXCEPT ![k] = phase[k] + 1]
      /\ cur' = [cur EXCEPT ![k] = c]
      /\ sentIn' = [sentIn EXCEPT ![c] = phase[k] + 1]
      /\ attempt' = IF f THEN attempt \cup {c} ELSE attempt
      /\ waiting' = IF f THEN waiting \cup {c} ELSE waiting
      /\ chan' = [chan EXCEPT ![k] = [r \in Replica |-> chan[k][r] \o Requests(c, r, f)]]
      /\ UNCHANGED <<ended, votes, answers, pool, log, applied>>
  BY DEF InitEnd, Begin, replVars
<1>1. Types'
  <2>1. phase' \in [Coord -> Nat] /\ sentIn' \in [Cmd -> Nat]
    <3>1. phase[k] + 1 \in Nat /\ phase \in [Coord -> Nat] /\ sentIn \in [Cmd -> Nat]
      BY <1>t DEF Types
    <3> QED
      BY <1>u, <3>1
  <2>2. cur' \in [Coord -> CmdOrNone] /\ fast' \in [Coord -> BOOLEAN]
    BY <1>t DEF Types, CmdOrNone, InitEnd
  <2>3. outstanding' \in [Coord -> Int]
    BY <1>t DEF Types, InitEnd
  <2>4. attempt' \subseteq Cmd /\ waiting' \subseteq attempt'
    BY <1>f, <1>u, <1>t DEF Types
  <2>5. chan' \in [Coord -> [Replica -> Seq(Message)]]
    <3>1. chan \in [Coord -> [Replica -> Seq(Message)]]
      BY <1>t DEF Types
    <3>2. ASSUME NEW r \in Replica PROVE chan[k][r] \o Requests(c, r, f) \in Seq(Message)
      <4>1. chan[k][r] \in Seq(Message)
        BY <3>1
      <4>2. Requests(c, r, f) \in Seq(Message)
        BY <1>f, RequestsSent
      <4> QED
        BY <4>1, <4>2, Concat
    <3>3. [r \in Replica |-> chan[k][r] \o Requests(c, r, f)] \in [Replica -> Seq(Message)]
      BY <3>2
    <3> QED
      BY <1>u, <3>1, <3>3
  <2>6. after' \in [Cmd -> SUBSET Cmd]
    <3>1. Committed \in SUBSET Cmd /\ after \in [Cmd -> SUBSET Cmd]
      BY <1>t DEF Committed, Types
    <3>2. after' = [after EXCEPT ![c] = Committed]
      BY DEF Begin
    <3> QED
      BY <3>1, <3>2
  <2> QED
    BY <2>1, <2>2, <2>3, <2>4, <2>5, <2>6, <1>u, <1>t DEF Types
<1>s. /\ sentIn'[c] = phase[k] + 1
      /\ \A d \in Cmd : d # c => sentIn'[d] = sentIn[d]
      /\ phase'[k] = phase[k] + 1
      /\ \A j \in Coord : j # k => phase'[j] = phase[j]
      /\ phase[k] \in Nat
      /\ cur'[k] = c
      /\ \A j \in Coord : j # k => cur'[j] = cur[j]
  BY <1>u, <1>t DEF Types
<1>2. PhasesTell'
  <2>1. ASSUME NEW j \in Coord, cur'[j] # NoCmd
        PROVE  CoordOf[cur'[j]] = j /\ sentIn'[cur'[j]] = phase'[j] /\ phase'[j] # 0
    <3>1. CASE j = k
      BY <3>1, <1>s, <1>b
    <3>2. CASE j # k
      <4>1. cur[j] \in Cmd /\ CoordOf[cur[j]] = j
        BY <2>1, <3>2, <1>s, <1>t DEF PhasesTell, Types, CmdOrNone
      <4> QED
        BY <2>1, <3>2, <4>1, <1>s, <1>b, <1>t DEF PhasesTell
    <3> QED
      BY <3>1, <3>2
  <2>2. ASSUME NEW d \in Cmd, sentIn'[d] # 0
        PROVE  /\ sentIn'[d] <= phase'[CoordOf[d]]
               /\ sentIn'[d] = phase'[CoordOf[d]] => cur'[CoordOf[d]] = d
               /\ cur'[CoordOf[d]] = d \/ ended'[d] # << >>
    <3>1. CASE d = c
      BY <3>1, <1>s, <1>b
    <3>2. CASE d # c
      <4>1. /\ sentIn[d] # 0 /\ sentIn[d] <= phase[CoordOf[d]] /\ CoordOf[d] \in Coord
            /\ sentIn[d] \in Nat /\ phase[CoordOf[d]] \in Nat
        BY <2>2, <3>2, <1>s, <1>t DEF PhasesTell, Types
      <4>2. CASE CoordOf[d] = k
        BY <3>2, <4>1, <4>2, <1>s, <1>b, <1>t, <1>u DEF PhasesTell
      <4>3. CASE CoordOf[d] # k
        BY <3>2, <4>1, <4>3, <1>s, <1>t, <1>u DEF PhasesTell
      <4> QED
        BY <4>2, <4>3
    <3> QED
      BY <3>1, <3>2
  <2> QED
    BY <2>1, <2>2 DEF PhasesTell
<1>3. QueuesOK'
  <2> SUFFICES ASSUME NEW j \in Coord, NEW r \in Replica
               PROVE  QueueOK(chan'[j][r], j, r, sentIn', attempt', votes')
    BY DEF QueuesOK
  <2>1. chan[j][r] \in Seq(Message)
    BY <1>t DEF Types
  <2>2. PICK q \in Seq(Message) : q = chan[j][r]
    BY <2>1
  <2>3. QueueOK(q, j, r, sentIn, attempt, votes)
    BY <2>2, <1>t DEF QueuesOK
  <2>4. attempt \subseteq attempt' /\ votes' = votes
    BY <1>f, <1>u
  <2>5. \A d \in Cmd : sentIn[d] # 0 => sentIn'[d] # 0
    BY <1>s
  <2>6. QueueOK(q, j, r, sentIn', attempt', votes')
    BY <2>3, <2>4, <2>5, QueueMono
  <2>7. CASE j # k
    <3>1. chan'[j][r] = q
      BY <2>2, <2>7, <1>u, <1>t DEF Types
    <3> QED
      BY <3>1, <2>6
  <2>8. CASE j = k
    <3>1. chan'[j][r] = q \o Requests(c, r, f)
      BY <2>2, <2>8, <1>u, <1>t DEF Types
    <3>2. \A i \in 1 .. Len(q) : q[i].cmd # c
      BY <2>3, <1>n DEF QueueOK
    <3>3. sentIn'[c] # 0 /\ (f => c \in attempt')
      BY <1>s, <1>f, <1>u
    <3>4. r \notin votes'[c].yes \cup votes'[c].no
      BY <1>n, <1>u, <1>t DEF VotesOK, Voters
    <3>5. QueueOK(q, CoordOf[c], r, sentIn', attempt', votes')
      BY <2>6, <2>8, <1>b
    <3> QED
      BY <3>1, <3>2, <3>3, <3>4, <3>5, <2>8, <1>b, <1>f, QueueSend
  <2> QED
    BY <2>7, <2>8
<1>4. VotesOK'
  <2>1. ASSUME NEW d \in attempt' PROVE sentIn'[d] # 0
    BY <1>f, <1>s, <1>u, <1>t DEF VotesOK, Types
  <2>2. \A d \in Cmd : (Voters(d)' # {} => d \in attempt') /\ votes'[d].yes \cap votes'[d].no = {}
    BY <1>f, <1>u, <1>t DEF VotesOK, Voters
  <2>4. \A a \in answers' : sentIn'[a.cmd] # 0
    BY <1>s, <1>u, <1>t DEF VotesOK, Types
  <2>3. \A i \in 1 .. Len(log') : sentIn'[log'[i]] # 0
    <3>1. \A i \in 1 .. Len(log) : log[i] \in Cmd
      BY <1>t DEF Types
    <3> QED
      BY <3>1, <1>s, <1>u, <1>t DEF VotesOK
  <2> QED
    BY <2>1, <2>2, <2>3, <2>4 DEF VotesOK
<1>5. PoolsKeep'
  BY <1>u, <1>t, PoolsUntouched
<1> QED
  BY <1>1, <1>2, <1>3, <1>4, <1>5 DEF Base

(* Queues, votes and log stay sound when only coordinators move.            *)
LEMMA QueuesUntouched ==
  ASSUME QueuesOK, VotesOK, UNCHANGED <<attempt, sentIn, votes, chan, log>>,
         answers' \subseteq answers
  PROVE  QueuesOK' /\ VotesOK'
BY DEF QueuesOK, VotesOK, Voters

(* End(): coordinator k reports c, its transaction or a new one, and is in  *)
(* a phase that no transaction was sent in.                                 *)
LEMMA EndKeeps ==
  ASSUME Base, NEW k \in Coord, NEW c \in Cmd, cur[k] \in {c, NoCmd},
         NEW results \in Seq(Result), results # << >>, NEW n \in Nat, n > 0,
         phase' = [phase EXCEPT ![k] = @ + n], Reports(k, c, results),
         fast' \in [Coord -> BOOLEAN], waiting' \subseteq waiting,
         answers' \subseteq answers, after' \in [Cmd -> SUBSET Cmd],
         UNCHANGED <<attempt, sentIn, votes, chan, replVars>>
  PROVE  Base'
<1> USE PoolAssumption, RuleAssumption
<1>t. Types /\ PhasesTell /\ QueuesOK /\ VotesOK /\ PoolsKeep
  BY DEF Base
<1>u. /\ ended' = [ended EXCEPT ![c] = @ \o results]
      /\ outstanding' = [outstanding EXCEPT ![k] = @ - Len(results)]
      /\ cur' = [cur EXCEPT ![k] = NoCmd]
      /\ UNCHANGED <<pool, log, applied>>
  BY DEF Reports, replVars
<1>e. ended[c] \o results \in Seq(Result) /\ ended[c] \o results # << >>
  <2>1. ended[c] \in Seq(Result)
    BY <1>t DEF Types
  <2> QED
    BY <2>1
<1>1. Types'
  <2>1. phase' \in [Coord -> Nat]
    <3>1. phase \in [Coord -> Nat] /\ phase[k] + n \in Nat
      BY <1>t DEF Types
    <3> QED
      BY <3>1
  <2>2. cur' \in [Coord -> CmdOrNone]
    BY <1>u, <1>t DEF Types, CmdOrNone
  <2>3. outstanding' \in [Coord -> Int]
    <3>1. outstanding \in [Coord -> Int] /\ outstanding[k] - Len(results) \in Int
      BY <1>t DEF Types
    <3> QED
      BY <3>1, <1>u
  <2>4. ended' \in [Cmd -> Seq(Result)]
    <3>1. ended \in [Cmd -> Seq(Result)]
      BY <1>t DEF Types
    <3> QED
      BY <3>1, <1>e, <1>u
  <2> QED
    BY <2>1, <2>2, <2>3, <2>4, <1>u, <1>t DEF Types
<1>s. /\ phase'[k] = phase[k] + n /\ phase[k] \in Nat
      /\ \A j \in Coord : j # k => phase'[j] = phase[j] /\ cur'[j] = cur[j]
      /\ cur'[k] = NoCmd
      /\ ended'[c] # << >>
      /\ \A d \in Cmd : d # c => ended'[d] = ended[d]
  BY <1>u, <1>e, <1>t DEF Types
<1>2. PhasesTell'
  <2>1. ASSUME NEW j \in Coord, cur'[j] # NoCmd
        PROVE  CoordOf[cur'[j]] = j /\ sentIn'[cur'[j]] = phase'[j] /\ phase'[j] # 0
    BY <2>1, <1>s, <1>t DEF PhasesTell
  <2>2. ASSUME NEW d \in Cmd, sentIn'[d] # 0
        PROVE  /\ sentIn'[d] <= phase'[CoordOf[d]]
               /\ sentIn'[d] = phase'[CoordOf[d]] => cur'[CoordOf[d]] = d
               /\ cur'[CoordOf[d]] = d \/ ended'[d] # << >>
    <3>1. /\ sentIn[d] # 0 /\ sentIn[d] <= phase[CoordOf[d]] /\ CoordOf[d] \in Coord
          /\ sentIn[d] \in Nat /\ phase[CoordOf[d]] \in Nat
          /\ sentIn[d] = phase[CoordOf[d]] => cur[CoordOf[d]] = d
          /\ cur[CoordOf[d]] = d \/ ended[d] # << >>
      BY <2>2, <1>t DEF PhasesTell, Types
    <3>2. CASE CoordOf[d] = k
      <4>1. ended'[d] # << >>
        BY <3>1, <3>2, <1>s
      <4> QED
        BY <4>1, <3>1, <3>2, <1>s
    <3>3. CASE CoordOf[d] # k
      <4>1. ended[d] # << >> => ended'[d] # << >>
        BY <1>s
      <4> QED
        BY <4>1, <3>1, <3>3, <1>s
    <3> QED
      BY <3>2, <3>3
  <2> QED
    BY <2>1, <2>2 DEF PhasesTell
<1>3. QueuesOK' /\ VotesOK' /\ PoolsKeep'
  BY <1>u, <1>t, QueuesUntouched, PoolsUntouched
<1> QED
  BY <1>1, <1>2, <1>3 DEF Base

(* The end of a transaction without an answer, or a late answer: flags and  *)
(* answers change only.                                                     *)
LEMMA LateKeeps ==
  ASSUME Base, fast' \in [Coord -> BOOLEAN], waiting' \subseteq waiting,
         answers' \subseteq answers,
         UNCHANGED <<phase, cur, outstanding, ended, attempt, sentIn, votes, chan,
                     replVars, after>>
  PROVE  Base'
<1>t. Types /\ PhasesTell /\ QueuesOK /\ VotesOK /\ PoolsKeep
  BY DEF Base
<1>u. UNCHANGED <<pool, log, applied>>
  BY DEF replVars
<1>1. Types'
  BY <1>t, <1>u DEF Types
<1>2. PhasesTell'
  BY <1>t DEF PhasesTell
<1>3. QueuesOK' /\ VotesOK' /\ PoolsKeep'
  BY <1>u, <1>t, QueuesUntouched, PoolsUntouched
<1> QED
  BY <1>1, <1>2, <1>3 DEF Base

(* Whoever an answer of the current phase is for is the coordinator's       *)
(* transaction.                                                             *)
LEMMA AnswersCurrent ==
  ASSUME Base, NEW k \in Coord, NEW c \in Cmd, CoordOf[c] = k, sentIn[c] = phase[k],
         sentIn[c] # 0
  PROVE  cur[k] = c
BY DEF Base, PhasesTell

(* DoTxAsync, in INIT_END or in WAITING_ORIGIN.                             *)
LEMMA BeginKeeps ==
  ASSUME Base, NEW k \in Coord, NEW c \in Cmd, Begin(k, c)
  PROVE  Base'
<1>1. CASE phase[k] % 3 = 0
  <2>1. PICK f \in Attempts[c] : InitEnd(k, c, f)
    BY <1>1 DEF Begin
  <2> QED
    BY <2>1, InitEndKeeps
<1>2. CASE phase[k] % 3 # 0
  <2>1. WaitingOrigin(k, c)
    BY <1>2 DEF Begin
  <2>2. after' = [after EXCEPT ![c] = Committed] /\ cur[k] = NoCmd
        /\ UNCHANGED <<votes, answers, replVars>>
    BY DEF Begin
  <2>3. after' \in [Cmd -> SUBSET Cmd]
    BY <2>2 DEF Base, Types, Committed
  <2>4. /\ phase' = [phase EXCEPT ![k] = @ + 1]
        /\ Reports(k, c, <<"SUCCESS">>)
        /\ UNCHANGED <<fast, attempt, sentIn, waiting, chan>>
    BY <2>1 DEF WaitingOrigin
  <2>5. <<"SUCCESS">> \in Seq(Result) /\ <<"SUCCESS">> # << >> /\ fast' \in [Coord -> BOOLEAN]
    BY <2>4 DEF Result, Base, Types
  <2>6. PICK res \in Seq(Result), n \in Nat : res = <<"SUCCESS">> /\ n = 1
    BY <2>5
  <2>7. /\ phase' = [phase EXCEPT ![k] = @ + n] /\ Reports(k, c, res)
        /\ res # << >> /\ n > 0
    BY <2>4, <2>5, <2>6
  <2>8. cur[k] \in {c, NoCmd} /\ waiting' \subseteq waiting /\ answers' \subseteq answers
    BY <2>2, <2>4
  <2> QED
    BY <2>2, <2>3, <2>4, <2>5, <2>7, <2>8, EndKeeps
<1> QED
  BY <1>1, <1>2

(* GotoNextPhase in DISPATCHED, from an answer or from the fast path.       *)
LEMMA DispatchedKeeps ==
  ASSUME Base, NEW k \in Coord, cur[k] # NoCmd, NEW aborted \in BOOLEAN,
         NEW commit \in BOOLEAN, aborted \/ commit, Dispatched(k, aborted, commit),
         fast' \in [Coord -> BOOLEAN], waiting' \subseteq waiting,
         answers' \subseteq answers,
         UNCHANGED <<attempt, sentIn, votes, chan, replVars, after>>
  PROVE  Base'
<1> DEFINE res == (IF aborted THEN <<"WRONG_LEADER">> ELSE << >>) \o
                  (IF commit THEN <<"SUCCESS">> ELSE << >>)
           n == IF commit THEN 2 ELSE 1
<1>1. cur[k] \in Cmd /\ after' \in [Cmd -> SUBSET Cmd] /\ phase \in [Coord -> Nat]
  BY DEF Base, Types, CmdOrNone
<1>2. phase' = [phase EXCEPT ![k] = @ + n] /\ Reports(k, cur[k], res)
  BY <1>1 DEF Dispatched
<1>3. res \in Seq(Result) /\ res # << >>
  <2>0. /\ "WRONG_LEADER" \in Result /\ "SUCCESS" \in Result
        /\ \A x \in Result : <<x>> \in Seq(Result)
        /\ << >> \in Seq(Result)
    <3>1. "WRONG_LEADER" \in Result /\ "SUCCESS" \in Result
      BY DEF Result
    <3>2. \A x \in Result : <<x>> \in Seq(Result)
      OBVIOUS
    <3>3. << >> \in Seq(Result)
      OBVIOUS
    <3> QED
      BY <3>1, <3>2, <3>3
  <2>1. PICK a \in Seq(Result) : a = IF aborted THEN <<"WRONG_LEADER">> ELSE << >>
    BY <2>0
  <2>2. PICK b \in Seq(Result) : b = IF commit THEN <<"SUCCESS">> ELSE << >>
    BY <2>0
  <2>3. Len(a) > 0 \/ Len(b) > 0
    BY <2>1, <2>2
  <2>4. res = a \o b
    BY <2>1, <2>2
  <2> HIDE DEF res
  <2> QED
    BY <2>3, <2>4
<1>4. n \in Nat /\ n > 0
  OBVIOUS
<1> HIDE DEF res, n
<1> QED
  BY <1>1, <1>2, <1>3, <1>4, EndKeeps

(* An answer to Dispatch, of this phase or a late one.                      *)
LEMMA DispatchAckKeeps ==
  ASSUME Base, NEW k \in Coord, NEW a \in answers, DispatchAck(k, a)
  PROVE  Base'
<1>1. /\ CoordOf[a.cmd] = k /\ answers' \subseteq answers
      /\ UNCHANGED <<fast, attempt, sentIn, votes, waiting, chan, replVars, after>>
  BY DEF DispatchAck
<1>2. /\ a.cmd \in Cmd /\ sentIn[a.cmd] # 0 /\ fast' \in [Coord -> BOOLEAN]
      /\ fast[k] \in BOOLEAN
  BY <1>1 DEF Base, Types, VotesOK
<1>3. CASE sentIn[a.cmd] # phase[k]
  <2>1. UNCHANGED <<phase, cur, outstanding, ended>>
    BY <1>3 DEF DispatchAck
  <2> QED
    BY <1>1, <1>2, <2>1, LateKeeps
<1>4. CASE sentIn[a.cmd] = phase[k]
  <2>1. cur[k] = a.cmd
    BY <1>1, <1>2, <1>4, AnswersCurrent
  <2>2. PICK aborted \in BOOLEAN : aborted <=> a.res = "WRONG_LEADER"
    OBVIOUS
  <2>3. PICK commit \in BOOLEAN : commit <=> (fast[k] \/ ~aborted)
    OBVIOUS
  <2>4. Dispatched(k, aborted, commit)
    <3>1. Dispatched(k, a.res = "WRONG_LEADER", fast[k] \/ ~(a.res = "WRONG_LEADER"))
      BY <1>4 DEF DispatchAck
    <3> QED
      BY <3>1, <2>2, <2>3 DEF Dispatched
  <2>5. cur[k] # NoCmd /\ (aborted \/ commit)
    BY <1>2, <2>1, <2>3, PoolAssumption
  <2> QED
    BY <1>1, <1>2, <2>4, <2>5, DispatchedKeeps
<1> QED
  BY <1>3, <1>4

(* The coroutine of BroadcastRuleSpeculativeExecute resumes.                *)
LEMMA ResumeKeeps ==
  ASSUME Base, NEW k \in Coord, NEW c \in Cmd, Resume(k, c)
  PROVE  Base'
<1>1. /\ CoordOf[c] = k /\ waiting' \subseteq waiting /\ c \in waiting
      /\ fast' = [fast EXCEPT ![k] = Yes(c)]
      /\ UNCHANGED <<attempt, sentIn, votes, chan, answers, replVars, after>>
  BY DEF Resume
<1>2. fast' \in [Coord -> BOOLEAN] /\ sentIn[c] # 0
  BY <1>1 DEF Base, Types, VotesOK, Yes
<1>3. CASE sentIn[c] # phase[k] \/ ~Yes(c)
  <2>1. UNCHANGED <<phase, cur, outstanding, ended>>
    BY <1>3 DEF Resume
  <2> QED
    BY <1>1, <1>2, <2>1, LateKeeps
<1>4. CASE ~(sentIn[c] # phase[k] \/ ~Yes(c))
  <2>1. Dispatched(k, FALSE, TRUE)
    BY <1>4 DEF Resume
  <2>2. cur[k] = c
    BY <1>1, <1>2, <1>4, AnswersCurrent
  <2>3. cur[k] # NoCmd
    BY <2>2, PoolAssumption
  <2> QED
    BY <1>1, <1>2, <2>1, <2>3, DispatchedKeeps
<1> QED
  BY <1>3, <1>4

--------------------------------------------------------------------------------
(* A queue loses its head, and at most its replica votes, on what the head  *)
(* asks.                                                                    *)
LEMMA DeliverQueues ==
  ASSUME Base, NEW k \in Coord, NEW r \in Replica, chan[k][r] # << >>,
         chan' = [chan EXCEPT ![k][r] = Tail(@)], UNCHANGED <<sentIn, attempt>>,
         \A d \in Cmd : \A x \in Replica : x \in Voters(d)' =>
           x \in Voters(d) \/ (x = r /\ Head(chan[k][r]) = [type |-> "Spec", cmd |-> d])
  PROVE  /\ QueuesOK'
         /\ chan' \in [Coord -> [Replica -> Seq(Message)]]
<1>t. Types /\ QueuesOK /\ chan \in [Coord -> [Replica -> Seq(Message)]]
  BY DEF Base, Types
<1>1. PICK q \in Seq(Message) : q = chan[k][r] /\ q # << >>
  <2>1. chan[k][r] \in Seq(Message)
    BY <1>t
  <2> QED
    BY <2>1
<1>2. QueueOK(q, k, r, sentIn, attempt, votes)
  BY <1>1, <1>t DEF QueuesOK
<1>3. /\ Tail(q) \in Seq(Message)
      /\ QueueOK(Tail(q), k, r, sentIn, attempt, votes)
      /\ Head(q) \in Message /\ Head(q) = q[1] /\ 1 \in 1 .. Len(q)
      /\ Head(q).type = "Spec" => \A i \in 1 .. Len(Tail(q)) : Tail(q)[i] # Head(q)
  BY <1>1, <1>2, QueueTail
<1>4. chan' \in [Coord -> [Replica -> Seq(Message)]]
  BY <1>t, <1>1, <1>3
<1>5. ASSUME NEW j \in Coord, NEW x \in Replica
      PROVE  QueueOK(chan'[j][x], j, x, sentIn', attempt', votes')
  <2>0. chan'[j][x] \in Seq(Message)
    BY <1>4
  <2>1. PICK z \in Seq(Message) : z = chan'[j][x]
    BY <2>0
  <2>2. (j = k /\ x = r /\ z = Tail(q)) \/ (~(j = k /\ x = r) /\ z = chan[j][x])
    BY <2>1, <1>t, <1>1
  <2>3. QueueOK(z, j, x, sentIn, attempt, votes)
    <3>1. QueueOK(chan[j][x], j, x, sentIn, attempt, votes)
      BY <1>t DEF QueuesOK
    <3>2. CASE j = k /\ x = r /\ z = Tail(q)
      BY <3>2, <1>3
    <3>3. CASE z = chan[j][x]
      BY <3>3, <3>1
    <3> QED
      BY <2>2, <3>2, <3>3
  <2>4. ASSUME NEW i \in 1 .. Len(z), z[i].type = "Spec",
               x \in votes'[z[i].cmd].yes \cup votes'[z[i].cmd].no
        PROVE  x \in votes[z[i].cmd].yes \cup votes[z[i].cmd].no
    <3>1. z[i] \in Message /\ z[i].cmd \in Cmd /\ z[i] = [type |-> "Spec", cmd |-> z[i].cmd]
      <4>1. z[i] \in Message
        OBVIOUS
      <4> QED
        BY <4>1, <2>4 DEF Message
    <3>2. CASE x \in Voters(z[i].cmd)
      BY <3>2 DEF Voters
    <3>3. CASE x = r /\ Head(q) = [type |-> "Spec", cmd |-> z[i].cmd]
      <4>1. Head(q) = z[i] /\ Head(q).type = "Spec"
        BY <3>1, <3>3
      <4>2. CoordOf[z[i].cmd] = k /\ CoordOf[z[i].cmd] = j
        BY <4>1, <1>2, <1>3, <2>3 DEF QueueOK
      <4>3. z = Tail(q)
        BY <4>2, <3>3, <2>2
      <4> QED
        BY <4>1, <4>3, <1>3
    <3> QED
      BY <3>1, <3>2, <3>3, <2>4, <1>1 DEF Voters
  <2>5. QueueOK(z, j, x, sentIn', attempt', votes')
    BY <2>3, <2>4, QueueMono
  <2> QED
    BY <2>1, <2>5
<1> QED
  BY <1>4, <1>5 DEF QueuesOK

(* push_back on r of a command it has not promised: promises are kept, and  *)
(* it may promise that one.                                                 *)
LEMMA PushKeepsPools ==
  ASSUME Types, PoolsKeep, NEW r \in Replica, NEW c \in Cmd, c \notin Promised(r),
         pool' = [pool EXCEPT ![r] = PoolPush(@, c)],
         \A x \in Replica : x # r => Promised(x)' = Promised(x),
         Promised(r)' = Promised(r)
           \/ (PushOk(pool[r], c) /\ Promised(r)' = Promised(r) \cup {c}),
         \A x \in Replica : AppliedAt(x) \subseteq AppliedAt(x)'
  PROVE  PoolsKeep' /\ pool' \in [Replica -> Pool]
<1>1. pool \in [Replica -> Pool]
  BY DEF Types
<1>2. pool'[r] = PoolPush(pool[r], c) /\ \A x \in Replica : x # r => pool'[x] = pool[x]
  BY <1>1
<1>3. /\ PoolOK(pool[r]) /\ PromisedNamed(pool[r], Promised(r)) /\ Promised(r) \in SUBSET Cmd
  BY DEF PoolsKeep, Promised
<1>4. PoolOK(pool'[r])
  BY <1>2, <1>3, PoolPushOK
<1>5. PromisedNamed(pool'[r], Promised(r)')
  <2>1. /\ PromisedNamed(PoolPush(pool[r], c), Promised(r))
        /\ PushOk(pool[r], c) => PromisedNamed(PoolPush(pool[r], c), Promised(r) \cup {c})
    BY <1>3, PoolPushPromises
  <2>2. CASE Promised(r)' = Promised(r)
    BY <2>1, <2>2, <1>2
  <2>3. CASE PushOk(pool[r], c) /\ Promised(r)' = Promised(r) \cup {c}
    BY <2>1, <2>3, <1>2
  <2> QED
    BY <2>2, <2>3
<1>6. \A d \in Promised(r)' : d \in Tracked(pool'[r]) \/ d \in AppliedAt(r)'
  <2>1. Tracked(pool'[r]) = Tracked(pool[r]) \cup {c}
    BY <1>2, <1>3, TrackedPush
  <2> QED
    BY <2>1 DEF PoolsKeep
<1>7. ASSUME NEW x \in Replica, x # r
      PROVE  /\ PoolOK(pool'[x]) /\ PromisedNamed(pool'[x], Promised(x)')
             /\ \A d \in Promised(x)' : d \in Tracked(pool'[x]) \/ d \in AppliedAt(x)'
  BY <1>2, <1>7 DEF PoolsKeep
<1>8. PoolsKeep'
  BY <1>4, <1>5, <1>6, <1>7 DEF PoolsKeep
<1>9. pool' \in [Replica -> Pool]
  BY <1>1, <1>4 DEF PoolOK
<1> QED
  BY <1>8, <1>9

(* The log is appended to only: what was applied stays so.                  *)
LEMMA AppliedStays ==
  ASSUME Types, applied' = applied, NEW c \in Cmd, log' = log \/ log' = Append(log, c)
  PROVE  /\ \A x \in Replica : AppliedAt(x)' = AppliedAt(x)
         /\ log' \in Seq(Cmd)
         /\ Len(log') >= Len(log) /\ Len(log) \in Nat
         /\ \A i \in 1 .. Len(log) : log'[i] = log[i]
         /\ \A i \in 1 .. Len(log') : i \in 1 .. Len(log) \/ log'[i] = c
<1>1. log \in Seq(Cmd) /\ applied \in [Replica -> Nat] /\ \A x \in Replica : applied[x] <= Len(log)
  BY DEF Types
<1>2. /\ log' \in Seq(Cmd)
      /\ Len(log') >= Len(log) /\ Len(log) \in Nat
      /\ \A i \in 1 .. Len(log) : log'[i] = log[i]
      /\ \A i \in 1 .. Len(log') : i \in 1 .. Len(log) \/ log'[i] = c
  <2>1. CASE log' = log
    BY <1>1, <2>1
  <2>2. CASE log' = Append(log, c)
    BY <1>1, <2>2
  <2> QED
    BY <2>1, <2>2
<1>3. \A x \in Replica : \A i \in 1 .. applied[x] : log'[i] = log[i]
  BY <1>1, <1>2
<1>4. \A x \in Replica : AppliedAt(x)' = AppliedAt(x)
  BY <1>3 DEF AppliedAt
<1> QED
  BY <1>2, <1>4

(* The request at the head of a queue.                                      *)
LEMMA HeadRequest ==
  ASSUME Base, NEW k \in Coord, NEW r \in Replica, chan[k][r] # << >>
  PROVE  LET m == Head(chan[k][r]) IN
         /\ m \in Message /\ m.cmd \in Cmd /\ sentIn[m.cmd] # 0 /\ CoordOf[m.cmd] = k
         /\ m.type = "Dispatch" => r = Home
         /\ m.type = "Spec" => m.cmd \in attempt /\ r \notin Voters(m.cmd)
<1>1. chan[k][r] \in Seq(Message)
  BY DEF Base, Types
<1>2. PICK q \in Seq(Message) : q = chan[k][r] /\ q # << >>
  BY <1>1
<1>3. QueueOK(q, k, r, sentIn, attempt, votes)
  BY <1>2 DEF Base, QueuesOK
<1>4. PICK m \in Message : m = Head(q) /\ m = q[1] /\ 1 \in 1 .. Len(q)
  BY <1>2, <1>3, QueueTail
<1>5. m.cmd \in Cmd
  BY DEF Message
<1> QED
  BY <1>2, <1>3, <1>4, <1>5 DEF QueueOK, Voters

(* Dispatch on a replica: the placeholder, and on the leader the log.       *)
LEMMA OnDispatchKeeps ==
  ASSUME Base, NEW k \in Coord, NEW r \in Replica, Deliver(k, r),
         Head(chan[k][r]).type = "Dispatch", OnDispatch(r, Head(chan[k][r]).cmd)
  PROVE  Base'
<1>t. Types /\ PhasesTell /\ QueuesOK /\ VotesOK /\ PoolsKeep
  BY DEF Base
<1>c. PICK c \in Cmd : c = Head(chan[k][r]).cmd /\ sentIn[c] # 0
  BY HeadRequest DEF Deliver
<1>u. /\ chan[k][r] # << >> /\ chan' = [chan EXCEPT ![k][r] = Tail(@)]
      /\ UNCHANGED <<phase, cur, fast, outstanding, attempt, sentIn, waiting, applied,
                     ended, after, votes>>
      /\ pool' = IF c \in attempt THEN pool ELSE [pool EXCEPT ![r] = PoolPush(@, c)]
      /\ log' = IF r = Leader THEN Append(log, c) ELSE log
      /\ answers' = IF r = Leader THEN answers
                    ELSE answers \cup {[cmd |-> c, res |-> "WRONG_LEADER"]}
  BY <1>c DEF Deliver, OnDispatch, coordVars, histVars
<1>l. /\ \A x \in Replica : AppliedAt(x)' = AppliedAt(x)
      /\ log' \in Seq(Cmd)
      /\ Len(log') >= Len(log) /\ Len(log) \in Nat
      /\ \A i \in 1 .. Len(log) : log'[i] = log[i]
      /\ \A i \in 1 .. Len(log') : i \in 1 .. Len(log) \/ log'[i] = c
  BY <1>u, <1>t, AppliedStays
<1>q. QueuesOK' /\ chan' \in [Coord -> [Replica -> Seq(Message)]]
  <2>1. \A d \in Cmd : Voters(d)' = Voters(d)
    BY <1>u DEF Voters
  <2> QED
    BY <2>1, <1>u, DeliverQueues
<1>p. PoolsKeep' /\ pool' \in [Replica -> Pool]
  <2>1. \A x \in Replica : Promised(x)' = Promised(x)
    BY <1>u DEF Promised
  <2>2. CASE c \in attempt
    <3>1. pool' = pool
      BY <2>2, <1>u
    <3> QED
      BY <3>1, <2>1, <1>l, <1>t DEF PoolsKeep, Types
  <2>3. CASE c \notin attempt
    <3>1. c \notin Promised(r)
      BY <2>3, <1>t DEF VotesOK, Voters, Promised
    <3>2. pool' = [pool EXCEPT ![r] = PoolPush(@, c)]
      BY <2>3, <1>u
    <3> QED
      BY <3>1, <3>2, <2>1, <1>l, <1>t, PushKeepsPools
  <2> QED
    BY <2>2, <2>3
<1>1. Types'
  <2>1. answers' \subseteq [cmd: Cmd, res: Result]
    BY <1>u, <1>t DEF Types, Result
  <2>2. \A x \in Replica : applied'[x] <= Len(log')
    <3>1. \A x \in Replica : applied[x] \in Nat /\ applied[x] <= Len(log)
      BY <1>t DEF Types
    <3>2. Len(log') \in Nat
      BY <1>l
    <3> QED
      BY <3>1, <3>2, <1>l, <1>u
  <2> QED
    BY <2>1, <2>2, <1>l, <1>u, <1>q, <1>p, <1>t DEF Types
<1>2. PhasesTell'
  BY <1>u, <1>t DEF PhasesTell
<1>3. VotesOK'
  <2>1. \A a \in answers' : sentIn'[a.cmd] # 0
    BY <1>u, <1>c, <1>t DEF VotesOK
  <2>2. \A i \in 1 .. Len(log') : sentIn'[log'[i]] # 0
    BY <1>u, <1>c, <1>l, <1>t DEF VotesOK
  <2> QED
    BY <2>1, <2>2, <1>u, <1>t DEF VotesOK, Voters
<1> QED
  BY <1>1, <1>2, <1>3, <1>q, <1>p DEF Base

(* What a vote changes.                                                     *)
LEMMA VoteCounted ==
  ASSUME Types, NEW r \in Replica, NEW c \in Cmd, NEW yes \in BOOLEAN,
         votes' = IF yes THEN [votes EXCEPT ![c].yes = @ \cup {r}]
                  ELSE [votes EXCEPT ![c].no = @ \cup {r}]
  PROVE  /\ votes' \in [Cmd -> [yes: SUBSET Replica, no: SUBSET Replica]]
         /\ \A d \in Cmd : d # c => votes'[d] = votes[d]
         /\ votes'[c].yes = IF yes THEN votes[c].yes \cup {r} ELSE votes[c].yes
         /\ votes'[c].no = IF yes THEN votes[c].no ELSE votes[c].no \cup {r}
<1>1. votes \in [Cmd -> [yes: SUBSET Replica, no: SUBSET Replica]]
  BY DEF Types
<1>2. CASE yes
  <2>1. votes' = [votes EXCEPT ![c] = [votes[c] EXCEPT !.yes = votes[c].yes \cup {r}]]
    BY <1>2
  <2> QED
    BY <1>1, <1>2, <2>1
<1>3. CASE ~yes
  <2>1. votes' = [votes EXCEPT ![c] = [votes[c] EXCEPT !.no = votes[c].no \cup {r}]]
    BY <1>3
  <2> QED
    BY <1>1, <1>3, <2>1
<1> QED
  BY <1>2, <1>3

(* The speculative request on a replica: it votes for the first time.       *)
LEMMA OnSpecKeeps ==
  ASSUME Base, NEW k \in Coord, NEW r \in Replica, Deliver(k, r),
         Head(chan[k][r]).type = "Spec",
         OnRuleSpeculativeExecute(r, Head(chan[k][r]).cmd)
  PROVE  Base'
<1>t. Types /\ PhasesTell /\ QueuesOK /\ VotesOK /\ PoolsKeep
  BY DEF Base
<1>c. PICK c \in Cmd : /\ c = Head(chan[k][r]).cmd /\ sentIn[c] # 0
                       /\ c \in attempt /\ r \notin Voters(c)
                       /\ Head(chan[k][r]) \in Message
  BY HeadRequest DEF Deliver
<1>h. Head(chan[k][r]) = [type |-> "Spec", cmd |-> c]
  BY <1>c DEF Message
<1>y. PICK yes \in BOOLEAN : yes <=> PushOk(pool[r], c)
  BY DEF PushOk
<1>u. /\ chan[k][r] # << >> /\ chan' = [chan EXCEPT ![k][r] = Tail(@)]
      /\ UNCHANGED <<phase, cur, fast, outstanding, attempt, sentIn, waiting, applied,
                     ended, after, log, answers>>
      /\ pool' = [pool EXCEPT ![r] = PoolPush(@, c)]
      /\ votes' = IF yes THEN [votes EXCEPT ![c].yes = @ \cup {r}]
                  ELSE [votes EXCEPT ![c].no = @ \cup {r}]
  BY <1>c, <1>y DEF Deliver, OnRuleSpeculativeExecute, coordVars, histVars
<1>v. /\ votes' \in [Cmd -> [yes: SUBSET Replica, no: SUBSET Replica]]
      /\ \A d \in Cmd : d # c => votes'[d] = votes[d]
      /\ votes'[c].yes = IF yes THEN votes[c].yes \cup {r} ELSE votes[c].yes
      /\ votes'[c].no = IF yes THEN votes[c].no ELSE votes[c].no \cup {r}
  BY <1>u, <1>t, VoteCounted
<1>q. QueuesOK' /\ chan' \in [Coord -> [Replica -> Seq(Message)]]
  <2>1. ASSUME NEW d \in Cmd, NEW x \in Replica, x \in Voters(d)'
        PROVE  x \in Voters(d) \/ (x = r /\ d = c)
    BY <2>1, <1>v DEF Voters
  <2> QED
    BY <2>1, <1>u, <1>h, DeliverQueues
<1>p. PoolsKeep' /\ pool' \in [Replica -> Pool]
  <2>1. \A x \in Replica : x # r => Promised(x)' = Promised(x)
    BY <1>v DEF Promised
  <2>2. CASE yes
    <3>1. Promised(r)' = Promised(r) \cup {c}
      BY <2>2, <1>v DEF Promised
    <3>2. c \notin Promised(r)
      BY <1>c DEF Promised, Voters
    <3>3. PushOk(pool[r], c) /\ \A x \in Replica : AppliedAt(x) \subseteq AppliedAt(x)'
      BY <2>2, <1>y, <1>u DEF AppliedAt
    <3> QED
      BY <3>1, <3>2, <3>3, <2>1, <1>u, <1>t, PushKeepsPools
  <2>3. CASE ~yes
    <3>1. Promised(r)' = Promised(r)
      BY <2>3, <1>v DEF Promised
    <3>2. c \notin Promised(r)
      BY <1>c DEF Promised, Voters
    <3>3. \A x \in Replica : AppliedAt(x) \subseteq AppliedAt(x)'
      BY <1>u DEF AppliedAt
    <3> QED
      BY <3>1, <3>2, <3>3, <2>1, <1>u, <1>t, PushKeepsPools
  <2> QED
    BY <2>2, <2>3
<1>1. Types'
  BY <1>v, <1>u, <1>q, <1>p, <1>t DEF Types
<1>2. PhasesTell'
  BY <1>u, <1>t DEF PhasesTell
<1>3. VotesOK'
  <2>1. ASSUME NEW d \in Cmd
        PROVE  (Voters(d)' # {} => d \in attempt') /\ votes'[d].yes \cap votes'[d].no = {}
    <3>1. CASE d = c
      <4>1. votes[c].yes \cap votes[c].no = {} /\ r \notin votes[c].yes /\ r \notin votes[c].no
        BY <1>c, <1>t DEF VotesOK, Voters
      <4>2. d \in attempt'
        BY <3>1, <1>c, <1>u
      <4>3. votes'[c].yes \cap votes'[c].no = {}
        <5>1. CASE yes
          <6>1. votes'[c].yes = votes[c].yes \cup {r} /\ votes'[c].no = votes[c].no
            BY <5>1, <1>v
          <6> QED
            BY <6>1, <4>1
        <5>2. CASE ~yes
          <6>1. votes'[c].yes = votes[c].yes /\ votes'[c].no = votes[c].no \cup {r}
            BY <5>2, <1>v
          <6> QED
            BY <6>1, <4>1
        <5> QED
          BY <5>1, <5>2
      <4> QED
        BY <3>1, <4>2, <4>3
    <3>2. CASE d # c
      BY <3>2, <1>u, <1>v, <1>t DEF VotesOK, Voters
    <3> QED
      BY <3>1, <3>2
  <2> QED
    BY <2>1, <1>u, <1>t DEF VotesOK
<1> QED
  BY <1>1, <1>2, <1>3, <1>q, <1>p DEF Base

(* RuleCommandPoolGC: a command leaves the pool when it is applied.         *)
LEMMA ApplyKeeps ==
  ASSUME Base, NEW r \in Replica, Apply(r)
  PROVE  Base'
<1>t. Types /\ PhasesTell /\ QueuesOK /\ VotesOK /\ PoolsKeep
  BY DEF Base
<1>i. /\ applied \in [Replica -> Nat] /\ log \in Seq(Cmd) /\ Len(log) \in Nat
      /\ applied[r] + 1 \in 1 .. Len(log)
  <2>1. /\ applied \in [Replica -> Nat] /\ log \in Seq(Cmd) /\ Len(log) \in Nat
        /\ Leader \in Replica /\ applied[Leader] <= Len(log)
    BY <1>t, RuleAssumption DEF Types
  <2>2. applied[r] < Len(log)
    <3>1. applied[r] < IF r = Leader THEN Len(log) ELSE applied[Leader]
      BY DEF Apply
    <3>2. CASE r = Leader
      BY <3>1, <3>2
    <3>3. CASE r # Leader
      BY <2>1, <3>1, <3>3
    <3> QED
      BY <3>2, <3>3
  <2> QED
    BY <2>1, <2>2
<1>c. PICK c \in Cmd : c = log[applied[r] + 1] /\ sentIn[c] # 0
  BY <1>i, <1>t DEF VotesOK
<1>u. /\ UNCHANGED <<phase, cur, fast, outstanding, attempt, sentIn, waiting, votes, chan,
                     log, ended, after>>
      /\ pool' = [pool EXCEPT ![r] = PoolRemove(@, c)]
      /\ applied' = [applied EXCEPT ![r] = applied[r] + 1]
      /\ answers' \subseteq answers \cup {[cmd |-> c, res |-> "SUCCESS"]}
  BY <1>c DEF Apply, coordVars, histVars
<1>a. /\ applied' \in [Replica -> Nat]
      /\ applied'[r] = applied[r] + 1
      /\ \A x \in Replica : x # r => applied'[x] = applied[x]
  BY <1>i, <1>u
<1>b. /\ AppliedAt(r)' = AppliedAt(r) \cup {c}
      /\ \A x \in Replica : x # r => AppliedAt(x)' = AppliedAt(x)
  <2>1. \A x \in Replica : x # r => AppliedAt(x)' = AppliedAt(x)
    BY <1>a, <1>u DEF AppliedAt
  <2>2. \A j \in 1 .. applied[r] + 1 : j \in 1 .. applied[r] \/ j = applied[r] + 1
    BY <1>i
  <2>3. AppliedAt(r)' = {log[j] : j \in 1 .. applied[r] + 1}
    BY <1>a, <1>u DEF AppliedAt
  <2>4. applied[r] + 1 \in 1 .. applied[r] + 1 /\ 1 .. applied[r] \subseteq 1 .. applied[r] + 1
    BY <1>i
  <2>5. AppliedAt(r)' = AppliedAt(r) \cup {c}
    BY <2>2, <2>3, <2>4, <1>c DEF AppliedAt
  <2> QED
    BY <2>1, <2>5
<1>p. PoolsKeep' /\ pool' \in [Replica -> Pool]
  <2>0. pool \in [Replica -> Pool]
    BY <1>t DEF Types
  <2>1. pool'[r] = PoolRemove(pool[r], c) /\ \A x \in Replica : x # r => pool'[x] = pool[x]
    BY <1>u, <2>0
  <2>2. \A x \in Replica : Promised(x)' = Promised(x)
    BY <1>u DEF Promised
  <2>3. PoolOK(pool[r]) /\ PromisedNamed(pool[r], Promised(r)) /\ Promised(r) \in SUBSET Cmd
    BY <1>t DEF PoolsKeep, Promised
  <2>4. PoolOK(pool'[r]) /\ PromisedNamed(pool'[r], Promised(r)')
    BY <2>1, <2>2, <2>3, PoolRemoveOK
  <2>5. \A d \in Promised(r)' : d \in Tracked(pool'[r]) \/ d \in AppliedAt(r)'
    <3>1. Tracked(pool'[r]) = Tracked(pool[r]) \ {c}
      BY <2>1, <2>3, TrackedRemove
    <3> QED
      BY <3>1, <2>2, <1>b, <1>t DEF PoolsKeep
  <2>6. PoolsKeep'
    BY <2>1, <2>2, <2>4, <2>5, <1>b, <1>t DEF PoolsKeep
  <2>7. pool' \in [Replica -> Pool]
    BY <1>u, <2>0, <2>1, <2>4 DEF PoolOK
  <2> QED
    BY <2>6, <2>7
<1>1. Types'
  <2>1. answers' \subseteq [cmd: Cmd, res: Result]
    BY <1>u, <1>t DEF Types, Result
  <2>2. \A x \in Replica : applied'[x] <= Len(log')
    BY <1>a, <1>u, <1>i, <1>t DEF Types
  <2> QED
    BY <2>1, <2>2, <1>a, <1>u, <1>p, <1>t DEF Types
<1>2. PhasesTell'
  BY <1>u, <1>t DEF PhasesTell
<1>3. QueuesOK'
  BY <1>u, <1>t DEF QueuesOK
<1>4. VotesOK'
  BY <1>u, <1>c, <1>t DEF VotesOK, Voters
<1> QED
  BY <1>1, <1>2, <1>3, <1>4, <1>p DEF Base

(* Every step keeps Base.                                                   *)
LEMMA BaseStep == Base /\ [Next]_vars => Base'
<1> SUFFICES ASSUME Base, [Next]_vars PROVE Base'
  OBVIOUS
<1>1. ASSUME NEW k \in Coord, NEW c \in Cmd, Begin(k, c) PROVE Base'
  BY <1>1, BeginKeeps
<1>2. ASSUME NEW k \in Coord, NEW c \in Cmd, Resume(k, c) PROVE Base'
  BY <1>2, ResumeKeeps
<1>3. ASSUME NEW k \in Coord, NEW a \in answers, DispatchAck(k, a) PROVE Base'
  BY <1>3, DispatchAckKeeps
<1>4. ASSUME NEW k \in Coord, NEW r \in Replica, Deliver(k, r) PROVE Base'
  <2>1. CASE Head(chan[k][r]).type = "Dispatch" /\ OnDispatch(r, Head(chan[k][r]).cmd)
    BY <1>4, <2>1, OnDispatchKeeps
  <2>2. CASE Head(chan[k][r]).type = "Spec" /\ OnRuleSpeculativeExecute(r, Head(chan[k][r]).cmd)
    BY <1>4, <2>2, OnSpecKeeps
  <2> QED
    BY <1>4, <2>1, <2>2 DEF Deliver
<1>5. ASSUME NEW r \in Replica, Apply(r) PROVE Base'
  BY <1>5, ApplyKeeps
<1>6. CASE UNCHANGED vars
  <2>1. /\ UNCHANGED <<phase, cur, outstanding, ended, attempt, sentIn, votes, chan,
                       replVars, after>>
        /\ fast' = fast /\ waiting' = waiting /\ answers' = answers
    BY <1>6 DEF vars, coordVars, histVars
  <2>2. fast \in [Coord -> BOOLEAN]
    BY DEF Base, Types
  <2> QED
    BY <2>1, <2>2, LateKeeps
<1> QED
  BY <1>1, <1>2, <1>3, <1>4, <1>5, <1>6 DEF Next

--------------------------------------------------------------------------------
(* From here on clients send Dispatch to the leader.                        *)

(* A request was sent after the Dispatch of its command, so it stays behind *)
(* it while the queue is worked off.                                        *)
LEMMA FirstTail ==
  ASSUME NEW q \in Seq(Message), q # << >>, NEW done, NEW done2, FirstOK(q, done),
         done \subseteq done2,
         Head(q).type = "Dispatch" => Head(q).cmd \in done2
  PROVE  FirstOK(Tail(q), done2)
<1>1. /\ Tail(q) \in Seq(Message) /\ Len(Tail(q)) = Len(q) - 1 /\ Len(q) \in Nat
      /\ Head(q) = q[1] /\ 1 \in 1 .. Len(q)
  OBVIOUS
<1>2. \A i \in 1 .. Len(Tail(q)) : Tail(q)[i] = q[i + 1] /\ i + 1 \in 1 .. Len(q)
  BY <1>1
<1> SUFFICES ASSUME NEW i \in 1 .. Len(Tail(q)), q[i + 1].type = "Spec",
                    q[i + 1].cmd \notin done2
             PROVE  \E j \in 1 .. i - 1 : Tail(q)[j] = DispatchOf(q[i + 1].cmd)
  BY <1>2 DEF FirstOK
<1>3. PICK j \in 1 .. (i + 1) - 1 : q[j] = DispatchOf(q[i + 1].cmd)
  BY <1>2 DEF FirstOK
<1>4. j # 1
  BY <1>1, <1>3 DEF DispatchOf
<1>5. j - 1 \in 1 .. i - 1 /\ j - 1 \in 1 .. Len(Tail(q)) /\ (j - 1) + 1 = j
  BY <1>1, <1>3, <1>4
<1> QED
  BY <1>2, <1>3, <1>5

(* INIT_END sends Dispatch to the leader first.                             *)
LEMMA FirstSend ==
  ASSUME NEW q \in Seq(Message), NEW c \in Cmd, Leader = Home, NEW f \in BOOLEAN,
         NEW done, FirstOK(q, done)
  PROVE  LET z == q \o Requests(c, Leader, f) IN
         FirstOK(z, done) /\ Queued(z, c)
<1> USE RuleAssumption
<1>1. PICK n \in Seq(Message) : n = Requests(c, Leader, f)
  BY RequestsSent
<1>2. /\ \A i \in 1 .. Len(n) : n[i].cmd = c
      /\ Len(n) >= 1 /\ n[1] = DispatchOf(c)
  BY <1>1, RequestsSent DEF DispatchOf
<1>3. PICK z \in Seq(Message) : z = q \o n
  BY Concat
<1>4. /\ Len(z) = Len(q) + Len(n) /\ Len(q) \in Nat /\ Len(n) \in Nat
      /\ \A i \in 1 .. Len(q) : z[i] = q[i]
      /\ \A i \in 1 .. Len(z) : i > Len(q) =>
           i - Len(q) \in 1 .. Len(n) /\ z[i] = n[i - Len(q)]
  BY <1>3, Concat
<1>5. PICK l \in 1 .. Len(z) : l = Len(q) + 1 /\ z[l] = DispatchOf(c)
  <2>1. Len(q) + 1 \in 1 .. Len(z) /\ (Len(q) + 1) - Len(q) = 1
    BY <1>2, <1>4
  <2> QED
    BY <2>1, <1>2, <1>4
<1>6. ASSUME NEW i \in 1 .. Len(z), z[i].type = "Spec"
      PROVE  z[i].cmd \in done \/ \E j \in 1 .. i - 1 : z[j] = DispatchOf(z[i].cmd)
  <2>1. CASE i <= Len(q)
    <3>1. i \in 1 .. Len(q) /\ z[i] = q[i] /\ \A j \in 1 .. i - 1 : z[j] = q[j]
      BY <2>1, <1>4
    <3> QED
      BY <3>1, <1>6 DEF FirstOK
  <2>2. CASE i > Len(q)
    <3>1. z[i].cmd = c
      BY <2>2, <1>2, <1>4
    <3>2. i # l
      BY <1>5, <1>6 DEF DispatchOf
    <3>3. l \in 1 .. i - 1
      BY <3>2, <2>2, <1>4, <1>5
    <3> QED
      BY <3>1, <3>3, <1>5
  <2> QED
    BY <2>1, <2>2, <1>4
<1>7. FirstOK(z, done) /\ Queued(z, c)
  BY <1>5, <1>6 DEF FirstOK, Queued
<1> QED
  BY <1>7, <1>1, <1>3

(* What waits in a queue waits there until it is delivered.                 *)
LEMMA QueuedTail ==
  ASSUME NEW q \in Seq(Message), q # << >>, NEW c \in Cmd, Queued(q, c)
  PROVE  Queued(Tail(q), c) \/ Head(q) = DispatchOf(c)
<1>1. /\ Len(Tail(q)) = Len(q) - 1 /\ Len(q) \in Nat /\ Head(q) = q[1]
      /\ \A i \in 1 .. Len(Tail(q)) : Tail(q)[i] = q[i + 1]
  OBVIOUS
<1>2. PICK i \in 1 .. Len(q) : q[i] = DispatchOf(c)
  BY DEF Queued
<1>3. CASE i = 1
  BY <1>1, <1>2, <1>3
<1>4. CASE i # 1
  <2>1. i - 1 \in 1 .. Len(Tail(q)) /\ (i - 1) + 1 = i
    BY <1>1, <1>4
  <2> QED
    BY <2>1, <1>1, <1>2 DEF Queued
<1> QED
  BY <1>3, <1>4

(* A transaction reported as committed is in the log: on the fast path the  *)
(* leader's vote is needed, and the leader votes after it has appended.     *)
LEMMA CommittedLogged ==
  ASSUME Base, Led
  PROVE  Committed \subseteq Logged /\ AppliedAt(Leader) \subseteq Logged
<1>1. AppliedAt(Leader) \subseteq Logged
  <2>1. applied[Leader] \in Nat /\ Len(log) \in Nat /\ applied[Leader] <= Len(log)
    BY RuleAssumption DEF Base, Types
  <2>2. 1 .. applied[Leader] \subseteq 1 .. Len(log)
    BY <2>1
  <2> QED
    BY <2>2 DEF AppliedAt, Logged
<1>2. ASSUME NEW c \in Committed PROVE c \in Logged
  <2>1. c \in Cmd /\ (Yes(c) \/ c \in AppliedAt(Leader))
    BY DEF Led, CommitAnswered, Committed
  <2>2. Yes(c) => Leader \in Voters(c)
    BY DEF Yes, Voters
  <2> QED
    BY <1>1, <2>1, <2>2 DEF Led, DispatchFirst
<1> QED
  BY <1>1, <1>2

(* Nothing has been sent at the start.                                      *)
LEMMA LedInit == Init /\ Home = Leader => Led
<1> SUFFICES ASSUME Init, Home = Leader PROVE Led
  OBVIOUS
<1> USE PoolAssumption, RuleAssumption
<1>1. PhasesLed
  BY DEF Init, PhasesLed
<1>2. DispatchFirst
  BY DEF Init, DispatchFirst, FirstOK, Voters
<1>3. OnItsWay /\ AnswersApplied /\ AfterLogged /\ RealTimeOrder
  BY DEF Init, OnItsWay, AnswersApplied, AfterLogged, RealTimeOrder
<1>4. CommitAnswered
  <2>1. \A c \in Cmd : Range(ended[c]) = {}
    BY DEF Init, Range
  <2> QED
    BY <2>1 DEF CommitAnswered, Committed
<1> QED
  BY <1>1, <1>2, <1>3, <1>4 DEF Led

(* DoTxAsync: between transactions phase_ is a multiple of three, so c is   *)
(* sent; what had been committed by then is in the log, and c is not.       *)
LEMMA BeginLed ==
  ASSUME Base, Led, NEW k \in Coord, NEW c \in Cmd, Begin(k, c)
  PROVE  Led'
<1> USE PoolAssumption, RuleAssumption
<1>t. Types /\ PhasesTell /\ QueuesOK /\ VotesOK /\ PoolsKeep
  BY DEF Base
<1>d. /\ Home = Leader /\ PhasesLed /\ DispatchFirst /\ OnItsWay /\ AnswersApplied
      /\ CommitAnswered /\ AfterLogged /\ RealTimeOrder
  BY DEF Led
<1>b. cur[k] = NoCmd /\ CoordOf[c] = k /\ c \notin Begun /\ phase[k] % 3 = 0
  BY <1>d DEF Begin, PhasesLed
<1>n. sentIn[c] = 0 /\ ended[c] = << >>
  <2>1. ended[c] = << >> /\ \A j \in Coord : cur[j] # c
    BY <1>b, <1>t DEF Begun, Ended, Range, Types
  <2> QED
    BY <2>1, <1>t DEF PhasesTell
<1>f. PICK f \in Attempts[c] : InitEnd(k, c, f)
  BY <1>b DEF Begin
<1>g. f \in BOOLEAN
  OBVIOUS
<1>u. /\ phase' = [phase EXCEPT ![k] = phase[k] + 1]
      /\ cur' = [cur EXCEPT ![k] = c]
      /\ outstanding' = [outstanding EXCEPT ![k] = outstanding[k] + 1]
      /\ chan' = [chan EXCEPT ![k] = [r \in Replica |-> chan[k][r] \o Requests(c, r, f)]]
      /\ after' = [after EXCEPT ![c] = Committed]
      /\ UNCHANGED <<ended, votes, answers, pool, log, applied>>
  BY <1>f DEF InitEnd, Begin, replVars
<1>s. /\ phase'[k] = phase[k] + 1 /\ phase[k] \in Nat
      /\ cur'[k] = c
      /\ outstanding'[k] = outstanding[k] + 1
      /\ \A j \in Coord : j # k => /\ phase'[j] = phase[j]
                                   /\ cur'[j] = cur[j]
                                   /\ outstanding'[j] = outstanding[j]
                                   /\ chan'[j][Leader] = chan[j][Leader]
      /\ chan'[k][Leader] = chan[k][Leader] \o Requests(c, Leader, f)
      /\ after'[c] = Committed
      /\ \A d \in Cmd : d # c => after'[d] = after[d]
  BY <1>u, <1>t DEF Types
<1>l. Logged' = Logged /\ AppliedAt(Leader)' = AppliedAt(Leader) /\ Committed' = Committed
  BY <1>u DEF Logged, AppliedAt, Committed
<1>q. FirstOK(chan'[k][Leader], Logged) /\ Queued(chan'[k][Leader], c)
  <2>1. chan[k][Leader] \in Seq(Message) /\ FirstOK(chan[k][Leader], Logged)
    BY <1>t, <1>d DEF Types, DispatchFirst
  <2> QED
    BY <2>1, <1>s, <1>d, <1>g, FirstSend
<1>1. PhasesLed'
  <2>1. ASSUME NEW j \in Coord
        PROVE  /\ IF cur'[j] = NoCmd THEN phase'[j] % 3 = 0
                  ELSE phase'[j] % 3 = 1 /\ ended'[cur'[j]] = << >>
               /\ outstanding'[j] = IF cur'[j] = NoCmd THEN 0 ELSE 1
    <3>1. CASE j = k
      <4>1. (phase[k] + 1) % 3 = 1
        <5>1. \A n \in Nat : n % 3 = 0 => (n + 1) % 3 = 1
          OBVIOUS
        <5> QED
          BY <5>1, <1>b, <1>s
      <4>2. outstanding[k] = 0
        BY <1>b, <1>d DEF PhasesLed
      <4>3. outstanding'[j] = 1
        BY <3>1, <4>2, <1>s
      <4> QED
        BY <3>1, <4>1, <4>3, <1>n, <1>s, <1>u
    <3>2. CASE j # k
      BY <3>2, <1>s, <1>d, <1>u DEF PhasesLed
    <3> QED
      BY <3>1, <3>2
  <2> QED
    BY <2>1, <1>u, <1>d DEF PhasesLed
<1>2. DispatchFirst'
  <2>1. ASSUME NEW j \in Coord PROVE FirstOK(chan'[j][Leader], Logged')
    <3>1. CASE j = k
      BY <3>1, <1>l, <1>q
    <3>2. CASE j # k
      BY <3>2, <1>l, <1>s, <1>d DEF DispatchFirst
    <3> QED
      BY <3>1, <3>2
  <2>2. \A d \in Cmd : Leader \in Voters(d)' => d \in Logged'
    BY <1>l, <1>u, <1>d DEF DispatchFirst, Voters
  <2> QED
    BY <2>1, <2>2 DEF DispatchFirst
<1>3. OnItsWay'
  <2>1. \A d : ToApply(d) => ToApply(d)'
    BY <1>u DEF ToApply
  <2> SUFFICES ASSUME NEW j \in Coord, cur'[j] # NoCmd
               PROVE  \/ Queued(chan'[j][Leader], cur'[j])
                      \/ ToApply(cur[j])'
                      \/ [cmd |-> cur'[j], res |-> "SUCCESS"] \in answers'
    BY DEF OnItsWay, ToApply
  <2>2. CASE j = k
    BY <2>2, <1>q, <1>s
  <2>3. CASE j # k
    <3>1. /\ cur[j] = cur'[j] /\ chan'[j][Leader] = chan[j][Leader] /\ answers' = answers
          /\ ToApply(cur[j]) => ToApply(cur[j])'
      BY <2>1, <2>3, <1>s, <1>u DEF ToApply
    <3> QED
      BY <3>1, <1>d DEF OnItsWay
  <2> QED
    BY <2>2, <2>3
<1>4. AnswersApplied'
  BY <1>l, <1>u, <1>d DEF AnswersApplied
<1>5. CommitAnswered'
  BY <1>l, <1>u, <1>d DEF CommitAnswered, Yes
<1>6. AfterLogged'
  BY <1>l, <1>s, <1>d, CommittedLogged DEF AfterLogged
<1>7. RealTimeOrder'
  <2>1. \A i \in DOMAIN log : log[i] \in Cmd /\ log[i] # c
    BY <1>n, <1>t DEF Types, VotesOK
  <2>2. \A i \in DOMAIN log : after'[log[i]] = after[log[i]]
    BY <2>1, <1>s
  <2> QED
    BY <2>2, <1>u, <1>d DEF RealTimeOrder
<1> QED
  BY <1>1, <1>2, <1>3, <1>4, <1>5, <1>6, <1>7, <1>d DEF Led

(* A committed transaction ends: it has a fast quorum or was applied.       *)
LEMMA EndLed ==
  ASSUME Base, Led, NEW k \in Coord, NEW c \in Cmd, cur[k] = c,
         Yes(c) \/ c \in AppliedAt(Leader), Dispatched(k, FALSE, TRUE),
         answers' \subseteq answers,
         \A a \in answers : a.cmd # c => a \in answers',
         UNCHANGED <<votes, chan, replVars, after>>
  PROVE  Led'
<1> USE PoolAssumption, RuleAssumption
<1>t. Types /\ PhasesTell
  BY DEF Base
<1>d. /\ Home = Leader /\ PhasesLed /\ DispatchFirst /\ OnItsWay /\ AnswersApplied
      /\ CommitAnswered /\ AfterLogged /\ RealTimeOrder
  BY DEF Led
<1>o. c # NoCmd /\ ended[c] = << >> /\ phase[k] % 3 = 1 /\ outstanding[k] = 1
  BY <1>d DEF PhasesLed
<1>u. /\ phase' = [phase EXCEPT ![k] = phase[k] + 2]
      /\ ended' = [ended EXCEPT ![c] = ended[c] \o (<< >> \o <<"SUCCESS">>)]
      /\ outstanding' = [outstanding EXCEPT ![k] = outstanding[k] - Len(<< >> \o <<"SUCCESS">>)]
      /\ cur' = [cur EXCEPT ![k] = NoCmd]
      /\ UNCHANGED <<pool, log, applied>>
  BY DEF Dispatched, Reports, replVars
<1>e. << >> \o <<"SUCCESS">> = <<"SUCCESS">> /\ ended[c] \o <<"SUCCESS">> = <<"SUCCESS">>
  BY <1>o
<1>s. /\ phase'[k] = phase[k] + 2 /\ phase[k] \in Nat
      /\ cur'[k] = NoCmd
      /\ outstanding'[k] = 0
      /\ ended'[c] = <<"SUCCESS">>
      /\ \A d \in Cmd : d # c => ended'[d] = ended[d]
      /\ \A j \in Coord : j # k => /\ phase'[j] = phase[j]
                                   /\ cur'[j] = cur[j]
                                   /\ outstanding'[j] = outstanding[j]
  <2>1. Len(<<"SUCCESS">>) = 1
    OBVIOUS
  <2>2. outstanding[k] - Len(<< >> \o <<"SUCCESS">>) = 0
    BY <2>1, <1>e, <1>o
  <2>3. ended[c] \o (<< >> \o <<"SUCCESS">>) = <<"SUCCESS">>
    BY <1>e
  <2> QED
    BY <2>2, <2>3, <1>u, <1>t DEF Types
<1>l. Logged' = Logged /\ AppliedAt(Leader)' = AppliedAt(Leader)
  BY <1>u DEF Logged, AppliedAt
<1>j. \A j \in Coord : j # k => cur[j] # c
  BY <1>o, <1>t DEF PhasesTell
<1>1. PhasesLed'
  <2>1. ASSUME NEW j \in Coord
        PROVE  /\ IF cur'[j] = NoCmd THEN phase'[j] % 3 = 0
                  ELSE phase'[j] % 3 = 1 /\ ended'[cur'[j]] = << >>
               /\ outstanding'[j] = IF cur'[j] = NoCmd THEN 0 ELSE 1
    <3>1. CASE j = k
      <4>1. (phase[k] + 2) % 3 = 0
        BY <1>o, <1>s
      <4> QED
        BY <3>1, <4>1, <1>s
    <3>2. CASE j # k
      <4>1. cur[j] = NoCmd \/ (cur[j] \in Cmd /\ cur[j] # c)
        BY <3>2, <1>j, <1>t DEF Types, CmdOrNone
      <4> QED
        BY <3>2, <4>1, <1>s, <1>d DEF PhasesLed
    <3> QED
      BY <3>1, <3>2
  <2>2. \A d \in Cmd : ended'[d] = << >> \/ ended'[d] = <<"SUCCESS">>
    BY <1>s, <1>d DEF PhasesLed
  <2> QED
    BY <2>1, <2>2 DEF PhasesLed
<1>2. DispatchFirst'
  BY <1>l, <1>d DEF DispatchFirst, Voters
<1>3. OnItsWay'
  <2>1. \A d : ToApply(d) => ToApply(d)'
    BY <1>u DEF ToApply
  <2> SUFFICES ASSUME NEW j \in Coord, cur'[j] # NoCmd
               PROVE  \/ Queued(chan'[j][Leader], cur'[j])
                      \/ ToApply(cur[j])'
                      \/ [cmd |-> cur'[j], res |-> "SUCCESS"] \in answers'
    BY DEF OnItsWay, ToApply
  <2>2. j # k /\ cur'[j] = cur[j] /\ cur[j] # c
    BY <1>s, <1>j
  <2>3. [cmd |-> cur[j], res |-> "SUCCESS"] \in answers
        => [cmd |-> cur[j], res |-> "SUCCESS"] \in answers'
    <3>1. [cmd |-> cur[j], res |-> "SUCCESS"].cmd = cur[j]
      OBVIOUS
    <3> QED
      BY <2>2, <3>1
  <2>4. ToApply(cur[j]) => ToApply(cur[j])'
    BY <2>2, <1>u DEF ToApply
  <2> QED
    BY <2>2, <2>3, <2>4, <1>d DEF OnItsWay
<1>4. AnswersApplied'
  BY <1>l, <1>d DEF AnswersApplied
<1>5. CommitAnswered'
  <2>1. Committed' \subseteq Committed \cup {c}
    BY <1>s DEF Committed
  <2>2. \A d : Yes(d)' = Yes(d)
    BY DEF Yes
  <2> QED
    BY <2>1, <2>2, <1>l, <1>d DEF CommitAnswered
<1>6. AfterLogged' /\ RealTimeOrder'
  BY <1>l, <1>u, <1>d DEF AfterLogged, RealTimeOrder
<1> QED
  BY <1>1, <1>2, <1>3, <1>4, <1>5, <1>6, <1>d DEF Led

(* A late answer or a coroutine that finds another transaction: flags and   *)
(* answers change only, and no answer that a coordinator waits for is lost. *)
LEMMA LateLed ==
  ASSUME Led, answers' \subseteq answers,
         \A k \in Coord : LET a == [cmd |-> cur[k], res |-> "SUCCESS"] IN
           cur[k] # NoCmd /\ a \in answers => a \in answers',
         UNCHANGED <<phase, cur, outstanding, ended, votes, chan, replVars, after>>
  PROVE  Led'
<1>d. /\ Home = Leader /\ PhasesLed /\ DispatchFirst /\ OnItsWay /\ AnswersApplied
      /\ CommitAnswered /\ AfterLogged /\ RealTimeOrder
  BY DEF Led
<1>u. UNCHANGED <<pool, log, applied>>
  BY DEF replVars
<1>l. /\ Logged' = Logged /\ AppliedAt(Leader)' = AppliedAt(Leader) /\ Committed' = Committed
      /\ \A d : Yes(d)' = Yes(d) /\ Voters(d)' = Voters(d) /\ ToApply(d)' = ToApply(d)
  BY <1>u DEF Logged, AppliedAt, Committed, Yes, Voters, ToApply
<1>1. PhasesLed'
  BY <1>d DEF PhasesLed
<1>2. DispatchFirst'
  BY <1>l, <1>d DEF DispatchFirst
<1>3. OnItsWay'
  <2> SUFFICES ASSUME NEW j \in Coord, cur[j] # NoCmd
               PROVE  \/ Queued(chan[j][Leader], cur[j])
                      \/ ToApply(cur[j])
                      \/ [cmd |-> cur[j], res |-> "SUCCESS"] \in answers'
    BY <1>u DEF OnItsWay, ToApply
  <2> QED
    BY <1>d DEF OnItsWay
<1>4. AnswersApplied' /\ CommitAnswered'
  BY <1>l, <1>d DEF AnswersApplied, CommitAnswered
<1>5. AfterLogged' /\ RealTimeOrder'
  BY <1>l, <1>u, <1>d DEF AfterLogged, RealTimeOrder
<1> QED
  BY <1>1, <1>2, <1>3, <1>4, <1>5, <1>d DEF Led

(* An answer to Dispatch: the leader answers what it has applied.           *)
LEMMA DispatchAckLed ==
  ASSUME Base, Led, NEW k \in Coord, NEW a \in answers, DispatchAck(k, a)
  PROVE  Led'
<1>1. /\ CoordOf[a.cmd] = k /\ answers' = answers \ {a}
      /\ UNCHANGED <<fast, attempt, sentIn, votes, waiting, chan, replVars, after>>
  BY DEF DispatchAck
<1>2. /\ a.cmd \in Cmd /\ sentIn[a.cmd] # 0 /\ a.res = "SUCCESS"
      /\ a.cmd \in AppliedAt(Leader)
  BY DEF Base, Types, VotesOK, Led, AnswersApplied
<1>3. CASE sentIn[a.cmd] # phase[k]
  <2>1. UNCHANGED <<phase, cur, outstanding, ended>>
    BY <1>3 DEF DispatchAck
  <2>2. ASSUME NEW j \in Coord, cur[j] # NoCmd PROVE cur[j] # a.cmd
    BY <1>1, <1>3, <2>2 DEF Base, PhasesTell
  <2>3. ASSUME NEW j \in Coord, cur[j] # NoCmd, [cmd |-> cur[j], res |-> "SUCCESS"] \in answers
        PROVE  [cmd |-> cur[j], res |-> "SUCCESS"] \in answers'
    <3>1. [cmd |-> cur[j], res |-> "SUCCESS"].cmd = cur[j]
      OBVIOUS
    <3> QED
      BY <2>2, <2>3, <3>1, <1>1
  <2>4. answers' \subseteq answers
    BY <1>1
  <2> QED
    BY <1>1, <2>1, <2>3, <2>4, LateLed
<1>4. CASE sentIn[a.cmd] = phase[k]
  <2>1. cur[k] = a.cmd
    BY <1>1, <1>2, <1>4, AnswersCurrent
  <2>2. Dispatched(k, FALSE, TRUE)
    <3>1. Dispatched(k, a.res = "WRONG_LEADER", fast[k] \/ ~(a.res = "WRONG_LEADER"))
      BY <1>4 DEF DispatchAck
    <3>2. (a.res = "WRONG_LEADER") = FALSE /\ (fast[k] \/ ~(a.res = "WRONG_LEADER")) = TRUE
      BY <1>2
    <3> QED
      BY <3>1, <3>2
  <2>3. answers' \subseteq answers /\ \A b \in answers : b.cmd # a.cmd => b \in answers'
    BY <1>1
  <2> QED
    BY <1>1, <1>2, <2>1, <2>2, <2>3, EndLed
<1> QED
  BY <1>3, <1>4

(* The coroutine: in its own phase it ends its transaction, by a quorum.    *)
LEMMA ResumeLed ==
  ASSUME Base, Led, NEW k \in Coord, NEW c \in Cmd, Resume(k, c)
  PROVE  Led'
<1>1. /\ CoordOf[c] = k /\ c \in waiting
      /\ UNCHANGED <<attempt, sentIn, votes, chan, answers, replVars, after>>
  BY DEF Resume
<1>2. CASE sentIn[c] # phase[k] \/ ~Yes(c)
  <2>1. UNCHANGED <<phase, cur, outstanding, ended>>
    BY <1>2 DEF Resume
  <2> QED
    BY <1>1, <2>1, LateLed
<1>3. CASE sentIn[c] = phase[k] /\ Yes(c)
  <2>1. Dispatched(k, FALSE, TRUE)
    BY <1>3 DEF Resume
  <2>2. sentIn[c] # 0
    BY <1>1 DEF Base, Types, VotesOK
  <2>3. cur[k] = c
    BY <1>1, <1>3, <2>2, AnswersCurrent
  <2> QED
    BY <1>1, <1>3, <2>1, <2>3, EndLed
<1> QED
  BY <1>2, <1>3

(* What a delivery does to the leader's queues.                             *)
LEMMA DeliverFirst ==
  ASSUME Base, Led, NEW k \in Coord, NEW r \in Replica, chan[k][r] # << >>,
         chan' = [chan EXCEPT ![k][r] = Tail(@)], Logged \subseteq Logged',
         r = Leader /\ Head(chan[k][r]).type = "Dispatch" => Head(chan[k][r]).cmd \in Logged'
  PROVE  /\ \A j \in Coord : FirstOK(chan'[j][Leader], Logged')
         /\ \A j \in Coord, d \in Cmd : Queued(chan[j][Leader], d) =>
              \/ Queued(chan'[j][Leader], d)
              \/ r = Leader /\ Head(chan[k][r]) = DispatchOf(d)
<1>1. chan \in [Coord -> [Replica -> Seq(Message)]] /\ Leader \in Replica
  BY RuleAssumption DEF Base, Types
<1>2. \A j \in Coord : FirstOK(chan[j][Leader], Logged)
  BY DEF Led, DispatchFirst
<1>3. ASSUME NEW j \in Coord, j # k \/ r # Leader
      PROVE  chan'[j][Leader] = chan[j][Leader] /\ FirstOK(chan'[j][Leader], Logged')
  <2>1. chan'[j][Leader] = chan[j][Leader]
    BY <1>1, <1>3
  <2> QED
    BY <2>1, <1>2 DEF FirstOK
<1>4. ASSUME r = Leader
      PROVE  /\ FirstOK(chan'[k][Leader], Logged')
             /\ \A d \in Cmd : Queued(chan[k][Leader], d) =>
                  Queued(chan'[k][Leader], d) \/ Head(chan[k][Leader]) = DispatchOf(d)
  <2>1. PICK q \in Seq(Message) : q = chan[k][Leader] /\ q # << >>
    BY <1>1, <1>4
  <2>2. chan'[k][Leader] = Tail(q)
    BY <1>1, <1>4, <2>1
  <2>3. FirstOK(q, Logged)
    BY <1>2, <2>1
  <2>4. FirstOK(Tail(q), Logged')
    BY <1>4, <2>1, <2>3, FirstTail
  <2>5. \A d \in Cmd : Queued(q, d) => Queued(Tail(q), d) \/ Head(q) = DispatchOf(d)
    BY <2>1, QueuedTail
  <2> QED
    BY <2>1, <2>2, <2>4, <2>5
<1>5. ASSUME NEW j \in Coord
      PROVE  /\ FirstOK(chan'[j][Leader], Logged')
             /\ \A d \in Cmd : Queued(chan[j][Leader], d) =>
                  \/ Queued(chan'[j][Leader], d)
                  \/ r = Leader /\ Head(chan[k][r]) = DispatchOf(d)
  <2>1. CASE j # k \/ r # Leader
    BY <2>1, <1>3
  <2>2. CASE j = k /\ r = Leader
    BY <2>2, <1>4
  <2> QED
    BY <2>1, <2>2
<1> QED
  BY <1>5

(* Dispatch on the leader: the command enters the log after everything that *)
(* had been reported when it began.                                         *)
LEMMA OnDispatchLed ==
  ASSUME Base, Led, NEW k \in Coord, NEW r \in Replica, Deliver(k, r),
         Head(chan[k][r]).type = "Dispatch", OnDispatch(r, Head(chan[k][r]).cmd)
  PROVE  Led'
<1> USE PoolAssumption, RuleAssumption
<1>t. Types /\ PhasesTell
  BY DEF Base
<1>d. /\ Home = Leader /\ PhasesLed /\ DispatchFirst /\ OnItsWay /\ AnswersApplied
      /\ CommitAnswered /\ AfterLogged /\ RealTimeOrder
  BY DEF Led
<1>c. PICK c \in Cmd : c = Head(chan[k][r]).cmd /\ r = Leader
  BY <1>d, HeadRequest DEF Deliver
<1>u. /\ chan[k][r] # << >> /\ chan' = [chan EXCEPT ![k][r] = Tail(@)]
      /\ UNCHANGED <<phase, cur, outstanding, applied, ended, after, votes, answers>>
      /\ log' = Append(log, c)
  BY <1>c DEF Deliver, OnDispatch, coordVars, histVars
<1>l. /\ AppliedAt(Leader)' = AppliedAt(Leader)
      /\ Len(log') = Len(log) + 1 /\ Len(log) \in Nat
      /\ \A i \in 1 .. Len(log) : log'[i] = log[i]
      /\ log'[Len(log) + 1] = c
  <2>1. log \in Seq(Cmd)
    BY <1>t DEF Types
  <2>2. AppliedAt(Leader)' = AppliedAt(Leader)
    BY <1>u, <1>t, AppliedStays
  <2> QED
    BY <2>1, <2>2, <1>u
<1>i. /\ Len(log) + 1 \in 1 .. Len(log')
      /\ \A i \in 1 .. Len(log) : i \in 1 .. Len(log')
  BY <1>l
<1>g. Logged \subseteq Logged' /\ c \in Logged'
  BY <1>l, <1>i DEF Logged
<1>v. Committed' = Committed /\ \A d : Yes(d)' = Yes(d) /\ Voters(d)' = Voters(d)
  BY <1>u DEF Committed, Yes, Voters
<1>q. /\ \A j \in Coord : FirstOK(chan'[j][Leader], Logged')
      /\ \A j \in Coord, d \in Cmd : Queued(chan[j][Leader], d) =>
           \/ Queued(chan'[j][Leader], d)
           \/ r = Leader /\ Head(chan[k][r]) = DispatchOf(d)
  BY <1>u, <1>g, <1>c, DeliverFirst
<1>1. PhasesLed'
  BY <1>u, <1>d DEF PhasesLed
<1>2. DispatchFirst'
  BY <1>q, <1>v, <1>g, <1>d DEF DispatchFirst
<1>3. OnItsWay'
  <2> SUFFICES ASSUME NEW j \in Coord, cur[j] # NoCmd
               PROVE  \/ Queued(chan'[j][Leader], cur[j])
                      \/ ToApply(cur[j])'
                      \/ [cmd |-> cur[j], res |-> "SUCCESS"] \in answers
    BY <1>u DEF OnItsWay, ToApply
  <2>1. cur[j] \in Cmd
    BY <1>t DEF Types, CmdOrNone
  <2>2. ToApply(cur[j]) => ToApply(cur[j])'
    BY <1>u, <1>l, <1>i DEF ToApply
  <2>3. Head(chan[k][r]) = DispatchOf(cur[j]) => ToApply(cur[j])'
    <3>1. Head(chan[k][r]) = DispatchOf(cur[j]) => cur[j] = c
      BY <1>c DEF DispatchOf
    <3>2. Len(log) + 1 > applied'[Leader]
      <4>1. applied[Leader] \in Nat /\ applied[Leader] <= Len(log)
        BY <1>t DEF Types
      <4> QED
        BY <4>1, <1>l, <1>u
    <3> QED
      BY <3>1, <3>2, <1>l, <1>i, <1>u DEF ToApply
  <2> QED
    BY <2>1, <2>2, <2>3, <1>q, <1>d DEF OnItsWay
<1>4. AnswersApplied' /\ CommitAnswered'
  BY <1>l, <1>v, <1>u, <1>d DEF AnswersApplied, CommitAnswered
<1>5. AfterLogged'
  BY <1>u, <1>g, <1>d DEF AfterLogged
<1>6. RealTimeOrder'
  <2> SUFFICES ASSUME NEW i \in 1 .. Len(log'), NEW a \in after[log'[i]]
               PROVE  \E j \in 1 .. i - 1 : log'[j] = a
    <3>1. DOMAIN log' = 1 .. Len(log')
      BY <1>u, <1>t DEF Types
    <3> QED
      BY <3>1, <1>u DEF RealTimeOrder
  <2>1. CASE i \in 1 .. Len(log)
    <3>1. i \in DOMAIN log /\ log'[i] = log[i]
      <4>1. DOMAIN log = 1 .. Len(log)
        BY <1>t DEF Types
      <4> QED
        BY <4>1, <2>1, <1>l
    <3>2. \A j \in 1 .. i - 1 : j \in 1 .. Len(log)
      BY <2>1, <1>l
    <3> QED
      BY <3>1, <3>2, <1>l, <1>d DEF RealTimeOrder
  <2>2. CASE i = Len(log) + 1
    <3>1. a \in Logged
      BY <2>2, <1>l, <1>d DEF AfterLogged
    <3>2. PICK j \in 1 .. Len(log) : log[j] = a
      BY <3>1 DEF Logged
    <3>3. j \in 1 .. i - 1
      BY <2>2, <1>l
    <3> QED
      BY <3>2, <3>3, <1>l
  <2> QED
    BY <2>1, <2>2, <1>l
<1> QED
  BY <1>1, <1>2, <1>3, <1>4, <1>5, <1>6, <1>d DEF Led

(* More votes for a command never take its quorum away.                     *)
LEMMA YesStays ==
  ASSUME Types, Types', NEW c \in Cmd, votes[c].yes \subseteq votes'[c].yes, Yes(c)
  PROVE  Yes(c)'
<1>1. votes'[c].yes \subseteq Replica /\ IsFiniteSet(Replica)
  BY RuleAssumption DEF Types
<1>2. IsFiniteSet(votes'[c].yes)
  BY <1>1, FS_Subset
<1>3. /\ Cardinality(votes[c].yes) <= Cardinality(votes'[c].yes)
      /\ IsFiniteSet(votes[c].yes)
  BY <1>2, FS_Subset
<1>4. Cardinality(votes[c].yes) \in Nat /\ Cardinality(votes'[c].yes) \in Nat
  BY <1>2, <1>3, FS_CardinalityType
<1>5. SuperMajority \in Int
  <2>1. Cardinality(Replica) \in Nat
    BY <1>1, FS_CardinalityType
  <2> QED
    BY <2>1 DEF SuperMajority
<1>6. Cardinality(votes'[c].yes) >= SuperMajority
  BY <1>3, <1>4, <1>5 DEF Yes
<1> QED
  BY <1>6 DEF Yes

(* The speculative request: when the leader votes, it has appended already. *)
LEMMA OnSpecLed ==
  ASSUME Base, Base', Led, NEW k \in Coord, NEW r \in Replica, Deliver(k, r),
         Head(chan[k][r]).type = "Spec",
         OnRuleSpeculativeExecute(r, Head(chan[k][r]).cmd)
  PROVE  Led'
<1> USE PoolAssumption, RuleAssumption
<1>t. Types /\ Types' /\ PhasesTell
  BY DEF Base
<1>d. /\ Home = Leader /\ PhasesLed /\ DispatchFirst /\ OnItsWay /\ AnswersApplied
      /\ CommitAnswered /\ AfterLogged /\ RealTimeOrder
  BY DEF Led
<1>c. PICK c \in Cmd : c = Head(chan[k][r]).cmd
  BY HeadRequest DEF Deliver
<1>y. PICK yes \in BOOLEAN : yes <=> PushOk(pool[r], c)
  BY DEF PushOk
<1>u. /\ chan[k][r] # << >> /\ chan' = [chan EXCEPT ![k][r] = Tail(@)]
      /\ UNCHANGED <<phase, cur, outstanding, applied, ended, after, log, answers>>
      /\ votes' = IF yes THEN [votes EXCEPT ![c].yes = @ \cup {r}]
                  ELSE [votes EXCEPT ![c].no = @ \cup {r}]
  BY <1>c, <1>y DEF Deliver, OnRuleSpeculativeExecute, coordVars, histVars
<1>v. /\ \A d \in Cmd : d # c => votes'[d] = votes[d]
      /\ votes'[c].yes = IF yes THEN votes[c].yes \cup {r} ELSE votes[c].yes
      /\ votes'[c].no = IF yes THEN votes[c].no ELSE votes[c].no \cup {r}
  BY <1>u, <1>t, VoteCounted
<1>l. /\ Logged' = Logged /\ AppliedAt(Leader)' = AppliedAt(Leader) /\ Committed' = Committed
      /\ \A d : ToApply(d)' = ToApply(d)
  BY <1>u DEF Logged, AppliedAt, Committed, ToApply
<1>q. /\ \A j \in Coord : FirstOK(chan'[j][Leader], Logged')
      /\ \A j \in Coord, d \in Cmd : Queued(chan[j][Leader], d) =>
           \/ Queued(chan'[j][Leader], d)
           \/ r = Leader /\ Head(chan[k][r]) = DispatchOf(d)
  BY <1>u, <1>l, DeliverFirst
<1>f. r = Leader => c \in Logged
  <2> SUFFICES ASSUME r = Leader PROVE c \in Logged
    OBVIOUS
  <2>1. PICK q \in Seq(Message) : q = chan[k][Leader] /\ q # << >>
    BY <1>t, <1>u DEF Types
  <2>2. FirstOK(q, Logged)
    BY <2>1, <1>d DEF DispatchFirst
  <2>3. 1 \in 1 .. Len(q) /\ Head(q) = q[1] /\ 1 .. 1 - 1 = {}
    BY <2>1
  <2>4. q[1].type = "Spec" /\ q[1].cmd = c
    BY <2>1, <2>3, <1>c
  <2> QED
    BY <2>2, <2>3, <2>4 DEF FirstOK
<1>1. PhasesLed'
  BY <1>u, <1>d DEF PhasesLed
<1>2. DispatchFirst'
  <2>1. ASSUME NEW e \in Cmd, Leader \in Voters(e)' PROVE e \in Logged'
    <3>1. Leader \in Voters(e) \/ (Leader = r /\ e = c)
      BY <2>1, <1>v DEF Voters
    <3> QED
      BY <3>1, <1>f, <1>l, <1>d DEF DispatchFirst
  <2> QED
    BY <2>1, <1>q DEF DispatchFirst
<1>3. OnItsWay'
  <2> SUFFICES ASSUME NEW j \in Coord, cur[j] # NoCmd
               PROVE  \/ Queued(chan'[j][Leader], cur[j])
                      \/ ToApply(cur[j])
                      \/ [cmd |-> cur[j], res |-> "SUCCESS"] \in answers
    BY <1>u DEF OnItsWay, ToApply
  <2>1. cur[j] \in Cmd
    BY <1>t DEF Types, CmdOrNone
  <2>2. Head(chan[k][r]) # DispatchOf(cur[j])
    BY DEF DispatchOf
  <2> QED
    BY <2>1, <2>2, <1>q, <1>d DEF OnItsWay
<1>4. AnswersApplied'
  BY <1>l, <1>u, <1>d DEF AnswersApplied
<1>5. CommitAnswered'
  <2>1. ASSUME NEW e \in Cmd, Yes(e) PROVE Yes(e)'
    <3>1. votes[e].yes \subseteq votes'[e].yes
      BY <1>v
    <3> QED
      BY <2>1, <3>1, <1>t, YesStays
  <2>2. Committed \subseteq Cmd
    BY DEF Committed
  <2> QED
    BY <2>1, <2>2, <1>l, <1>d DEF CommitAnswered
<1>6. AfterLogged' /\ RealTimeOrder'
  BY <1>l, <1>u, <1>d DEF AfterLogged, RealTimeOrder
<1> QED
  BY <1>1, <1>2, <1>3, <1>4, <1>5, <1>6, <1>d DEF Led

(* The leader answers what it applies.                                      *)
LEMMA ApplyLed ==
  ASSUME Base, Led, NEW r \in Replica, Apply(r)
  PROVE  Led'
<1> USE PoolAssumption, RuleAssumption
<1>t. Types /\ PhasesTell
  BY DEF Base
<1>d. /\ Home = Leader /\ PhasesLed /\ DispatchFirst /\ OnItsWay /\ AnswersApplied
      /\ CommitAnswered /\ AfterLogged /\ RealTimeOrder
  BY DEF Led
<1>a. applied \in [Replica -> Nat] /\ applied[r] \in Nat /\ applied[Leader] \in Nat
  BY <1>t DEF Types
<1>u. /\ UNCHANGED <<phase, cur, outstanding, votes, chan, log, ended, after>>
      /\ applied' = [applied EXCEPT ![r] = applied[r] + 1]
      /\ answers' = IF r = Leader
                    THEN answers \cup {[cmd |-> log[applied[r] + 1], res |-> "SUCCESS"]}
                    ELSE answers
  BY DEF Apply, coordVars, histVars
<1>l. /\ Logged' = Logged /\ Committed' = Committed
      /\ \A d : Yes(d)' = Yes(d) /\ Voters(d)' = Voters(d)
  BY <1>u DEF Logged, Committed, Yes, Voters
<1>b. /\ AppliedAt(Leader) \subseteq AppliedAt(Leader)'
      /\ r = Leader => log[applied[r] + 1] \in AppliedAt(Leader)'
  <2>1. AppliedAt(Leader)' = {log[i] : i \in 1 .. applied'[Leader]}
    BY <1>u DEF AppliedAt
  <2>2. 1 .. applied[Leader] \subseteq 1 .. applied'[Leader]
    BY <1>a, <1>u
  <2>3. r = Leader => applied[r] + 1 \in 1 .. applied'[Leader]
    BY <1>a, <1>u
  <2> QED
    BY <2>1, <2>2, <2>3 DEF AppliedAt
<1>1. PhasesLed'
  BY <1>u, <1>d DEF PhasesLed
<1>2. DispatchFirst'
  BY <1>l, <1>u, <1>d DEF DispatchFirst
<1>3. OnItsWay'
  <2> SUFFICES ASSUME NEW j \in Coord, cur[j] # NoCmd
               PROVE  \/ Queued(chan[j][Leader], cur[j])
                      \/ ToApply(cur[j])'
                      \/ [cmd |-> cur[j], res |-> "SUCCESS"] \in answers'
    BY <1>u DEF OnItsWay, ToApply
  <2>1. ASSUME ToApply(cur[j])
        PROVE  ToApply(cur[j])' \/ [cmd |-> cur[j], res |-> "SUCCESS"] \in answers'
    <3>1. PICK i \in 1 .. Len(log) : i > applied[Leader] /\ log[i] = cur[j]
      BY <2>1 DEF ToApply
    <3>2. CASE r = Leader /\ i = applied[Leader] + 1
      BY <3>1, <3>2, <1>u
    <3>3. CASE ~(r = Leader /\ i = applied[Leader] + 1)
      <4>1. i > applied'[Leader]
        <5>1. CASE r = Leader
          BY <5>1, <3>1, <3>3, <1>a, <1>u
        <5>2. CASE r # Leader
          BY <5>2, <3>1, <1>a, <1>u
        <5> QED
          BY <5>1, <5>2
      <4> QED
        BY <4>1, <3>1, <1>u DEF ToApply
    <3> QED
      BY <3>2, <3>3
  <2>2. answers \subseteq answers'
    BY <1>u
  <2> QED
    BY <2>1, <2>2, <1>d DEF OnItsWay
<1>4. AnswersApplied'
  <2>1. \A a \in answers : a.res = "SUCCESS" /\ a.cmd \in AppliedAt(Leader)'
    BY <1>b, <1>d DEF AnswersApplied
  <2> QED
    BY <2>1, <1>b, <1>u DEF AnswersApplied
<1>5. CommitAnswered'
  BY <1>l, <1>b, <1>d DEF CommitAnswered
<1>6. AfterLogged' /\ RealTimeOrder'
  BY <1>l, <1>u, <1>d DEF AfterLogged, RealTimeOrder
<1> QED
  BY <1>1, <1>2, <1>3, <1>4, <1>5, <1>6, <1>d DEF Led

(* Every step keeps Led, when clients send Dispatch to the leader.          *)
LEMMA LedStep == Base /\ Led /\ [Next]_vars => Led'
<1> SUFFICES ASSUME Base, Led, [Next]_vars PROVE Led'
  OBVIOUS
<1>0. Base'
  BY BaseStep
<1>1. ASSUME NEW k \in Coord, NEW c \in Cmd, Begin(k, c) PROVE Led'
  BY <1>1, BeginLed
<1>2. ASSUME NEW k \in Coord, NEW c \in Cmd, Resume(k, c) PROVE Led'
  BY <1>2, ResumeLed
<1>3. ASSUME NEW k \in Coord, NEW a \in answers, DispatchAck(k, a) PROVE Led'
  BY <1>3, DispatchAckLed
<1>4. ASSUME NEW k \in Coord, NEW r \in Replica, Deliver(k, r) PROVE Led'
  <2>1. CASE Head(chan[k][r]).type = "Dispatch" /\ OnDispatch(r, Head(chan[k][r]).cmd)
    BY <1>4, <2>1, OnDispatchLed
  <2>2. CASE Head(chan[k][r]).type = "Spec" /\ OnRuleSpeculativeExecute(r, Head(chan[k][r]).cmd)
    BY <1>0, <1>4, <2>2, OnSpecLed
  <2> QED
    BY <1>4, <2>1, <2>2 DEF Deliver
<1>5. ASSUME NEW r \in Replica, Apply(r) PROVE Led'
  BY <1>5, ApplyLed
<1>6. CASE UNCHANGED vars
  <2>1. UNCHANGED <<phase, cur, outstanding, ended, votes, chan, replVars, after, answers>>
    BY <1>6 DEF vars, coordVars, histVars
  <2> QED
    BY <2>1, LateLed
<1> QED
  BY <1>1, <1>2, <1>3, <1>4, <1>5, <1>6 DEF Next

--------------------------------------------------------------------------------
(* Every phase, flag, vote, pool and log keeps its type, and a replica      *)
(* votes at most once for a transaction, wherever clients send Dispatch.    *)
THEOREM TypeCorrect == Spec => []TypeOK
<1>1. Base => TypeOK
  <2> SUFFICES ASSUME Base PROVE TypeOK
    OBVIOUS
  <2>1. Types
    BY DEF Base
  <2>2. Range(log) \subseteq Cmd
    BY <2>1 DEF Types, Range
  <2>3. \A r \in Replica : applied[r] \in 0 .. Len(log)
    BY <2>1 DEF Types
  <2>4. \A c \in Cmd : /\ votes[c] \in [yes: SUBSET Replica, no: SUBSET Replica]
                       /\ votes[c].yes \cap votes[c].no = {}
    BY <2>1 DEF Types, Base, VotesOK
  <2> QED
    BY <2>1, <2>2, <2>3, <2>4 DEF Types, TypeOK, Result
<1> QED
  BY <1>1, BaseInit, BaseStep, PTL DEF Spec

(* Clients that send Dispatch to the leader keep Base and Led.              *)
LEMMA LedAlways == Spec /\ Home = Leader => [](Base /\ Led)
<1>1. Init /\ Home = Leader => Base /\ Led
  BY BaseInit, LedInit
<1>2. (Base /\ Led) /\ [Next]_vars => (Base /\ Led)'
  BY BaseStep, LedStep
<1> QED
  BY <1>1, <1>2, PTL DEF Spec

(* A transaction sent to the leader is reported exactly once, as committed, *)
(* and the client's in-flight counter is right, whatever late answers and   *)
(* coroutines of earlier transactions reach the reused coordinator.         *)
THEOREM LedEndsOnce == Spec /\ Home = Leader => []EndsOnce
<1>1. Base /\ Led => EndsOnce
  <2> SUFFICES ASSUME Led PROVE EndsOnce
    OBVIOUS
  <2>1. Len(<< >>) <= 1 /\ Len(<<"SUCCESS">>) <= 1
    OBVIOUS
  <2> QED
    BY <2>1 DEF Led, PhasesLed, EndsOnce
<1> QED
  BY <1>1, LedAlways, PTL

(* The log of the leader extends the clients' real-time order: a command    *)
(* follows every command reported before it began, by either path.          *)
THEOREM LedRealTimeOrder == Spec /\ Home = Leader => []RealTimeOrder
<1>1. Base /\ Led => RealTimeOrder
  BY DEF Led
<1> QED
  BY <1>1, LedAlways, PTL

(* A transaction sent to the leader is reported as committed only after a   *)
(* fast quorum that holds the leader or after the leader applied it.        *)
THEOREM LedCommitAnswered == Spec /\ Home = Leader => []CommitAnswered
<1>1. Base /\ Led => CommitAnswered
  BY DEF Led
<1> QED
  BY <1>1, LedAlways, PTL

(* When nothing is in flight no coordinator waits: the original path's      *)
(* answer is never missed, whatever became of the fast quorum.              *)
THEOREM LedNobodyWaits == Spec /\ Home = Leader => []NobodyWaits
<1>1. Base /\ Led => NobodyWaits
  <2> SUFFICES ASSUME Base, Led,
                      \A k \in Coord, r \in Replica : chan[k][r] = << >>,
                      answers = {}, applied[Leader] = Len(log),
                      NEW k \in Coord, cur[k] # NoCmd
               PROVE  FALSE
    BY DEF NobodyWaits
  <2>1. Leader \in Replica /\ Len(log) \in Nat
    BY RuleAssumption DEF Base, Types
  <2>2. ~Queued(chan[k][Leader], cur[k])
    BY <2>1 DEF Queued
  <2>3. ~ToApply(cur[k])
    BY <2>1 DEF ToApply
  <2> QED
    BY <2>2, <2>3 DEF Led, OnItsWay
<1> QED
  BY <1>1, LedAlways, PTL

(* The numbers that FastQuorumMeets is about.                               *)
LEMMA ByFours ==
  ASSUME NEW n \in Nat, n % 4 # 2
  PROVE  \E m \in Nat : n = 4 * m \/ n = 4 * m + 1 \/ n = 4 * m + 3
<1>1. PICK m \in Nat : m = n \div 4
  OBVIOUS
<1>2. 4 * m <= n /\ n <= 4 * m + 3
  BY <1>1
<1>3. n # 4 * m + 2
  OBVIOUS
<1> QED
  BY <1>2, <1>3

(* The fast quorum meets every majority in more than half of it, unless     *)
(* Cardinality(Replica) leaves the remainder two when divided by four: with *)
(* two replicas RuleSuperMajority is one, with six it is four.              *)
LEMMA FastQuorumMeets ==
  ASSUME NEW S \in SUBSET Replica, Cardinality(S) >= SuperMajority,
         NEW Q \in Majorities, Cardinality(Replica) % 4 # 2
  PROVE  2 * Cardinality(S \cap Q) > Cardinality(Q)
<1>1. IsFiniteSet(Replica) /\ Replica # {} /\ Q \in SUBSET Replica
  BY RuleAssumption DEF Majorities
<1>2. IsFiniteSet(S) /\ IsFiniteSet(Q) /\ S \cup Q \in SUBSET Replica
  BY <1>1, FS_Subset
<1>3. /\ Cardinality(S \cup Q) = Cardinality(S) + Cardinality(Q) - Cardinality(S \cap Q)
      /\ IsFiniteSet(S \cup Q) /\ IsFiniteSet(S \cap Q)
  BY <1>2, FS_Union, FS_Intersection
<1>4. PICK n \in Nat, s \in Nat, q \in Nat, i \in Nat, u \in Nat :
        /\ n = Cardinality(Replica) /\ s = Cardinality(S) /\ q = Cardinality(Q)
        /\ i = Cardinality(S \cap Q) /\ u = Cardinality(S \cup Q)
  BY <1>1, <1>2, <1>3, FS_CardinalityType
<1>5. u = s + q - i /\ u <= n /\ 2 * q > n
  BY <1>1, <1>2, <1>3, <1>4, FS_Subset DEF Majorities
<1>6. n >= 1
  BY <1>1, <1>4, <1>5, FS_EmptySet
<1>7. s >= (n - 1) \div 2 + ((n - 1) \div 2 + 1) \div 2 + 1
  BY <1>4 DEF SuperMajority
<1>8. n % 4 # 2
  BY <1>4
<1>9. 2 * i > q
  <2>1. PICK m \in Nat : n = 4 * m \/ n = 4 * m + 1 \/ n = 4 * m + 3
    BY <1>8, ByFours
  <2>2. CASE n = 4 * m + 1
    <3>1. (n - 1) \div 2 = 2 * m /\ (2 * m + 1) \div 2 = m
      BY <2>2
    <3> QED
      BY <3>1, <2>2, <1>5, <1>7
  <2>3. CASE n = 4 * m + 3
    <3>1. (n - 1) \div 2 = 2 * m + 1 /\ ((2 * m + 1) + 1) \div 2 = m + 1
      BY <2>3
    <3> QED
      BY <3>1, <2>3, <1>5, <1>7
  <2>4. CASE n = 4 * m
    <3>1. (n - 1) \div 2 = 2 * m - 1 /\ ((2 * m - 1) + 1) \div 2 = m
      BY <2>4
    <3> QED
      BY <3>1, <2>4, <1>5, <1>7
  <2> QED
    BY <2>1, <2>2, <2>3, <2>4
<1> QED
  BY <1>4, <1>9

(* A replica that promised a write names it to PullRecovery until the write *)
(* is applied there.                                                        *)
LEMMA PromiseHeld ==
  ASSUME Base, NEW c \in Writes, NEW r \in votes[c].yes
  PROVE  r \in Replica /\ c \in ToRecover(pool[r]) \cup AppliedAt(r)
<1> USE PoolAssumption
<1>1. c \in Cmd /\ r \in Replica /\ c \in Promised(r)
  BY DEF Base, Types, Promised
<1>2. /\ PoolOK(pool[r]) /\ PromisedNamed(pool[r], Promised(r))
      /\ c \in Tracked(pool[r]) \/ c \in AppliedAt(r)
  BY <1>1 DEF Base, PoolsKeep
<1>3. ASSUME c \in Tracked(pool[r]) PROVE c \in ToRecover(pool[r])
  <2>1. c \in pool[r].cand[KeyOf[c]].cmds
    BY <1>1, <1>2, <1>3, TrackedInOwnBucket
  <2>2. pool[r].cand[KeyOf[c]].to_recover = c
    BY <2>1, <1>1, <1>2 DEF PromisedNamed
  <2>3. CmdToRecover(pool[r].cand[KeyOf[c]]) = c
    BY <2>1, <2>2 DEF CmdToRecover
  <2>4. KeyOf[c] \in Key /\ c # NoCmd
    BY <1>1
  <2> QED
    BY <2>3, <2>4 DEF ToRecover
<1> QED
  BY <1>1, <1>2, <1>3

(* A write reported as committed and not applied by the leader is held by   *)
(* most of every majority, when clients send Dispatch to the leader and the *)
(* number of replicas does not leave two when divided by four.              *)
THEOREM LedCommittedWriteHeld ==
  ASSUME Home = Leader, Cardinality(Replica) % 4 # 2
  PROVE  Spec => []CommittedWriteHeld
<1>1. Base /\ Led => CommittedWriteHeld
  <2> SUFFICES ASSUME Base, Led,
                      NEW c \in (Committed \cap Writes) \ AppliedAt(Leader),
                      NEW Q \in Majorities
               PROVE  LET held == {r \in Replica : c \in ToRecover(pool[r]) \cup AppliedAt(r)} IN
                      2 * Cardinality(held \cap Q) > Cardinality(Q)
    BY DEF CommittedWriteHeld
  <2> DEFINE held == {r \in Replica : c \in ToRecover(pool[r]) \cup AppliedAt(r)}
  <2>1. Yes(c)
    BY DEF Led, CommitAnswered
  <2>2. votes[c].yes \subseteq held /\ held \in SUBSET Replica
    BY PromiseHeld
  <2> HIDE DEF held
  <2>3. IsFiniteSet(held)
    BY <2>2, RuleAssumption, FS_Subset
  <2>4. Cardinality(held) >= SuperMajority
    <3>1. IsFiniteSet(votes[c].yes) /\ Cardinality(votes[c].yes) <= Cardinality(held)
      BY <2>2, <2>3, FS_Subset
    <3>2. Cardinality(held) \in Nat /\ Cardinality(votes[c].yes) \in Nat
      BY <2>3, <3>1, FS_CardinalityType
    <3>3. SuperMajority \in Int
      <4>1. Cardinality(Replica) \in Nat
        BY RuleAssumption, FS_CardinalityType
      <4> QED
        BY <4>1 DEF SuperMajority
    <3> QED
      BY <2>1, <3>1, <3>2, <3>3 DEF Yes
  <2>5. 2 * Cardinality(held \cap Q) > Cardinality(Q)
    BY <2>2, <2>4, FastQuorumMeets
  <2> QED
    BY <2>5 DEF held
<1>2. Spec => [](Base /\ Led)
  BY LedAlways
<1> QED
  BY <1>1, <1>2, PTL
================================================================================
