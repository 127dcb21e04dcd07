---------------------------- MODULE RaftLeaseProofs ----------------------------
(***************************************************************************)
(* At most one server holds a read lease, for every number of servers and  *)
(* every lease duration, as long as leaders were elected.  What is used of *)
(* the elections is IInv of RaftServerProofs.                              *)
(***************************************************************************)
EXTENDS RaftLease, RaftServerProofs, LeastNumber

(* The clocks: nothing is stamped with a time that has not come.            *)
Clocks ==
  /\ now \in Nat
  /\ leaders \subseteq Server
  /\ warmup \in [Server -> Nat]
  /\ expires \in [Server -> Nat]
  /\ DOMAIN ae_sent = Server
  /\ \A r \in Server :
       /\ expires[r] <= now + kReadLeaseDurationUs
       /\ DOMAIN ae_sent[r] \subseteq Server \ {r}
       /\ \A f \in DOMAIN ae_sent[r] : ae_sent[r][f] \in Nat /\ ae_sent[r][f] <= now

(* A request of s in flight.                                                *)
SentBy(m, s, d) ==
  m.type = "Append" =>
    /\ "at" \in DOMAIN m
    /\ m.at \in Nat /\ m.at <= now
    /\ m.term <= currentTerm[s]
    /\ s # d

(* A reply in flight.                                                       *)
Answered(a) ==
  /\ a.from \in Server \ {a.to}
  /\ a.at \in Nat /\ a.at <= now
  /\ a.sterm <= currentTerm[a.to]

Stamps ==
  /\ \A s, d \in Server : \A i \in DOMAIN chan[s][d] : SentBy(chan[s][d][i], s, d)
  /\ \A a \in DOMAIN acks : Answered(a)

(* A leader asks for no votes, and the history knows of its term.           *)
Leading ==
  \A r \in leaders : /\ cand[r] = NoCand
                     /\ \E x \in led : x.by = r /\ x.term = currentTerm[r]

(* x is the election that made a present leader.                            *)
InOffice(x) == x \in led /\ x.by \in leaders /\ x.term = currentTerm[x.by]

(* What a voter of a present leader answered to an older leader it answered *)
(* before it voted, so every lease that rests on it ends with the new       *)
(* leader's warm-up.                                                        *)
OldLeasesEnd ==
  \A x \in led : InOffice(x) =>
    /\ \A a \in DOMAIN acks : a.ok /\ a.from \in x.votes /\ a.sterm < x.term =>
         a.at + kReadLeaseDurationUs <= warmup[x.by]
    /\ \A q \in leaders : currentTerm[q] < x.term =>
         /\ expires[q] <= warmup[x.by]
         /\ \A f \in DOMAIN ae_sent[q] \cap x.votes :
              ae_sent[q][f] + kReadLeaseDurationUs <= warmup[x.by]

Leases == LeadersElected => OldLeasesEnd

LInv == Clocks /\ Stamps /\ Leading /\ Leases

--------------------------------------------------------------------------------
(* RecomputeLeaseLocked's anchor: a number of followers that makes a        *)
(* majority together with the leader answered a heartbeat sent no earlier.  *)
LEMMA AnchorIs ==
  ASSUME NEW S \in SUBSET Server, NEW times, DOMAIN times = S, S # {},
         Cardinality(S) >= N \div 2, NEW b \in Nat,
         \A f \in S : times[f] \in Nat /\ times[f] <= b
  PROVE  /\ Anchor(times) \in Nat /\ Anchor(times) <= b
         /\ Cardinality({f \in S : times[f] >= Anchor(times)}) >= N \div 2
<1> DEFINE T == {t \in Range(times) :
                   Cardinality({f \in DOMAIN times : times[f] >= t}) >= N \div 2}
<1>1. Range(times) \in SUBSET Nat /\ Range(times) # {} /\ \A t \in Range(times) : t <= b
  BY DEF Range
<1>2. PICK l \in Range(times) : \A t \in Range(times) : l <= t
  BY <1>1, LeastNat
<1>3. {f \in DOMAIN times : times[f] >= l} = S
  BY <1>1, <1>2 DEF Range
<1>4. T \in SUBSET Nat /\ T # {} /\ \A t \in T : t <= b
  <2>1. l \in T
    BY <1>3
  <2> QED
    BY <2>1, <1>1
<1>5. \E n \in T : \A m \in T : n >= m
  BY <1>4, GreatestNat
<1>6. Anchor(times) \in T
  <2>1. Anchor(times) = CHOOSE x \in T : \A y \in T : x >= y
    BY DEF Anchor, Max
  <2> HIDE DEF T
  <2> QED
    BY <1>5, <2>1
<1> QED
  BY <1>4, <1>6

--------------------------------------------------------------------------------
(* A message put at the end of a connection, taken from its head, or whose  *)
(* coroutine has given up.                                                  *)
LEMMA Appended ==
  ASSUME NEW q, Requests(q), NEW m
  PROVE  \A i \in DOMAIN Append(q, m) :
           Append(q, m)[i] = m \/ \E j \in DOMAIN q : Append(q, m)[i] = q[j]
<1>1. PICK M : q \in Seq(M)
  BY DEF Requests
<1> QED
  BY <1>1

(* The head of a connection and what is behind it.                          *)
LEMMA Behind ==
  ASSUME NEW q, Requests(q), q # << >>
  PROVE  /\ 1 \in DOMAIN q /\ Head(q) = q[1]
         /\ \A i \in DOMAIN Tail(q) : \E j \in DOMAIN q : Tail(q)[i] = q[j]
<1>1. PICK M : q \in Seq(M)
  BY DEF Requests
<1> QED
  BY <1>1

(* m has the stamp of k.                                                    *)
SameStamp(m, k) ==
  /\ m.type = k.type
  /\ m.term = k.term
  /\ "at" \in DOMAIN k => "at" \in DOMAIN m /\ m.at = k.at

(* A request nobody waits for keeps its stamp.                              *)
LEMMA LateStamp ==
  ASSUME NEW q, Requests(q), NEW k \in DOMAIN q
  PROVE  \A i \in DOMAIN [q EXCEPT ![k].late = TRUE] :
           \E j \in DOMAIN q : SameStamp([q EXCEPT ![k].late = TRUE][i], q[j])
<1> DEFINE z == [q EXCEPT ![k].late = TRUE]
           m == [q[k] EXCEPT !.late = TRUE]
<1>1. DOMAIN z = DOMAIN q /\ \A i \in DOMAIN q : z[i] = IF i = k THEN m ELSE q[i]
  OBVIOUS
<1>2. SameStamp(m, q[k])
  BY DEF Requests, SameStamp
<1>3. \A i \in DOMAIN q : SameStamp(q[i], q[i])
  BY DEF SameStamp
<1> HIDE DEF z, m
<1>4. \A i \in DOMAIN z : SameStamp(z[i], q[i])
  BY <1>1, <1>2, <1>3
<1> QED
  BY <1>1, <1>4 DEF z

(* What was in flight stays sound as time passes and terms grow, so only    *)
(* what is sent and answered anew has to be looked at.                      *)
LEMMA StampsKept ==
  ASSUME IInv, Clocks, Stamps, now' \in Nat, now' >= now, currentTerm' \in [Server -> Nat],
         \A r \in Server : currentTerm'[r] >= currentTerm[r],
         \A s, d \in Server : \A i \in DOMAIN chan'[s][d] :
           \/ \E j \in DOMAIN chan[s][d] : SameStamp(chan'[s][d][i], chan[s][d][j])
           \/ SentBy(chan[s][d][i], s, d)',
         \A a \in DOMAIN acks' : a \in DOMAIN acks \/ Answered(a)'
  PROVE  Stamps'
<1>1. ASSUME NEW s \in Server, NEW d \in Server, NEW i \in DOMAIN chan'[s][d],
             NEW j \in DOMAIN chan[s][d], SameStamp(chan'[s][d][i], chan[s][d][j])
      PROVE  SentBy(chan[s][d][i], s, d)'
  <2> DEFINE k == chan[s][d][j]
  <2>1. SentBy(k, s, d) /\ k.term \in Nat
    BY DEF Stamps, IInv, ElectionType, ChanOK, Requests
  <2>2. currentTerm[s] \in Nat /\ currentTerm'[s] \in Nat /\ now \in Nat
    BY DEF IInv, ElectionType, Clocks
  <2> QED
    BY <1>1, <2>1, <2>2 DEF SentBy, SameStamp
<1>2. ASSUME NEW a \in DOMAIN acks PROVE Answered(a)'
  <2>1. a.to \in Server /\ a.sterm \in Nat /\ Answered(a)
    BY DEF Stamps, IInv, ElectionType, AcksOK
  <2>2. currentTerm[a.to] \in Nat /\ currentTerm'[a.to] \in Nat /\ now \in Nat
    BY <2>1 DEF IInv, ElectionType, Clocks
  <2> QED
    BY <2>1, <2>2 DEF Answered
<1> QED
  BY <1>1, <1>2 DEF Stamps

(* Leases that rest on the same elections and answers: nothing is renewed,  *)
(* no leader is made, and what is answered anew no voter of a newer leader  *)
(* answered.                                                                *)
LEMMA LeasesKept ==
  ASSUME Leases, leaders' \subseteq leaders, led' = led,
         \A r \in leaders' : /\ currentTerm'[r] = currentTerm[r]
                             /\ warmup'[r] = warmup[r]
                             /\ expires'[r] = expires[r]
                             /\ ae_sent'[r] = ae_sent[r],
         \A a \in DOMAIN acks' :
           \/ a \in DOMAIN acks
           \/ a.ok => \A x \in led : Won(x) /\ a.from \in x.votes => ~(a.sterm < x.term)
  PROVE  Leases'
<1> SUFFICES ASSUME LeadersElected', NEW x \in led', InOffice(x)'
             PROVE  /\ \A a \in DOMAIN acks' : a.ok /\ a.from \in x.votes /\ a.sterm < x.term =>
                         a.at + kReadLeaseDurationUs <= warmup'[x.by]
                    /\ \A q \in leaders' : currentTerm'[q] < x.term =>
                         /\ expires'[q] <= warmup'[x.by]
                         /\ \A f \in DOMAIN ae_sent'[q] \cap x.votes :
                              ae_sent'[q][f] + kReadLeaseDurationUs <= warmup'[x.by]
  BY DEF Leases, OldLeasesEnd
<1>1. LeadersElected /\ Won(x) /\ x \in led
  BY DEF LeadersElected, Won
<1>2. InOffice(x) /\ warmup'[x.by] = warmup[x.by]
  BY DEF InOffice
<1>3. OldLeasesEnd
  BY <1>1 DEF Leases
<1>4. \A a \in DOMAIN acks' : a.ok /\ a.from \in x.votes /\ a.sterm < x.term =>
        a.at + kReadLeaseDurationUs <= warmup'[x.by]
  BY <1>1, <1>2, <1>3 DEF OldLeasesEnd
<1>5. ASSUME NEW q \in leaders', currentTerm'[q] < x.term
      PROVE  /\ expires'[q] <= warmup'[x.by]
             /\ \A f \in DOMAIN ae_sent'[q] \cap x.votes :
                  ae_sent'[q][f] + kReadLeaseDurationUs <= warmup'[x.by]
  BY <1>1, <1>2, <1>3, <1>5 DEF OldLeasesEnd
<1> QED
  BY <1>4, <1>5

--------------------------------------------------------------------------------
(* A step that makes no leader, moves no leader's term and keeps the        *)
(* lease's clocks.                                                          *)
LEMMA PlainLease ==
  ASSUME IInv, LInv, UNCHANGED <<leaders, led, now, ae_sent, expires, warmup>>,
         \A r \in leaders : currentTerm'[r] = currentTerm[r] /\ cand'[r] = cand[r],
         DOMAIN acks' \subseteq DOMAIN acks, Stamps'
  PROVE  LInv'
<1>1. Clocks'
  BY DEF LInv, Clocks
<1>2. Leading'
  BY DEF LInv, Leading
<1>3. Leases'
  BY LeasesKept DEF LInv
<1> QED
  BY <1>1, <1>2, <1>3 DEF LInv

(* The timer's requests are stamped with no time, and who asks is no leader.*)
LEMMA RequestVoteLease ==
  ASSUME IInv, IInv', LInv, NEW r \in Server, RequestVote(r), UNCHANGED leaseVars
  PROVE  LInv'
<1>1. /\ r \notin leaders
      /\ currentTerm' = [currentTerm EXCEPT ![r] = @ + 1]
      /\ UNCHANGED <<leaders, led, now, ae_sent, expires, warmup, acks>>
      /\ \A x \in Server \ {r} : cand'[x] = cand[x]
  BY DEF RequestVote, leaseVars, IInv, ElectionType
<1>2. /\ currentTerm \in [Server -> Nat] /\ currentTerm' \in [Server -> Nat]
      /\ \A x \in Server : currentTerm'[x] >= currentTerm[x]
  BY <1>1 DEF IInv, ElectionType
<1>3. ASSUME NEW s \in Server, NEW d \in Server, NEW i \in DOMAIN chan'[s][d]
      PROVE  \/ \E j \in DOMAIN chan[s][d] : SameStamp(chan'[s][d][i], chan[s][d][j])
             \/ SentBy(chan[s][d][i], s, d)'
  <2> DEFINE vote == [type |-> "Vote", term |-> currentTerm[r] + 1,
                      last |-> Len(log[r]), lterm |-> LastTerm(log[r])]
  <2>1. chan' = [chan EXCEPT ![r] =
                  [y \in Server |-> IF y = r THEN chan[r][y] ELSE Append(chan[r][y], vote)]]
    BY DEF RequestVote
  <2>2. vote.type = "Vote"
    OBVIOUS
  <2> HIDE DEF vote
  <2>3. chan'[s][d] = chan[s][d] \/ chan'[s][d] = Append(chan[s][d], vote)
    BY <2>1 DEF IInv, ElectionType, ChanOK
  <2>4. Requests(chan[s][d])
    BY DEF IInv, ElectionType, ChanOK
  <2>5. chan'[s][d][i] = vote \/ \E j \in DOMAIN chan[s][d] : chan'[s][d][i] = chan[s][d][j]
    BY <2>3, <2>4, Appended
  <2> QED
    BY <2>2, <2>5 DEF SameStamp, SentBy
<1>4. Stamps'
  BY <1>1, <1>2, <1>3, StampsKept DEF LInv, Clocks
<1>5. leaders \subseteq Server
  BY DEF LInv, Clocks
<1> QED
  BY <1>1, <1>2, <1>4, <1>5, PlainLease DEF IInv, ElectionType

(* A candidate that gives up is no leader.                                  *)
LEMMA GiveUpLease ==
  ASSUME IInv, IInv', LInv, NEW r \in Server, GiveUp(r), UNCHANGED leaseVars
  PROVE  LInv'
<1>1. r \notin leaders
  BY DEF GiveUp, LInv, Leading
<1>2. PICK seen \in SUBSET cand[r].no :
        IF No(seen)
        THEN \E t \in {currentTerm[r]} \cup {m.term : m \in seen} :
             /\ t >= currentTerm[r] /\ \A m \in seen : t >= m.term
             /\ currentTerm' = [currentTerm EXCEPT ![r] = t]
        ELSE UNCHANGED currentTerm
  BY DEF GiveUp
<1>3. /\ currentTerm \in [Server -> Nat] /\ currentTerm' \in [Server -> Nat]
      /\ \A t \in {currentTerm[r]} \cup {m.term : m \in seen} : t \in Nat
  BY DEF IInv, ElectionType, Candidacy
<1>4. /\ \A x \in Server : currentTerm'[x] >= currentTerm[x]
      /\ \A x \in Server \ {r} : currentTerm'[x] = currentTerm[x]
  BY <1>2, <1>3
<1>5. /\ UNCHANGED <<leaders, led, now, ae_sent, expires, warmup, chan, acks>>
      /\ \A x \in Server \ {r} : cand'[x] = cand[x]
  BY DEF GiveUp, leaseVars, netVars, IInv, ElectionType
<1>6. Stamps'
  <2>1. \A s, d \in Server : \A i \in DOMAIN chan[s][d] :
          SameStamp(chan[s][d][i], chan[s][d][i])
    BY DEF SameStamp
  <2> QED
    BY <1>3, <1>4, <1>5, <2>1, StampsKept DEF LInv, Clocks
<1>7. leaders \subseteq Server
  BY DEF LInv, Clocks
<1> QED
  BY <1>1, <1>4, <1>5, <1>6, <1>7, PlainLease

(* Steps of the log, of the signals and of replies that are not accepted.   *)
LEMMA QuietLease ==
  ASSUME IInv, LInv, UNCHANGED <<leaders, led, now, currentTerm, cand, chan, leaseVars>>,
         DOMAIN acks' \subseteq DOMAIN acks
  PROVE  LInv'
<1>1. UNCHANGED <<leaders, led, now, ae_sent, expires, warmup, chan, currentTerm, cand>>
  BY DEF leaseVars
<1>2. Stamps'
  BY <1>1 DEF LInv, Stamps, SentBy, Answered
<1> QED
  BY <1>1, <1>2, PlainLease

(* A request is stamped with the time and the term it is sent in.           *)
LEMMA SendLease ==
  ASSUME IInv, LInv, NEW r \in Server, NEW f \in Server, SendAppend(r, f),
         UNCHANGED leaseVars
  PROVE  LInv'
<1>1. /\ UNCHANGED <<leaders, led, now, ae_sent, expires, warmup, currentTerm, cand, acks>>
      /\ r # f
  BY DEF SendAppend, leaseVars
<1>2. PICK m : /\ chan' = [chan EXCEPT ![r][f] = Append(@, m)]
               /\ m.type = "Append" /\ m.term = currentTerm[r]
               /\ "at" \in DOMAIN m /\ m.at = now
  <2> DEFINE last == Len(log[r])
             next == MinOf(peer[r][f].next, last + 1)
             sent == MaxOf(peer[r][f].sent, next - 1)
             prev == MinOf(sent, last)
             m == [type |-> "Append", term |-> currentTerm[r], prev |-> prev,
                   pterm |-> LastTerm(SubSeq(log[r], 1, prev)),
                   commit |-> commit[r],
                   ents |-> SubSeq(log[r], prev + 1, last), at |-> now, late |-> FALSE]
  <2>1. chan' = [chan EXCEPT ![r][f] = Append(@, m)]
    BY DEF SendAppend
  <2>2. /\ m.type = "Append" /\ m.term = currentTerm[r]
        /\ "at" \in DOMAIN m /\ m.at = now
    OBVIOUS
  <2> HIDE DEF m
  <2> QED
    BY <2>1, <2>2
<1>3. ASSUME NEW s \in Server, NEW d \in Server, NEW i \in DOMAIN chan'[s][d]
      PROVE  \/ \E j \in DOMAIN chan[s][d] : SameStamp(chan'[s][d][i], chan[s][d][j])
             \/ SentBy(chan[s][d][i], s, d)'
  <2>1. \/ chan'[s][d] = chan[s][d]
        \/ s = r /\ d = f /\ chan'[s][d] = Append(chan[s][d], m)
    BY <1>2 DEF IInv, ElectionType, ChanOK
  <2>2. Requests(chan[s][d])
    BY DEF IInv, ElectionType, ChanOK
  <2>3. \/ s = r /\ d = f /\ chan'[s][d][i] = m
        \/ \E j \in DOMAIN chan[s][d] : chan'[s][d][i] = chan[s][d][j]
    BY <2>1, <2>2, Appended
  <2>4. now \in Nat /\ currentTerm[r] \in Nat
    BY DEF LInv, Clocks, IInv, ElectionType
  <2>5. CASE s = r /\ d = f /\ chan'[s][d][i] = m
    BY <1>1, <1>2, <2>4, <2>5 DEF SentBy
  <2>6. CASE \E j \in DOMAIN chan[s][d] : chan'[s][d][i] = chan[s][d][j]
    BY <2>6 DEF SameStamp
  <2> QED
    BY <2>3, <2>5, <2>6
<1>4. Stamps'
  BY <1>1, <1>3, StampsKept DEF LInv, Clocks, IInv, ElectionType
<1> QED
  BY <1>1, <1>4, PlainLease

(* A coroutine that gives up changes no stamp.                              *)
LEMMA TimeoutLease ==
  ASSUME IInv, LInv, NEW r \in Server, NEW f \in Server, RpcTimeout(r, f),
         UNCHANGED leaseVars
  PROVE  LInv'
<1>1. UNCHANGED <<leaders, led, now, ae_sent, expires, warmup, currentTerm, cand>>
  BY DEF RpcTimeout, leaseVars
<1>2. CASE \E k \in DOMAIN chan[r][f] :
             chan' = [chan EXCEPT ![r][f][k].late = TRUE] /\ UNCHANGED acks
  <2>1. PICK k \in DOMAIN chan[r][f] :
               chan' = [chan EXCEPT ![r][f][k].late = TRUE] /\ UNCHANGED acks
    BY <1>2
  <2>2. \A s, d \in Server : Requests(chan[s][d])
    BY DEF IInv, ElectionType, ChanOK
  <2> DEFINE z == [chan[r][f] EXCEPT ![k].late = TRUE]
  <2>3. \A s, d \in Server : chan'[s][d] = IF s = r /\ d = f THEN z ELSE chan[s][d]
    BY <2>1 DEF IInv, ElectionType, ChanOK
  <2>4. \A i \in DOMAIN z : \E j \in DOMAIN chan[r][f] : SameStamp(z[i], chan[r][f][j])
    BY <2>2, LateStamp
  <2> HIDE DEF z
  <2>5. ASSUME NEW s \in Server, NEW d \in Server, NEW i \in DOMAIN chan'[s][d]
        PROVE  \E j \in DOMAIN chan[s][d] : SameStamp(chan'[s][d][i], chan[s][d][j])
    BY <2>3, <2>4 DEF SameStamp
  <2>6. /\ now' \in Nat /\ now' >= now /\ currentTerm' \in [Server -> Nat]
        /\ \A x \in Server : currentTerm'[x] >= currentTerm[x]
    BY <1>1 DEF LInv, Clocks, IInv, ElectionType
  <2>7. Stamps'
    BY <2>1, <2>5, <2>6, StampsKept DEF LInv
  <2> QED
    BY <1>1, <2>1, <2>7, PlainLease
<1>3. CASE \E a \in DOMAIN acks : TakeAck(a) /\ UNCHANGED chan
  <2>1. DOMAIN acks' \subseteq DOMAIN acks /\ UNCHANGED chan
    BY <1>3 DEF TakeAck, BagRemove
  <2> QED
    BY <1>1, <2>1, QuietLease
<1> QED
  BY <1>2, <1>3 DEF RpcTimeout

--------------------------------------------------------------------------------
(* setIsLeader keeps the clocks sound, and leaves those alone whose role    *)
(* does not change.                                                         *)
LEMMA RolesClocks ==
  ASSUME Clocks, SetIsLeader, leaders' \subseteq Server, UNCHANGED now
  PROVE  /\ Clocks'
         /\ \A r \in leaders \cap leaders' : /\ warmup'[r] = warmup[r]
                                             /\ expires'[r] = expires[r]
                                             /\ ae_sent'[r] = ae_sent[r]
         /\ \A r \in leaders' \ leaders : /\ warmup'[r] = now + kReadLeaseDurationUs
                                          /\ expires'[r] = 0
                                          /\ ae_sent'[r] = << >>
<1> DEFINE turned == (leaders \ leaders') \cup (leaders' \ leaders)
<1>1. /\ DOMAIN ae_sent' = Server /\ DOMAIN expires' = Server /\ DOMAIN warmup' = Server
      /\ \A r \in Server :
           /\ ae_sent'[r] = IF r \in turned THEN << >> ELSE ae_sent[r]
           /\ expires'[r] = IF r \in turned THEN 0 ELSE expires[r]
           /\ warmup'[r] = IF r \notin turned THEN warmup[r]
                           ELSE IF r \in leaders' THEN WarmUp ELSE 0
  BY DEF SetIsLeader
<1>2. now \in Nat /\ kReadLeaseDurationUs \in Nat /\ WarmUp = now + kReadLeaseDurationUs
  BY LeaseAssumption DEF LeaseAssumption, Clocks, WarmUp
<1>3. leaders \subseteq Server
  BY DEF Clocks
<1>4. warmup' \in [Server -> Nat] /\ expires' \in [Server -> Nat]
  <2>1. warmup' = [r \in Server |-> warmup'[r]] /\ expires' = [r \in Server |-> expires'[r]]
    BY DEF SetIsLeader
  <2>2. \A r \in Server : warmup'[r] \in Nat /\ expires'[r] \in Nat
    BY <1>1, <1>2 DEF Clocks
  <2> QED
    BY <2>1, <2>2
<1>5. ASSUME NEW r \in Server
      PROVE  /\ expires'[r] <= now + kReadLeaseDurationUs
             /\ DOMAIN ae_sent'[r] \subseteq Server \ {r}
             /\ \A f \in DOMAIN ae_sent'[r] : ae_sent'[r][f] \in Nat /\ ae_sent'[r][f] <= now
  <2>1. CASE r \in turned
    <3>1. expires'[r] = 0 /\ ae_sent'[r] = << >> /\ DOMAIN ae_sent'[r] = {}
      BY <1>1, <2>1
    <3> QED
      BY <1>2, <3>1
  <2>2. CASE r \notin turned
    BY <1>1, <2>2 DEF Clocks
  <2> QED
    BY <2>1, <2>2
<1>6. Clocks'
  BY <1>1, <1>2, <1>4, <1>5 DEF Clocks
<1> QED
  BY <1>1, <1>2, <1>3, <1>6

(* A leader that steps down leaves fewer leases.                            *)
LEMMA DemoteLease ==
  ASSUME IInv, LInv, NEW r \in Server, Demote(r), SetIsLeader
  PROVE  LInv'
<1>1. /\ leaders' = leaders \ {r}
      /\ UNCHANGED <<now, currentTerm, cand, led, chan, acks>>
  BY DEF Demote, netVars
<1>2. leaders' \subseteq Server
  BY <1>1 DEF LInv, Clocks
<1>3. /\ Clocks'
      /\ \A x \in leaders' : /\ warmup'[x] = warmup[x]
                             /\ expires'[x] = expires[x]
                             /\ ae_sent'[x] = ae_sent[x]
  BY <1>1, <1>2, RolesClocks DEF LInv
<1>4. Stamps' /\ Leading'
  BY <1>1 DEF LInv, Stamps, SentBy, Answered, Leading
<1>5. Leases'
  BY <1>1, <1>3, LeasesKept DEF LInv
<1> QED
  BY <1>3, <1>4, <1>5 DEF LInv

(* So does one that learns of a newer term from a reply.                    *)
LEMMA NewerTermLease ==
  ASSUME IInv, IInv', LInv, NEW a \in DOMAIN acks, AckNewerTerm(a), SetIsLeader
  PROVE  LInv'
<1>1. a.to \in Server /\ a.term \in Nat /\ a.sterm \in Nat
  BY DEF IInv, ElectionType, AcksOK
<1>2. /\ leaders' = leaders \ {a.to}
      /\ currentTerm' = [currentTerm EXCEPT ![a.to] = a.term]
      /\ a.term > a.sterm /\ ~(currentTerm[a.to] > a.sterm)
      /\ UNCHANGED <<now, cand, led, chan>>
      /\ DOMAIN acks' \subseteq DOMAIN acks
  BY DEF AckNewerTerm, Ignored, TakeAck, BagRemove
<1>3. /\ currentTerm \in [Server -> Nat] /\ currentTerm' \in [Server -> Nat]
      /\ \A x \in Server : currentTerm'[x] >= currentTerm[x]
      /\ \A x \in leaders' : currentTerm'[x] = currentTerm[x]
  BY <1>1, <1>2 DEF IInv, ElectionType, LInv, Clocks
<1>4. leaders' \subseteq Server
  BY <1>2 DEF LInv, Clocks
<1>5. /\ Clocks'
      /\ \A x \in leaders' : /\ warmup'[x] = warmup[x]
                             /\ expires'[x] = expires[x]
                             /\ ae_sent'[x] = ae_sent[x]
  BY <1>2, <1>4, RolesClocks DEF LInv
<1>6. Stamps'
  <2>1. \A s, d \in Server : \A i \in DOMAIN chan[s][d] :
          SameStamp(chan[s][d][i], chan[s][d][i])
    BY DEF SameStamp
  <2> QED
    BY <1>2, <1>3, <2>1, StampsKept DEF LInv, Clocks
<1>7. Leading'
  BY <1>2, <1>3 DEF LInv, Leading
<1>8. Leases'
  BY <1>2, <1>3, <1>5, LeasesKept DEF LInv
<1> QED
  BY <1>5, <1>6, <1>7, <1>8 DEF LInv

(* A vote request: a leader that grants it steps down, and one that is      *)
(* lifted into its term was not elected.                                    *)
LEMMA VoteLease ==
  ASSUME IInv, IInv', LInv, NEW s \in Server, NEW d \in Server, NEW m, m.term \in Nat,
         m.term > 0, OnRequestVote(s, d, m), SetIsLeader,
         \A x, y \in Server : \A i \in DOMAIN chan'[x][y] :
           \E j \in DOMAIN chan[x][y] : SameStamp(chan'[x][y][i], chan[x][y][j])
  PROVE  LInv'
<1>1. /\ currentTerm' = [currentTerm EXCEPT ![d] = MaxOf(@, m.term)]
      /\ leaders' = IF Grants(d, m) THEN leaders \ {d} ELSE leaders
      /\ UNCHANGED <<now, acks>>
  BY DEF OnRequestVote
<1>2. /\ currentTerm \in [Server -> Nat] /\ currentTerm' \in [Server -> Nat]
      /\ \A x \in Server : currentTerm'[x] >= currentTerm[x]
      /\ \A x \in Server \ {d} : currentTerm'[x] = currentTerm[x]
      /\ currentTerm'[d] = currentTerm[d] \/ (currentTerm'[d] = m.term /\ m.term > currentTerm[d])
  BY <1>1 DEF MaxOf, IInv, ElectionType
<1>3. leaders' \subseteq leaders /\ leaders' \subseteq Server
  BY <1>1 DEF LInv, Clocks
<1>4. /\ Clocks'
      /\ \A x \in leaders' : /\ warmup'[x] = warmup[x]
                             /\ expires'[x] = expires[x]
                             /\ ae_sent'[x] = ae_sent[x]
  BY <1>1, <1>3, RolesClocks DEF LInv
<1>5. Stamps'
  <2>1. now' \in Nat /\ now' >= now
    BY <1>1 DEF LInv, Clocks
  <2> QED
    BY <1>1, <1>2, <2>1, StampsKept DEF LInv
<1>6. \A x \in leaders' : cand'[x] = NoCand
  <2>1. cand[s].term = m.term => s \notin leaders
    BY DEF LInv, Leading, NoCand
  <2>2. \A x \in Server : cand'[x] = cand[x] \/ (x = s /\ cand[s].term = m.term)
    BY DEF OnRequestVote, IInv, ElectionType
  <2> QED
    BY <1>3, <2>1, <2>2 DEF LInv, Leading
<1>7. CASE d \in leaders' /\ m.term > currentTerm[d]
  <2> DEFINE new == [term |-> m.term, by |-> d, votes |-> {}]
  <2>1. led' = led \cup {new}
    BY <1>7 DEF OnRequestVote
  <2>2. new.term = m.term /\ new.by = d /\ ~Won(new)
    BY DEF Won
  <2> HIDE DEF new
  <2>3. ~LeadersElected'
    <3>1. new \in led' /\ ~Won(new)
      BY <2>1, <2>2
    <3> QED
      BY <3>1 DEF LeadersElected, Won
  <2>4. currentTerm'[d] = m.term
    BY <1>1, <1>2, <1>7 DEF MaxOf
  <2>5. Leading'
    BY <1>2, <1>3, <1>6, <2>1, <2>2, <2>4 DEF LInv, Leading
  <2> QED
    BY <1>4, <1>5, <2>3, <2>5 DEF LInv, Leases
<1>8. CASE ~(d \in leaders' /\ m.term > currentTerm[d])
  <2>1. led' = led
    BY <1>8 DEF OnRequestVote
  <2>2. \A x \in leaders' : currentTerm'[x] = currentTerm[x]
    BY <1>2, <1>3, <1>8
  <2>3. Leading'
    BY <1>3, <1>6, <2>1, <2>2 DEF LInv, Leading
  <2>4. Leases'
    BY <1>1, <1>3, <1>4, <2>1, <2>2, LeasesKept DEF LInv
  <2> QED
    BY <1>4, <1>5, <2>3, <2>4 DEF LInv
<1> QED
  BY <1>7, <1>8

(* An AppendEntries request is answered by a server that has not voted in a *)
(* newer term, and the answer keeps the request's stamp.                    *)
LEMMA AppendLease ==
  ASSUME IInv, IInv', LInv, NEW s \in Server, NEW d \in Server, NEW m, m.term \in Nat,
         m.type = "Append", SentBy(m, s, d), OnAppendEntries(s, d, m), SetIsLeader,
         \A x, y \in Server : \A i \in DOMAIN chan'[x][y] :
           \E j \in DOMAIN chan[x][y] : SameStamp(chan'[x][y][i], chan[x][y][j])
  PROVE  LInv'
<1>1. UNCHANGED <<now, cand, led>>
  BY DEF OnAppendEntries
<1>2. PICK a : /\ acks' = acks \/ acks' = BagAdd(acks, a)
               /\ a.to = s /\ a.from = d /\ a.sterm = m.term /\ a.at = m.at
               /\ a.ok = Accepts(d, m)
  <2> DEFINE b == [to |-> s, from |-> d, sterm |-> m.term, at |-> m.at, hb |-> m.ents = << >>,
                   ok |-> Accepts(d, m), term |-> currentTerm'[d], last |-> Len(log'[d])]
  <2>1. acks' = acks \/ acks' = BagAdd(acks, b)
    BY DEF OnAppendEntries
  <2>2. b.to = s /\ b.from = d /\ b.sterm = m.term /\ b.at = m.at /\ b.ok = Accepts(d, m)
    OBVIOUS
  <2> HIDE DEF b
  <2> QED
    BY <2>1, <2>2
<1>3. \A b \in DOMAIN acks' : b \in DOMAIN acks \/ b = a
  BY <1>2 DEF BagAdd
<1>4. currentTerm \in [Server -> Nat] /\ currentTerm' \in [Server -> Nat] /\ now \in Nat
  BY DEF IInv, ElectionType, LInv, Clocks
<1>5. /\ \A x \in Server : currentTerm'[x] >= currentTerm[x]
      /\ leaders' \subseteq leaders
      /\ \A x \in leaders' : currentTerm'[x] = currentTerm[x]
  <2>1. CASE Accepts(d, m)
    <3>1. /\ currentTerm' = [currentTerm EXCEPT ![d] = m.term] /\ m.term >= currentTerm[d]
          /\ leaders' = IF m.term > currentTerm[d] THEN leaders \ {d} ELSE leaders
      BY <2>1 DEF OnAppendEntries, Accepts
    <3>2. leaders \subseteq Server
      BY DEF LInv, Clocks
    <3> QED
      BY <1>4, <3>1, <3>2
  <2>2. CASE ~Accepts(d, m)
    BY <1>4, <2>2 DEF OnAppendEntries
  <2> QED
    BY <2>1, <2>2
<1>6. leaders' \subseteq Server
  BY <1>5 DEF LInv, Clocks
<1>7. /\ Clocks'
      /\ \A x \in leaders' : /\ warmup'[x] = warmup[x]
                             /\ expires'[x] = expires[x]
                             /\ ae_sent'[x] = ae_sent[x]
  BY <1>1, <1>5, <1>6, RolesClocks DEF LInv
<1>8. Answered(a)'
  <2>1. /\ s # d /\ m.at \in Nat /\ m.at <= now /\ m.term <= currentTerm[s]
    BY DEF SentBy
  <2>2. currentTerm'[s] >= currentTerm[s] /\ currentTerm[s] \in Nat /\ currentTerm'[s] \in Nat
    BY <1>4, <1>5
  <2> QED
    BY <1>1, <1>2, <2>1, <2>2 DEF Answered
<1>9. Stamps'
  <2>1. now' \in Nat /\ now' >= now
    BY <1>1, <1>4
  <2> QED
    BY <1>3, <1>4, <1>5, <1>8, <2>1, StampsKept DEF LInv
<1>10. Leading'
  BY <1>1, <1>5 DEF LInv, Leading
<1>11. a.ok => \A x \in led : Won(x) /\ a.from \in x.votes => ~(a.sterm < x.term)
  <2> SUFFICES ASSUME Accepts(d, m), NEW x \in led, Won(x), d \in x.votes
               PROVE  ~(m.term < x.term)
    BY <1>2
  <2>1. m.term >= currentTerm[d] /\ currentTerm[d] >= x.term /\ x.term \in Nat
    BY DEF Accepts, IInv, ElectionType, VoteInv, WinnersHaveMajority
  <2> QED
    BY <1>4, <2>1
<1>12. Leases'
  BY <1>1, <1>3, <1>5, <1>7, <1>11, LeasesKept DEF LInv
<1> QED
  BY <1>7, <1>9, <1>10, <1>12 DEF LInv

(* A new leader: nothing was sent after now, so every lease ends with the   *)
(* warm-up; its own lease has not begun.                                    *)
LEMMA WinLease ==
  ASSUME IInv, LInv, NEW r \in Server, Win(r), SetIsLeader
  PROVE  LInv'
<1> DEFINE new == [term |-> currentTerm[r], by |-> r, votes |-> cand[r].yes \cup {r}]
<1>1. /\ leaders' = leaders \cup {r}
      /\ led' = led \cup {new}
      /\ cand' = [cand EXCEPT ![r] = NoCand]
      /\ UNCHANGED <<now, currentTerm, chan, acks>>
  BY DEF Win, netVars
<1>2. new.term = currentTerm[r] /\ new.by = r
  OBVIOUS
<1> HIDE DEF new
<1>3. r \notin leaders /\ leaders \subseteq Server
  BY DEF Win, LInv, Leading, Clocks
<1>4. /\ Clocks'
      /\ \A x \in leaders : /\ warmup'[x] = warmup[x]
                            /\ expires'[x] = expires[x]
                            /\ ae_sent'[x] = ae_sent[x]
      /\ warmup'[r] = now + kReadLeaseDurationUs
      /\ expires'[r] = 0
      /\ ae_sent'[r] = << >>
  BY <1>1, <1>3, RolesClocks DEF LInv
<1>5. Stamps'
  BY <1>1 DEF LInv, Stamps, SentBy, Answered
<1>6. Leading'
  <2>1. \A x \in Server : cand'[x] = IF x = r THEN NoCand ELSE cand[x]
    BY <1>1 DEF IInv, ElectionType
  <2> QED
    BY <1>1, <1>2, <1>3, <2>1 DEF LInv, Leading
<1>7. ASSUME LeadersElected', NEW x \in led', InOffice(x)'
      PROVE  /\ \A a \in DOMAIN acks' : a.ok /\ a.from \in x.votes /\ a.sterm < x.term =>
                  a.at + kReadLeaseDurationUs <= warmup'[x.by]
             /\ \A q \in leaders' : currentTerm'[q] < x.term =>
                  /\ expires'[q] <= warmup'[x.by]
                  /\ \A f \in DOMAIN ae_sent'[q] \cap x.votes :
                       ae_sent'[q][f] + kReadLeaseDurationUs <= warmup'[x.by]
  <2>1. now \in Nat /\ kReadLeaseDurationUs \in Nat
    BY LeaseAssumption DEF LeaseAssumption, LInv, Clocks
  <2>2. CASE x.by = r
    <3>1. warmup'[x.by] = now + kReadLeaseDurationUs
      BY <1>4, <2>2
    <3>2. \A a \in DOMAIN acks' : a.at \in Nat /\ a.at <= now
      BY <1>1, <1>5 DEF Stamps, Answered
    <3>3. \A q \in leaders' : /\ expires'[q] <= now + kReadLeaseDurationUs
                              /\ \A f \in DOMAIN ae_sent'[q] :
                                   ae_sent'[q][f] \in Nat /\ ae_sent'[q][f] <= now
      BY <1>1, <1>4 DEF Clocks
    <3> QED
      BY <2>1, <3>1, <3>2, <3>3
  <2>3. CASE x.by # r
    <3>1. x \in led /\ InOffice(x) /\ x.by \in leaders
      BY <1>1, <1>2, <1>7, <2>3 DEF InOffice
    <3>2. OldLeasesEnd
      BY <1>1, <1>7 DEF LeadersElected, Won, LInv, Leases
    <3>3. warmup'[x.by] = warmup[x.by] /\ warmup[x.by] \in Nat
      BY <1>3, <1>4, <3>1 DEF LInv, Clocks
    <3>4. \A a \in DOMAIN acks' : a.ok /\ a.from \in x.votes /\ a.sterm < x.term =>
            a.at + kReadLeaseDurationUs <= warmup'[x.by]
      BY <1>1, <3>1, <3>2, <3>3 DEF OldLeasesEnd
    <3>5. ASSUME NEW q \in leaders', currentTerm'[q] < x.term
          PROVE  /\ expires'[q] <= warmup'[x.by]
                 /\ \A f \in DOMAIN ae_sent'[q] \cap x.votes :
                      ae_sent'[q][f] + kReadLeaseDurationUs <= warmup'[x.by]
      <4>1. CASE q = r
        <5>1. expires'[q] = 0 /\ DOMAIN ae_sent'[q] = {}
          BY <1>4, <4>1
        <5> QED
          BY <3>3, <5>1
      <4>2. CASE q # r
        <5>1. q \in leaders /\ expires'[q] = expires[q] /\ ae_sent'[q] = ae_sent[q]
          BY <1>1, <1>4, <4>2
        <5>2. currentTerm[q] < x.term
          BY <1>1, <3>5
        <5> QED
          BY <3>1, <3>2, <3>3, <5>1, <5>2 DEF OldLeasesEnd
      <4> QED
        BY <4>1, <4>2
    <3> QED
      BY <3>4, <3>5
  <2> QED
    BY <2>2, <2>3
<1>8. Leases'
  BY <1>7 DEF Leases, OldLeasesEnd
<1> QED
  BY <1>4, <1>5, <1>6, <1>8 DEF LInv

(* The followers behind a renewed lease and the votes of a newer leader     *)
(* meet, and not in the renewing leader, which is in its own term still.    *)
LEMMA RenewEnds ==
  ASSUME IInv, NEW r \in Server, NEW F \in SUBSET (Server \ {r}),
         Cardinality(F) >= N \div 2, NEW x \in led, Won(x), currentTerm[r] < x.term
  PROVE  \E f \in F : f \in x.votes
<1>1. IsFiniteSet(Server) /\ F \subseteq Server /\ N = Cardinality(Server)
  BY RaftAssumption DEF RaftAssumption, N
<1>2. IsFiniteSet(F) /\ Cardinality(F) \in Nat /\ N \in Nat
  BY <1>1, FS_Subset, FS_CardinalityType
<1>3. /\ x.votes \subseteq Server /\ Cardinality(x.votes) > N \div 2
      /\ \A d \in x.votes : currentTerm[d] >= x.term
      /\ x.term \in Nat /\ currentTerm \in [Server -> Nat]
  BY DEF IInv, ElectionType, VoteInv, WinnersHaveMajority
<1>4. r \notin x.votes
  BY <1>3
<1>5. Cardinality(F \cup {r}) = Cardinality(F) + 1
  BY <1>2, FS_AddElement
<1>6. Cardinality(x.votes) \in Nat
  BY <1>1, <1>3, FS_Subset, FS_CardinalityType
<1>7. Cardinality(F \cup {r}) + Cardinality(x.votes) > N
  BY <1>2, <1>3, <1>5, <1>6
<1>8. (F \cup {r}) \cap x.votes # {}
  BY <1>1, <1>3, <1>7, FS_MajoritiesIntersect
<1> QED
  BY <1>4, <1>8

(* An accepted heartbeat of the current term renews the lease.              *)
LEMMA RenewLease ==
  ASSUME IInv, LInv, NEW m \in DOMAIN acks, Renew(m)
  PROVE  LInv'
<1> DEFINE r == m.to
           times == [f \in DOMAIN ae_sent[r] \cup {m.from} |->
                       IF f = m.from THEN m.at ELSE ae_sent[r][f]]
<1>1. /\ ~(currentTerm[r] > m.sterm) /\ m.ok
      /\ UNCHANGED <<leaders, led, now, currentTerm, cand, chan, warmup>>
      /\ DOMAIN acks' \subseteq DOMAIN acks
  BY DEF Renew, AckAccepted, Ignored, TakeAck, BagRemove
<1>2. /\ r \in Server /\ m.sterm \in Nat /\ m.from \in Server \ {r}
      /\ m.at \in Nat /\ m.at <= now /\ m.sterm = currentTerm[r]
  <2>1. r \in Server /\ m.sterm \in Nat /\ Answered(m) /\ currentTerm[r] \in Nat
    BY DEF IInv, ElectionType, AcksOK, LInv, Stamps
  <2> QED
    BY <1>1, <2>1 DEF Answered
<1>3. Stamps' /\ Leading'
  BY <1>1 DEF LInv, Stamps, SentBy, Answered, Leading
<1>4. CASE r \notin leaders
  <2>1. UNCHANGED leaseVars
    BY <1>4 DEF Renew, leaseVars
  <2> QED
    BY <1>1, <2>1, QuietLease
<1>5. CASE r \in leaders
  <2>1. /\ ae_sent' = [ae_sent EXCEPT ![r] = times]
        /\ expires' = [expires EXCEPT ![r] = RecomputeLease(@, times)]
    BY <1>5 DEF Renew
  <2>2. /\ DOMAIN times = DOMAIN ae_sent[r] \cup {m.from}
        /\ times[m.from] = m.at
        /\ \A f \in DOMAIN times : f = m.from \/ times[f] = ae_sent[r][f]
    OBVIOUS
  <2> HIDE DEF times
  <2>3. /\ now \in Nat /\ kReadLeaseDurationUs \in Nat /\ warmup \in [Server -> Nat]
        /\ expires \in [Server -> Nat] /\ DOMAIN ae_sent = Server
        /\ expires[r] <= now + kReadLeaseDurationUs
        /\ leaders \subseteq Server
        /\ DOMAIN times \subseteq Server \ {r}
        /\ \A f \in DOMAIN times : times[f] \in Nat /\ times[f] <= now
    BY <1>2, <2>2, LeaseAssumption DEF LeaseAssumption, LInv, Clocks
  <2> DEFINE new == RecomputeLease(expires[r], times)
             F == {f \in DOMAIN times : times[f] >= Anchor(times)}
  <2>4. Cardinality(DOMAIN times) \in Nat /\ N \in Nat
    <3>1. IsFiniteSet(Server) /\ DOMAIN times \subseteq Server
      BY <2>3, RaftAssumption DEF RaftAssumption
    <3> QED
      BY <3>1, FS_Subset, FS_CardinalityType DEF N
  <2>5. ASSUME ~(Cardinality(DOMAIN times) < N \div 2)
        PROVE  /\ Anchor(times) \in Nat /\ Anchor(times) <= now
               /\ Cardinality(F) >= N \div 2
    <3>1. /\ DOMAIN times \in SUBSET Server /\ DOMAIN times # {}
          /\ Cardinality(DOMAIN times) >= N \div 2
      BY <2>2, <2>3, <2>4, <2>5
    <3> QED
      BY <2>3, <3>1, AnchorIs
  <2>6. \/ new = 0
        \/ new = expires[r]
        \/ /\ new = Anchor(times) + kReadLeaseDurationUs
           /\ ~(Cardinality(DOMAIN times) < N \div 2)
    BY DEF RecomputeLease, MaxOf
  <2>7. /\ \A q \in Server : expires'[q] = IF q = r THEN new ELSE expires[q]
        /\ \A q \in Server : ae_sent'[q] = IF q = r THEN times ELSE ae_sent[q]
        /\ DOMAIN expires' = Server /\ DOMAIN ae_sent' = Server
    BY <1>2, <2>1, <2>3
  <2>8. new \in Nat /\ new <= now + kReadLeaseDurationUs
    <3> HIDE DEF new
    <3> QED
      BY <1>2, <2>3, <2>5, <2>6
  <2>9. expires' = [expires EXCEPT ![r] = new]
    BY <1>2, <2>1, <2>3
  <2> HIDE DEF new, F
  <2>10. Clocks'
    <3>1. expires' \in [Server -> Nat]
      BY <2>3, <2>8, <2>9
    <3>2. \A q \in Server :
            /\ expires'[q] <= now + kReadLeaseDurationUs
            /\ DOMAIN ae_sent'[q] \subseteq Server \ {q}
            /\ \A f \in DOMAIN ae_sent'[q] : ae_sent'[q][f] \in Nat /\ ae_sent'[q][f] <= now
      BY <2>3, <2>7, <2>8 DEF LInv, Clocks
    <3> QED
      BY <1>1, <2>3, <2>7, <3>1, <3>2 DEF Clocks
  <2>11. ASSUME LeadersElected', NEW x \in led', InOffice(x)'
         PROVE  /\ \A a \in DOMAIN acks' : a.ok /\ a.from \in x.votes /\ a.sterm < x.term =>
                     a.at + kReadLeaseDurationUs <= warmup'[x.by]
                /\ \A q \in leaders' : currentTerm'[q] < x.term =>
                     /\ expires'[q] <= warmup'[x.by]
                     /\ \A f \in DOMAIN ae_sent'[q] \cap x.votes :
                          ae_sent'[q][f] + kReadLeaseDurationUs <= warmup'[x.by]
    <3>1. x \in led /\ Won(x) /\ InOffice(x) /\ LeadersElected
      BY <1>1, <2>11 DEF LeadersElected, Won, InOffice
    <3>2. OldLeasesEnd
      BY <3>1 DEF LInv, Leases
    <3>3. warmup'[x.by] = warmup[x.by] /\ warmup[x.by] \in Nat
      BY <1>1, <2>3, <3>1 DEF InOffice
    <3>4. \A a \in DOMAIN acks' : a.ok /\ a.from \in x.votes /\ a.sterm < x.term =>
            a.at + kReadLeaseDurationUs <= warmup'[x.by]
      BY <1>1, <3>1, <3>2, <3>3 DEF OldLeasesEnd
    <3>5. ASSUME NEW q \in leaders', currentTerm'[q] < x.term, q # r
          PROVE  /\ expires'[q] <= warmup'[x.by]
                 /\ \A f \in DOMAIN ae_sent'[q] \cap x.votes :
                      ae_sent'[q][f] + kReadLeaseDurationUs <= warmup'[x.by]
      <4>1. /\ q \in leaders /\ currentTerm[q] < x.term
            /\ expires'[q] = expires[q] /\ ae_sent'[q] = ae_sent[q]
        BY <1>1, <2>3, <2>7, <3>5
      <4> QED
        BY <3>1, <3>2, <3>3, <4>1 DEF OldLeasesEnd
    <3>6. ASSUME currentTerm[r] < x.term
          PROVE  /\ \A f \in DOMAIN times \cap x.votes :
                      times[f] + kReadLeaseDurationUs <= warmup[x.by]
                 /\ new <= warmup[x.by]
      <4>1. ASSUME NEW f \in DOMAIN times, f \in x.votes
            PROVE  times[f] + kReadLeaseDurationUs <= warmup[x.by]
        <5>1. CASE f = m.from
          BY <1>1, <1>2, <2>2, <3>1, <3>2, <3>6, <4>1, <5>1 DEF OldLeasesEnd
        <5>2. CASE f # m.from
          BY <1>5, <2>2, <3>1, <3>2, <3>6, <4>1, <5>2 DEF OldLeasesEnd
        <5> QED
          BY <5>1, <5>2
      <4>2. expires[r] <= warmup[x.by]
        BY <1>5, <3>1, <3>2, <3>6 DEF OldLeasesEnd
      <4>3. CASE ~(Cardinality(DOMAIN times) < N \div 2)
        <5>1. /\ Anchor(times) \in Nat /\ F \in SUBSET (Server \ {r})
              /\ Cardinality(F) >= N \div 2
          BY <2>3, <2>5, <4>3 DEF F
        <5>2. PICK f \in F : f \in x.votes
          BY <1>2, <3>1, <3>6, <5>1, RenewEnds
        <5>3. f \in DOMAIN times /\ times[f] >= Anchor(times)
          BY DEF F
        <5>4. times[f] + kReadLeaseDurationUs <= warmup[x.by] /\ times[f] \in Nat
          BY <2>3, <4>1, <5>2, <5>3
        <5>5. Anchor(times) + kReadLeaseDurationUs <= warmup[x.by]
          BY <2>3, <3>3, <5>1, <5>3, <5>4
        <5> QED
          BY <2>6, <3>3, <4>1, <4>2, <5>5
      <4> QED
        BY <2>6, <3>3, <4>1, <4>2, <4>3
    <3> QED
      BY <1>1, <1>2, <2>7, <3>3, <3>4, <3>5, <3>6
  <2>12. Leases'
    BY <2>11 DEF Leases, OldLeasesEnd
  <2> QED
    BY <1>3, <2>10, <2>12 DEF LInv
<1> QED
  BY <1>4, <1>5

--------------------------------------------------------------------------------
(* Time passes: nothing is stamped anew.                                    *)
LEMMA TickLease ==
  ASSUME IInv, LInv, Tick
  PROVE  IInv' /\ LInv'
<1>1. /\ now' = now + 1
      /\ UNCHANGED <<leaders, led, currentTerm, cand, chan, acks, ae_sent, expires, warmup>>
  BY DEF Tick, netVars, leaseVars
<1>2. IInv'
  <2>1. VoteInv'
    BY <1>1, QuietStep DEF IInv, ElectionType
  <2> QED
    BY <1>1, <2>1 DEF IInv, ElectionType
<1>3. now \in Nat /\ kReadLeaseDurationUs \in Nat
  BY LeaseAssumption DEF LeaseAssumption, LInv, Clocks
<1>4. Clocks'
  BY <1>1, <1>3 DEF LInv, Clocks
<1>5. Stamps'
  BY <1>1, <1>3 DEF LInv, Stamps, SentBy, Answered
<1>6. Leading'
  BY <1>1 DEF LInv, Leading
<1>7. Leases'
  BY <1>1, LeasesKept DEF LInv
<1> QED
  BY <1>2, <1>4, <1>5, <1>6, <1>7 DEF LInv

(* Steps that keep the lease's clocks.                                      *)
LEMMA PlainStepLease ==
  ASSUME IInv, IInv', LInv, PlainStep
  PROVE  LInv'
<1>1. UNCHANGED leaseVars
  BY DEF PlainStep
<1>2. CASE \E r \in Server : RequestVote(r)
  BY <1>1, <1>2, RequestVoteLease
<1>3. CASE \E r \in Server : GiveUp(r)
  BY <1>1, <1>3, GiveUpLease
<1>4. CASE \E r, f \in Server : SendAppend(r, f)
  BY <1>1, <1>4, SendLease
<1>5. CASE \E r, f \in Server : RpcTimeout(r, f)
  BY <1>1, <1>5, TimeoutLease
<1>6. CASE \/ \E r \in Server : AdvanceCommit(r)
           \/ \E h \in Host : Failover(h)
           \/ \E r \in Server, c \in Cmd : Start(r, c)
           \/ \E m \in DOMAIN acks : AckIgnored(m) \/ AckRejected(m) \/ RpcError(m)
  <2>1. /\ UNCHANGED <<leaders, led, now, currentTerm, cand, chan>>
        /\ DOMAIN acks' \subseteq DOMAIN acks
    BY <1>6 DEF AdvanceCommit, Failover, Start, AckIgnored, AckRejected, RpcError,
                netVars, TakeAck, BagRemove
  <2> QED
    BY <1>1, <2>1, QuietLease
<1> QED
  BY <1>2, <1>3, <1>4, <1>5, <1>6 DEF PlainStep

(* Steps that end in setIsLeader.                                           *)
LEMMA RoleStepLease ==
  ASSUME IInv, IInv', LInv, RoleStep
  PROVE  LInv'
<1>1. SetIsLeader
  BY DEF RoleStep
<1>2. CASE \E r \in Server : Win(r)
  BY <1>1, <1>2, WinLease
<1>3. CASE \E r \in Server : Demote(r)
  BY <1>1, <1>3, DemoteLease
<1>4. CASE \E m \in DOMAIN acks : AckNewerTerm(m)
  BY <1>1, <1>4, NewerTermLease
<1>5. CASE \E s, d \in Server : Deliver(s, d)
  <2>1. PICK s \in Server, d \in Server : Deliver(s, d)
    BY <1>5
  <2> DEFINE m == Head(chan[s][d])
  <2>2. /\ chan' = [chan EXCEPT ![s][d] = Tail(@)] /\ chan[s][d] # << >>
        /\ \/ m.type = "Vote" /\ OnRequestVote(s, d, m)
           \/ m.type = "Append" /\ OnAppendEntries(s, d, m)
    BY <2>1 DEF Deliver
  <2>3. Requests(chan[s][d])
    BY DEF IInv, ElectionType, ChanOK
  <2>4. m.term \in Nat /\ (m.type = "Vote" => m.term > 0)
    BY <2>2, <2>3, RequestsTail
  <2>5. SentBy(m, s, d)
    BY <2>2, <2>3, Behind DEF LInv, Stamps
  <2>6. \A x, y \in Server :
          chan'[x][y] = IF x = s /\ y = d THEN Tail(chan[s][d]) ELSE chan[x][y]
    BY <2>2 DEF IInv, ElectionType, ChanOK
  <2>7. ASSUME NEW x \in Server, NEW y \in Server, NEW i \in DOMAIN chan'[x][y]
        PROVE  \E j \in DOMAIN chan[x][y] : SameStamp(chan'[x][y][i], chan[x][y][j])
    <3>1. \E j \in DOMAIN chan[x][y] : chan'[x][y][i] = chan[x][y][j]
      BY <2>2, <2>3, <2>6, Behind
    <3> QED
      BY <3>1 DEF SameStamp
  <2> HIDE DEF m
  <2> QED
    BY <1>1, <2>2, <2>4, <2>5, <2>7, VoteLease, AppendLease
<1> QED
  BY <1>2, <1>3, <1>4, <1>5 DEF RoleStep

(* Every step of the servers, of the network and of time.                   *)
LEMMA LInvStep == IInv /\ LInv /\ [LeaseNext]_<<vars, leaseVars>> => IInv' /\ LInv'
<1> SUFFICES ASSUME IInv, LInv, [LeaseNext]_<<vars, leaseVars>>
             PROVE  IInv' /\ LInv'
  OBVIOUS
<1>1. CASE Tick
  BY <1>1, TickLease
<1>2. CASE PlainStep
  <2>1. Next
    BY <1>2 DEF PlainStep, Next, HandleAck
  <2> QED
    BY <1>2, <2>1, IInvStep, PlainStepLease
<1>3. CASE RoleStep
  <2>1. Next
    BY <1>3 DEF RoleStep, Next, HandleAck
  <2> QED
    BY <1>3, <2>1, IInvStep, RoleStepLease
<1>4. CASE \E m \in DOMAIN acks : Renew(m)
  <2>1. Next
    BY <1>4 DEF Renew, Next, HandleAck
  <2> QED
    BY <1>4, <2>1, IInvStep, RenewLease
<1>5. CASE UNCHANGED <<vars, leaseVars>>
  <2>1. UNCHANGED <<leaders, led, now, currentTerm, cand, chan, acks, leaseVars>>
    BY <1>5 DEF vars, netVars
  <2>2. IInv'
    BY <1>5, IInvStep
  <2> QED
    BY <2>1, <2>2, QuietLease
<1> QED
  BY <1>1, <1>2, <1>3, <1>4, <1>5 DEF LeaseNext

(* Nobody leads and nothing is in flight.                                   *)
LEMMA LInvInit == LeaseInit => IInv /\ LInv
<1> SUFFICES ASSUME LeaseInit PROVE IInv /\ LInv
  OBVIOUS
<1>1. Init
  BY DEF LeaseInit
<1>2. IInv
  BY <1>1, IInvInit
<1>3. /\ leaders = {} /\ led = {} /\ now = 0 /\ DOMAIN acks = {}
      /\ \A s, d \in Server : DOMAIN chan[s][d] = {}
  BY <1>1 DEF Init
<1>4. /\ warmup \in [Server -> Nat] /\ expires \in [Server -> Nat]
      /\ DOMAIN ae_sent = Server
      /\ \A r \in Server : expires[r] = 0 /\ DOMAIN ae_sent[r] = {}
  BY DEF LeaseInit
<1>5. Clocks
  BY <1>3, <1>4, LeaseAssumption DEF LeaseAssumption, Clocks
<1>6. Stamps /\ Leading /\ Leases
  BY <1>3 DEF Stamps, Leading, Leases, OldLeasesEnd
<1> QED
  BY <1>2, <1>5, <1>6 DEF LInv

(* Of two leases one is of an older term, and it ends with the warm-up of   *)
(* the newer leader.                                                        *)
LEMMA LInvImplies == IInv /\ LInv => AtMostOneLease
<1> SUFFICES ASSUME IInv, LInv, LeadersElected, NEW r \in Server, NEW q \in Server,
                    HasReadLease(r), HasReadLease(q), r # q
             PROVE  FALSE
  BY DEF AtMostOneLease
<1>1. OldLeasesEnd
  BY DEF LInv, Leases
<1>2. PICK x \in led : x.by = r /\ x.term = currentTerm[r]
  BY DEF HasReadLease, LInv, Leading
<1>3. PICK y \in led : y.by = q /\ y.term = currentTerm[q]
  BY DEF HasReadLease, LInv, Leading
<1>4. InOffice(x) /\ InOffice(y)
  BY <1>2, <1>3 DEF InOffice, HasReadLease
<1>5. currentTerm[r] # currentTerm[q]
  BY <1>2, <1>3 DEF LeadersElected, IInv, VoteInv, OneWinnerPerTerm
<1>6. /\ currentTerm[r] \in Nat /\ currentTerm[q] \in Nat /\ now \in Nat
      /\ warmup[r] \in Nat /\ warmup[q] \in Nat /\ expires[r] \in Nat /\ expires[q] \in Nat
  BY DEF IInv, ElectionType, LInv, Clocks
<1>7. CASE currentTerm[r] < currentTerm[q]
  <2>1. expires[r] <= warmup[q]
    BY <1>1, <1>3, <1>4, <1>7 DEF OldLeasesEnd, HasReadLease
  <2> QED
    BY <1>6, <2>1 DEF HasReadLease
<1>8. CASE currentTerm[q] < currentTerm[r]
  <2>1. expires[q] <= warmup[r]
    BY <1>1, <1>2, <1>4, <1>8 DEF OldLeasesEnd, HasReadLease
  <2> QED
    BY <1>6, <2>1 DEF HasReadLease
<1> QED
  BY <1>5, <1>6, <1>7, <1>8

(* At most one server holds a read lease, for every number of servers and   *)
(* every lease duration, as long as leaders were elected: setIsLeader's     *)
(* warm-up outlasts every lease RecomputeLeaseLocked may still extend from  *)
(* replies that were under way when the votes were cast.                    *)
THEOREM OneLease == LeaseSpec => []AtMostOneLease
<1> QED
  BY LInvInit, LInvStep, LInvImplies, PTL DEF LeaseSpec
================================================================================
